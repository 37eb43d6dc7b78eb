--------------------------- MODULE DictionaryProofs ---------------------------
(* Theorems about dictionary segments of values that can be ordered: without   *)
(* not-a-number, std::sort, std::unique and the binary searches make ids that  *)
(* stand for the values and compare as they do.                                *)
EXTENDS DictionarySegment, TLAPS

\* The values of a type that its operators order.
Ordered(T) == {v \in AllTypeVariant : v.type = T /\ v.reading # "nan"}

\* No source segment holds not-a-number.
IsOrderable == \A v \in Values : v.reading # "nan"

\* What the variables hold.
Shapes ==
    /\ columnType \in DataTypes
    /\ values \in Seq(Ordered(columnType)) /\ Len(values) <= MaxLength
    /\ phase \in {"sorting", "uniting", "encoding", "ready"}
    /\ position \in Nat
    /\ sorted \in Seq(Ordered(columnType))
    /\ dictionary \in Seq(Ordered(columnType))
    /\ ids \in Seq(Nat)
    /\ first \in Nat /\ len \in Nat
    /\ IsSearching => query.bound \in Bounds /\ query.value \in Ordered(columnType)

\* The sorted values ascend, and are the values that have been copied.
SortedInv ==
    /\ \A i, j \in DOMAIN sorted : i < j => ~Less(sorted[j], sorted[i])
    /\ Len(sorted) <= Len(values)
    /\ phase = "sorting" => position = Len(sorted) + 1
    /\ phase # "sorting" => Len(sorted) = Len(values)
    /\ \A r \in 1 .. Len(sorted) : \E i \in DOMAIN sorted : sorted[i] = values[r]

\* The dictionary ascends strictly, and has every value that has been united.
UnitedInv ==
    /\ \A i, j \in DOMAIN dictionary : i < j => Less(dictionary[i], dictionary[j])
    /\ Len(dictionary) <= Len(sorted)
    /\ phase = "sorting" => dictionary = <<>>
    /\ phase = "uniting" =>
         /\ position \in 1 .. Len(sorted) + 1
         /\ Len(dictionary) < position
         /\ position > 1 =>
              dictionary # <<>> /\ dictionary[Len(dictionary)] = sorted[position - 1]
         /\ \A i \in 1 .. position - 1 : \E d \in DOMAIN dictionary : dictionary[d] = sorted[i]
    /\ phase \in {"encoding", "ready"} =>
         /\ width = WidthOf(Len(dictionary))
         /\ \A r \in DOMAIN values : \E d \in DOMAIN dictionary : dictionary[d] = values[r]

\* Ids are stored in order, each for its value.
EncodedInv ==
    /\ phase \in {"sorting", "uniting"} => ids = <<>> /\ ~IsSearching
    /\ phase = "encoding" =>
         /\ position = Len(ids) + 1 /\ position <= Len(values) + 1
         /\ IsSearching =>
              position <= Len(values) /\ query.bound = "lower" /\ query.value = values[position]
    /\ phase = "ready" => Len(ids) = Len(values)
    /\ DecodesToItsValues

\* A search has decided everything outside the part it still looks at.
SearchInv ==
    IsSearching =>
        /\ phase \in {"encoding", "ready"}
        /\ first + len <= Len(dictionary)
        /\ \A i \in 1 .. first : IsBefore(dictionary[i])
        /\ \A i \in first + len + 1 .. Len(dictionary) : ~IsBefore(dictionary[i])

\* Answers are only given by finished segments.
AnswerInv ==
    /\ phase # "ready" => answer = NoAnswer
    /\ BoundsSplitTheRows

DictionaryInv ==
    Shapes /\ SortedInv /\ UnitedInv /\ EncodedInv /\ SearchInv /\ AnswerInv

-----------------------------------------------------------------------------
(* The order of values.                                                        *)

\* operator< is a total order on the values of a type without not-a-number.
LEMMA LessIsOrder ==
    ASSUME NEW T, NEW a \in Ordered(T), NEW b \in Ordered(T), NEW c \in Ordered(T)
    PROVE  /\ ~Less(a, a)
           /\ Less(a, b) /\ Less(b, c) => Less(a, c)
           /\ ~Less(a, b) /\ ~Less(b, a) => a = b
           /\ ~Less(a, b) /\ ~Less(b, c) => ~Less(a, c)
<1>1. \A v \in Ordered(T) : /\ v.half \in Int
                            /\ v.reading = "number" \/ (v.reading = "word" /\ v.half = 0)
                            /\ v = [type |-> T, reading |-> v.reading, half |-> v.half]
  BY DEF Ordered, AllTypeVariant
<1>2. ~Less(a, a) /\ (Less(a, b) /\ Less(b, c) => Less(a, c))
  BY <1>1 DEF Less
<1>3. ~Less(a, b) /\ ~Less(b, a) => a = b
  <2>1. ~Less(a, b) /\ ~Less(b, a) => a.reading = b.reading /\ a.half = b.half
    BY <1>1 DEF Less
  <2> QED
    BY <1>1, <2>1
<1>4. ~Less(a, b) /\ ~Less(b, c) => ~Less(a, c)
  BY <1>1 DEF Less
<1> QED
  BY <1>2, <1>3, <1>4

\* What can be ordered before a cast can be ordered after it.
LEMMA CastIsOrdered ==
    ASSUME NEW T \in DataTypes, NEW v \in AllTypeVariant, v.reading # "nan",
           NEW value \in TypeCast(T, v) \ {BadCast}
    PROVE  value \in Ordered(T)
<1>1. value \in AllTypeVariant /\ value.type = T
  BY TypeCastType
<1>2. TextOf(v).reading = v.reading
  BY DEF TextOf, AllTypeVariant
<1>3. \A U : LexicalCast(U, TextOf(v)).reading # "nan"
  BY <1>2 DEF LexicalCast, TextOf, BadCast, AllTypeVariant
<1>4. CASE v.type = T
  BY <1>1, <1>4 DEF TypeCast, Ordered
<1>5. CASE v.type # T /\ T \in IntegralTypes /\ LexicalCast(T, TextOf(v)) = BadCast
  BY <1>1, <1>3, <1>5 DEF TypeCast, NumericCast, Number, Ordered
<1>6. CASE v.type # T /\ ~(T \in IntegralTypes /\ LexicalCast(T, TextOf(v)) = BadCast)
  BY <1>1, <1>3, <1>6 DEF TypeCast, Ordered
<1> QED
  BY <1>4, <1>5, <1>6

\* The width that is chosen for a dictionary stores each of its ids as it is, and
\* has the largest id to spare.
LEMMA WidthIsEnough ==
    ASSUME NEW size \in Nat, size <= MaxLength, NEW id \in Nat, id < size,
           width = WidthOf(size)
    PROVE  Stored(id) = id /\ id < LargestId(width)
<1>1. LargestId(width) \in Nat /\ id < LargestId(width)
  BY WidthsAssumption, LengthAssumption DEF WidthOf, LargestId
<1> QED
  BY <1>1 DEF Stored

-----------------------------------------------------------------------------
(* One lemma per step.                                                         *)

\* A new segment has done nothing yet.
LEMMA DictionaryInit ==
    ASSUME IsOrderable, Init
    PROVE  DictionaryInv
<1>1. PICK n \in 0 .. MaxLength : values \in [1 .. n -> {v \in Values : v.type = columnType}]
  BY DEF Init
<1>2. n \in Nat
  BY LengthAssumption
<1>3. \A v \in Values : v.type = columnType => v \in Ordered(columnType)
  BY DictionaryValuesAssumption DEF IsOrderable, Ordered
<1>4. values \in [1 .. n -> Ordered(columnType)]
  BY <1>1, <1>3
<1>5. values \in Seq(Ordered(columnType)) /\ Len(values) = n
  BY <1>2, <1>4
<1>6. ~IsSearching /\ answer = NoAnswer /\ ids = <<>> /\ sorted = <<>> /\ dictionary = <<>>
  BY DEF Init, IsSearching
<1>7. Shapes
  BY <1>2, <1>5, <1>6 DEF Init, Shapes
<1>8. SortedInv /\ UnitedInv
  BY <1>2, <1>5, <1>6 DEF Init, SortedInv, UnitedInv
<1>9. EncodedInv /\ SearchInv /\ AnswerInv
  BY <1>6 DEF Init, EncodedInv, DecodesToItsValues, SearchInv, AnswerInv, BoundsSplitTheRows,
              NoAnswer, Bounds
<1> QED
  BY <1>7, <1>8, <1>9 DEF DictionaryInv

\* The values in front of the place that a value goes to are not greater than it,
\* those behind it are.
LEMMA GoesBetween ==
    ASSUME Shapes, SortedInv, NEW v \in Ordered(columnType),
           NEW k \in 0 .. Len(sorted), GoesBehind(v, k)
    PROVE  /\ \A i \in 1 .. k : ~Less(v, sorted[i])
           /\ \A i \in k + 1 .. Len(sorted) : Less(v, sorted[i])
<1>1. sorted \in Seq(Ordered(columnType))
  BY DEF Shapes
<1>2. \A i, j \in 1 .. Len(sorted) : i < j => ~Less(sorted[j], sorted[i])
  BY <1>1 DEF SortedInv
<1>3. CASE sorted = <<>> \/ Less(v, sorted[1])
  <2>1. k = 0
    BY <1>3 DEF GoesBehind
  <2>2. ASSUME NEW i \in 1 .. Len(sorted)
        PROVE  Less(v, sorted[i])
    <3>1. Less(v, sorted[1]) /\ 1 \in 1 .. Len(sorted)
      BY <1>1, <1>3
    <3>2. i = 1 \/ ~Less(sorted[i], sorted[1])
      BY <1>2, <3>1
    <3> QED
      BY <1>1, <3>1, <3>2, LessIsOrder
  <2> QED
    BY <2>1, <2>2
<1>4. CASE ~(sorted = <<>> \/ Less(v, sorted[1]))
  <2>1. /\ k > 0 /\ ~Less(v, sorted[k])
        /\ \A i \in k + 1 .. Len(sorted) : Less(v, sorted[i])
    BY <1>4 DEF GoesBehind
  <2>2. ASSUME NEW i \in 1 .. k
        PROVE  ~Less(v, sorted[i])
    <3>1. i = k \/ ~Less(sorted[k], sorted[i])
      BY <1>1, <1>2, <2>1
    <3> QED
      BY <1>1, <2>1, <3>1, LessIsOrder
  <2> QED
    BY <2>1, <2>2
<1> QED
  BY <1>3, <1>4

\* Inserting a value keeps the sorted values ascending and loses none.
LEMMA SortStep ==
    ASSUME DictionaryInv, SortNext
    PROVE  DictionaryInv'
<1> DEFINE n == Len(sorted)
           v == values[position]
<1>1. /\ Shapes /\ SortedInv /\ UnitedInv /\ EncodedInv /\ SearchInv /\ AnswerInv
      /\ phase = "sorting" /\ position <= Len(values) /\ position' = position + 1
      /\ UNCHANGED <<columnType, values, phase, dictionary, width, ids, query, first, len, answer>>
  BY DEF DictionaryInv, SortNext, source, search
<1>2. /\ n \in Nat /\ position = n + 1 /\ v \in Ordered(columnType)
      /\ sorted \in Seq(Ordered(columnType)) /\ values \in Seq(Ordered(columnType))
      /\ dictionary = <<>> /\ ids = <<>> /\ ~IsSearching /\ answer = NoAnswer
  BY <1>1 DEF Shapes, SortedInv, UnitedInv, EncodedInv, AnswerInv
<1>3. PICK k \in 0 .. n : GoesBehind(v, k) /\ sorted' = Inserted(v, k)
  BY DEF SortNext
<1>4. /\ \A i \in 1 .. k : ~Less(v, sorted[i])
      /\ \A i \in k + 1 .. n : Less(v, sorted[i])
  BY <1>1, <1>2, <1>3, GoesBetween
<1>5. /\ sorted' = [i \in 1 .. n + 1 |->
                      IF i <= k THEN sorted[i] ELSE IF i = k + 1 THEN v ELSE sorted[i - 1]]
      /\ \A i \in 1 .. n : sorted[i] \in Ordered(columnType)
  BY <1>2, <1>3 DEF Inserted
<1>6. sorted' \in Seq(Ordered(columnType)) /\ Len(sorted') = n + 1
  <2>1. \A i \in 1 .. n + 1 : sorted'[i] \in Ordered(columnType)
    BY <1>2, <1>5
  <2>2. sorted' \in [1 .. n + 1 -> Ordered(columnType)]
    BY <1>5, <2>1
  <2> QED
    BY <1>2, <2>2
<1>7. ASSUME NEW i \in 1 .. n + 1, NEW j \in 1 .. n + 1, i < j
      PROVE  ~Less(sorted'[j], sorted'[i])
  <2>1. \A a, b \in 1 .. n : a < b => ~Less(sorted[b], sorted[a])
    BY <1>1, <1>2 DEF SortedInv
  <2>2. CASE i # k + 1 /\ j # k + 1
    <3> DEFINE before(m) == IF m <= k THEN m ELSE m - 1
    <3>1. /\ before(i) \in 1 .. n /\ before(j) \in 1 .. n /\ before(i) < before(j)
          /\ sorted'[i] = sorted[before(i)] /\ sorted'[j] = sorted[before(j)]
      BY <1>2, <1>5, <1>7, <2>2
    <3> QED
      BY <2>1, <3>1
  <2>3. CASE j = k + 1
    BY <1>2, <1>4, <1>5, <1>7, <2>3
  <2>4. CASE i = k + 1
    <3>1. sorted'[i] = v /\ sorted'[j] = sorted[j - 1] /\ j - 1 \in k + 1 .. n
      BY <1>2, <1>5, <1>7, <2>4
    <3>2. Less(v, sorted[j - 1])
      BY <1>4, <3>1
    <3> QED
      BY <1>2, <1>5, <3>1, <3>2, LessIsOrder
  <2> QED
    BY <2>2, <2>3, <2>4
<1>8. ASSUME NEW r \in 1 .. n + 1
      PROVE  \E i \in 1 .. n + 1 : sorted'[i] = values[r]
  <2>1. CASE r = n + 1
    <3>1. k + 1 \in 1 .. n + 1 /\ sorted'[k + 1] = v
      BY <1>2, <1>5
    <3> QED
      BY <1>2, <2>1, <3>1
  <2>2. CASE r \in 1 .. n
    <3>1. PICK i \in 1 .. n : sorted[i] = values[r]
      BY <1>1, <1>2, <2>2 DEF SortedInv
    <3>2. CASE i <= k
      BY <1>2, <1>5, <3>1, <3>2
    <3>3. CASE i > k
      <4>1. i + 1 \in 1 .. n + 1 /\ sorted'[i + 1] = sorted[i]
        BY <1>2, <1>5, <3>3
      <4> QED
        BY <3>1, <4>1
    <3> QED
      BY <1>2, <3>2, <3>3
  <2> QED
    BY <1>2, <2>1, <2>2
<1>9. Shapes'
  BY <1>1, <1>2, <1>6 DEF Shapes, IsSearching
<1>10. SortedInv'
  <2>1. /\ DOMAIN sorted' = 1 .. n + 1
        /\ \A i, j \in DOMAIN sorted' : i < j => ~Less(sorted'[j], sorted'[i])
        /\ \A r \in 1 .. Len(sorted') : \E i \in DOMAIN sorted' : sorted'[i] = values[r]
    BY <1>2, <1>5, <1>6, <1>7, <1>8
  <2>2. Len(sorted') <= Len(values) /\ phase' = "sorting" /\ position' = Len(sorted') + 1
    BY <1>1, <1>2, <1>6
  <2> QED
    BY <1>1, <2>1, <2>2 DEF SortedInv
<1>11. UnitedInv'
  BY <1>1, <1>2, <1>6 DEF UnitedInv
<1>12. EncodedInv' /\ SearchInv' /\ AnswerInv'
  BY <1>1, <1>2 DEF EncodedInv, DecodesToItsValues, SearchInv, IsSearching, AnswerInv,
                    BoundsSplitTheRows, NoAnswer, Bounds
<1> QED
  BY <1>9, <1>10, <1>11, <1>12 DEF DictionaryInv

\* Uniting starts with nothing united.
LEMMA AllSortedStep ==
    ASSUME DictionaryInv, AllSorted
    PROVE  DictionaryInv'
<1>1. /\ Shapes /\ SortedInv /\ UnitedInv /\ EncodedInv /\ SearchInv /\ AnswerInv
      /\ phase = "sorting" /\ position > Len(values)
      /\ phase' = "uniting" /\ position' = 1
      /\ UNCHANGED <<columnType, values, sorted, dictionary, width, ids, query, first, len, answer>>
  BY DEF DictionaryInv, AllSorted, source, search
<1>2. /\ sorted \in Seq(Ordered(columnType)) /\ values \in Seq(Ordered(columnType))
      /\ Len(sorted) = Len(values) /\ dictionary = <<>> /\ ids = <<>>
      /\ ~IsSearching /\ answer = NoAnswer
  BY <1>1 DEF Shapes, SortedInv, UnitedInv, EncodedInv, AnswerInv
<1>3. Shapes'
  BY <1>1, <1>2 DEF Shapes, IsSearching
<1>4. SortedInv'
  BY <1>1, <1>2 DEF SortedInv
<1>5. UnitedInv'
  BY <1>1, <1>2 DEF UnitedInv
<1>6. EncodedInv' /\ SearchInv' /\ AnswerInv'
  BY <1>1, <1>2 DEF EncodedInv, DecodesToItsValues, SearchInv, IsSearching, AnswerInv,
                    BoundsSplitTheRows, NoAnswer, Bounds
<1> QED
  BY <1>3, <1>4, <1>5, <1>6 DEF DictionaryInv

\* A value that differs from the last one kept is greater than every one kept.
LEMMA UniteStep ==
    ASSUME DictionaryInv, UniteNext
    PROVE  DictionaryInv'
<1> DEFINE v == sorted[position]
           m == Len(dictionary)
<1>1. /\ Shapes /\ SortedInv /\ UnitedInv /\ EncodedInv /\ SearchInv /\ AnswerInv
      /\ phase = "uniting" /\ position <= Len(sorted) /\ position' = position + 1
      /\ dictionary' = IF IsNew(v) THEN Append(dictionary, v) ELSE dictionary
      /\ UNCHANGED <<columnType, values, phase, sorted, width, ids, query, first, len, answer>>
  BY DEF DictionaryInv, UniteNext, source, search
<1>2. /\ sorted \in Seq(Ordered(columnType)) /\ dictionary \in Seq(Ordered(columnType))
      /\ position \in 1 .. Len(sorted) /\ m < position /\ v \in Ordered(columnType)
      /\ ids = <<>> /\ ~IsSearching /\ answer = NoAnswer
  BY <1>1 DEF Shapes, UnitedInv, EncodedInv, AnswerInv
<1>3. /\ dictionary # <<>> <=> position > 1
      /\ dictionary # <<>> => dictionary[m] = sorted[position - 1]
      /\ \A i, j \in 1 .. m : i < j => Less(dictionary[i], dictionary[j])
      /\ \A i \in 1 .. position - 1 : \E d \in 1 .. m : dictionary[d] = sorted[i]
  <2>1. DOMAIN dictionary = 1 .. m /\ m \in Nat /\ (dictionary # <<>> <=> m > 0)
    BY <1>2
  <2>2. /\ position > 1 => dictionary # <<>> /\ dictionary[m] = sorted[position - 1]
        /\ \A i, j \in DOMAIN dictionary : i < j => Less(dictionary[i], dictionary[j])
        /\ \A i \in 1 .. position - 1 : \E d \in DOMAIN dictionary : dictionary[d] = sorted[i]
    BY <1>1 DEF UnitedInv
  <2>3. dictionary # <<>> => position > 1
    BY <1>2, <2>1
  <2> QED
    BY <2>1, <2>2, <2>3
<1>4. dictionary # <<>> =>
        m \in 1 .. m /\ dictionary[m] \in Ordered(columnType) /\ ~Less(v, dictionary[m])
  BY <1>1, <1>2, <1>3 DEF SortedInv
<1>5. /\ dictionary' \in Seq(Ordered(columnType)) /\ dictionary' # <<>>
      /\ Len(dictionary') <= position /\ dictionary'[Len(dictionary')] = v
      /\ m <= Len(dictionary') /\ \A d \in 1 .. m : dictionary'[d] = dictionary[d]
      /\ \A i, j \in 1 .. Len(dictionary') : i < j => Less(dictionary'[i], dictionary'[j])
  <2>1. CASE ~IsNew(v)
    <3>1. dictionary # <<>> /\ dictionary[m] = v /\ dictionary' = dictionary
      BY <1>1, <2>1 DEF IsNew, Equal
    <3> QED
      BY <1>2, <1>3, <3>1
  <2>2. CASE IsNew(v)
    <3>1. /\ dictionary' = Append(dictionary, v) /\ Len(dictionary') = m + 1
          /\ dictionary'[m + 1] = v /\ dictionary' \in Seq(Ordered(columnType))
          /\ \A d \in 1 .. m : dictionary'[d] = dictionary[d]
      BY <1>1, <1>2, <2>2
    <3>2. ASSUME NEW i \in 1 .. m
          PROVE  Less(dictionary[i], v)
      <4>1. dictionary[i] \in Ordered(columnType) /\ dictionary # <<>>
        BY <1>2
      <4>2. dictionary[m] # v
        BY <1>2, <2>2, <4>1 DEF IsNew, Equal, Ordered
      <4>3. Less(dictionary[m], v)
        BY <1>2, <1>4, <4>1, <4>2, LessIsOrder
      <4>4. i = m \/ Less(dictionary[i], dictionary[m])
        BY <1>2, <1>3, <1>4, <4>1
      <4> QED
        BY <1>2, <1>4, <4>1, <4>3, <4>4, LessIsOrder
    <3> QED
      BY SMTT(30), <1>2, <1>3, <3>1, <3>2
  <2> QED
    BY <2>1, <2>2
<1>6. ASSUME NEW i \in 1 .. position
      PROVE  \E d \in 1 .. Len(dictionary') : dictionary'[d] = sorted[i]
  <2>1. CASE i = position
    BY <1>2, <1>5, <2>1
  <2>2. CASE i \in 1 .. position - 1
    BY <1>2, <1>3, <1>5, <2>2
  <2> QED
    BY <1>2, <2>1, <2>2
<1>7. Shapes'
  BY <1>1, <1>2, <1>5 DEF Shapes, IsSearching
<1>8. SortedInv'
  BY <1>1 DEF SortedInv
<1>9. UnitedInv'
  <2>1. /\ DOMAIN dictionary' = 1 .. Len(dictionary') /\ Len(dictionary') \in Nat
        /\ sorted' = sorted /\ Len(sorted) \in Nat /\ position' - 1 = position
    BY <1>1, <1>2, <1>5
  <2>2. /\ phase' = "uniting" /\ position' \in 1 .. Len(sorted) + 1
        /\ Len(dictionary') < position' /\ Len(dictionary') <= Len(sorted)
    BY <1>1, <1>2, <1>5, <2>1
  <2> QED
    BY <1>5, <1>6, <2>1, <2>2 DEF UnitedInv
<1>10. EncodedInv' /\ SearchInv' /\ AnswerInv'
  BY <1>1, <1>2 DEF EncodedInv, DecodesToItsValues, SearchInv, IsSearching, AnswerInv,
                    BoundsSplitTheRows, NoAnswer, Bounds
<1> QED
  BY <1>7, <1>8, <1>9, <1>10 DEF DictionaryInv

\* The united dictionary has every value of the source.
LEMMA AllUnitedStep ==
    ASSUME DictionaryInv, AllUnited
    PROVE  DictionaryInv'
<1>1. /\ Shapes /\ SortedInv /\ UnitedInv /\ EncodedInv /\ SearchInv /\ AnswerInv
      /\ phase = "uniting" /\ position > Len(sorted)
      /\ phase' = "encoding" /\ position' = 1 /\ width' = WidthOf(Len(dictionary))
      /\ UNCHANGED <<columnType, values, sorted, dictionary, ids, query, first, len, answer>>
  BY DEF DictionaryInv, AllUnited, source, search
<1>2. /\ sorted \in Seq(Ordered(columnType)) /\ dictionary \in Seq(Ordered(columnType))
      /\ values \in Seq(Ordered(columnType))
      /\ position = Len(sorted) + 1 /\ Len(sorted) = Len(values)
      /\ ids = <<>> /\ ~IsSearching /\ answer = NoAnswer
  BY <1>1 DEF Shapes, SortedInv, UnitedInv, EncodedInv, AnswerInv
<1>3. ASSUME NEW r \in DOMAIN values
      PROVE  \E d \in DOMAIN dictionary : dictionary[d] = values[r]
  <2>1. PICK i \in 1 .. Len(sorted) : sorted[i] = values[r]
    BY <1>1, <1>2 DEF SortedInv
  <2> QED
    BY <1>1, <1>2, <2>1 DEF UnitedInv
<1>4. Shapes'
  BY <1>1, <1>2 DEF Shapes, IsSearching
<1>5. SortedInv'
  BY <1>1, <1>2 DEF SortedInv
<1>6. UnitedInv'
  <2>1. width' = WidthOf(Len(dictionary))'
    BY <1>1 DEF WidthOf
  <2> QED
    BY <1>1, <1>3, <2>1 DEF UnitedInv
<1>7. EncodedInv' /\ SearchInv' /\ AnswerInv'
  BY <1>1, <1>2 DEF EncodedInv, DecodesToItsValues, SearchInv, IsSearching, AnswerInv,
                    BoundsSplitTheRows, NoAnswer, Bounds
<1> QED
  BY <1>4, <1>5, <1>6, <1>7 DEF DictionaryInv

-----------------------------------------------------------------------------
(* The binary searches.                                                        *)

\* Every value in front of one that a search passes is passed, too, and every
\* value behind one that it does not pass is not.
LEMMA PassingIsMonotone ==
    ASSUME NEW T, NEW a \in Ordered(T), NEW b \in Ordered(T), Less(a, b),
           query.value \in Ordered(T), IsBefore(b)
    PROVE  IsBefore(a)
<1>1. CASE query.bound = "lower"
  BY <1>1, LessIsOrder DEF IsBefore
<1>2. CASE query.bound # "lower"
  <2>1. ~Less(query.value, b) /\ ~Less(b, a)
    BY <1>2, LessIsOrder DEF IsBefore
  <2> QED
    BY <1>2, <2>1, LessIsOrder DEF IsBefore
<1> QED
  BY <1>1, <1>2

\* A search that begins has decided nothing.
LEMMA BeginSearches ==
    ASSUME DictionaryInv, NEW bound \in Bounds, NEW value \in Ordered(columnType), NEW asked,
           Begin(bound, value, asked), UNCHANGED <<columnType, values, phase, position, sorted,
                                                   dictionary, ids>>,
           phase \in {"encoding", "ready"}
    PROVE  Shapes' /\ SearchInv' /\ IsSearching' /\ query'.bound = bound /\ query'.value = value
<1>1. Shapes /\ dictionary \in Seq(Ordered(columnType)) /\ Len(dictionary) \in Nat
  BY DEF DictionaryInv, Shapes
<1>2. /\ query' = [bound |-> bound, value |-> value, asked |-> asked]
      /\ first' = 0 /\ len' = Len(dictionary)
  BY DEF Begin, SearchedLength
<1>3. query'.bound = bound /\ query'.value = value /\ query'.bound # "none"
  BY <1>2 DEF Bounds
<1>4. IsSearching'
  BY <1>3 DEF IsSearching, NoQuery
<1>5. Shapes'
  BY <1>1, <1>2, <1>3 DEF Shapes
<1>6. SearchInv'
  BY <1>1, <1>2 DEF SearchInv
<1> QED
  BY <1>3, <1>4, <1>5, <1>6

\* The value that the search compares with decides on one half of what is left.
LEMMA SearchNarrows ==
    ASSUME DictionaryInv, SearchStep
    PROVE  DictionaryInv'
<1> DEFINE half == len \div 2
           middle == first + half
           n == Len(dictionary)
<1>1. /\ Shapes /\ SortedInv /\ UnitedInv /\ EncodedInv /\ SearchInv /\ AnswerInv
      /\ IsSearching /\ len > 0
      /\ UNCHANGED <<columnType, values, phase, position, sorted, dictionary, width, ids, query, answer>>
      /\ IF IsBefore(dictionary[middle + 1])
         THEN first' = middle + 1 /\ len' = len - half - 1
         ELSE first' = first /\ len' = half
  BY DEF DictionaryInv, SearchStep, source
<1>2. /\ first \in Nat /\ len \in Nat /\ n \in Nat /\ first + len <= n
      /\ dictionary \in Seq(Ordered(columnType)) /\ query.value \in Ordered(columnType)
      /\ \A i \in 1 .. first : IsBefore(dictionary[i])
      /\ \A i \in first + len + 1 .. n : ~IsBefore(dictionary[i])
  BY <1>1 DEF Shapes, SearchInv
<1>3. half \in Nat /\ half < len /\ middle \in Nat /\ middle + 1 \in 1 .. n
  BY <1>1, <1>2
<1>4. \A i, j \in 1 .. n : i < j => Less(dictionary[i], dictionary[j])
  BY <1>1, <1>2 DEF UnitedInv
<1>5. /\ first' \in Nat /\ len' \in Nat /\ first' + len' <= n
      /\ \A i \in 1 .. first' : IsBefore(dictionary[i])
      /\ \A i \in first' + len' + 1 .. n : ~IsBefore(dictionary[i])
  <2>1. CASE IsBefore(dictionary[middle + 1])
    <3>1. first' = middle + 1 /\ len' = len - half - 1 /\ first' + len' = first + len
      BY <1>1, <1>2, <1>3, <2>1
    <3>2. ASSUME NEW i \in 1 .. middle + 1
          PROVE  IsBefore(dictionary[i])
      <4>1. i \in 1 .. n /\ (i = middle + 1 \/ i < middle + 1)
        BY <1>3
      <4>2. i < middle + 1 => Less(dictionary[i], dictionary[middle + 1])
        BY <1>3, <1>4, <4>1
      <4> QED
        BY <1>2, <1>3, <2>1, <4>1, <4>2, PassingIsMonotone
    <3> QED
      BY <1>2, <1>3, <3>1, <3>2
  <2>2. CASE ~IsBefore(dictionary[middle + 1])
    <3>1. first' = first /\ len' = half
      BY <1>1, <2>2
    <3>2. ASSUME NEW i \in middle + 1 .. n
          PROVE  ~IsBefore(dictionary[i])
      <4>1. i \in 1 .. n /\ (i = middle + 1 \/ middle + 1 < i)
        BY <1>3
      <4>2. middle + 1 < i => Less(dictionary[middle + 1], dictionary[i])
        BY <1>3, <1>4, <4>1
      <4> QED
        BY <1>2, <1>3, <2>2, <4>1, <4>2, PassingIsMonotone
    <3> QED
      BY <1>2, <1>3, <3>1, <3>2
  <2> QED
    BY <2>1, <2>2
<1>6. Shapes' /\ SortedInv' /\ UnitedInv' /\ EncodedInv' /\ AnswerInv'
  <2>1. Shapes'
    BY <1>1, <1>5 DEF Shapes, IsSearching
  <2>2. SortedInv' /\ UnitedInv'
    BY <1>1 DEF SortedInv, UnitedInv, WidthOf
  <2>3. EncodedInv' /\ AnswerInv'
    BY <1>1 DEF EncodedInv, DecodesToItsValues, IsSearching, AnswerInv, BoundsSplitTheRows
  <2> QED
    BY <2>1, <2>2, <2>3
<1>7. SearchInv'
  BY <1>1, <1>5 DEF SearchInv, IsBefore
<1> QED
  BY <1>6, <1>7 DEF DictionaryInv

\* The lookup of the next value begins.
LEMMA EncodeStep ==
    ASSUME DictionaryInv, EncodeNext
    PROVE  DictionaryInv'
<1>1. /\ Shapes /\ SortedInv /\ UnitedInv /\ EncodedInv /\ AnswerInv
      /\ phase = "encoding" /\ ~IsSearching /\ position <= Len(values)
      /\ UNCHANGED <<columnType, values, phase, position, sorted, dictionary, width, ids, answer>>
      /\ Begin("lower", values[position], values[position])
  BY DEF DictionaryInv, EncodeNext, EncodingBound, source
<1>2. /\ values \in Seq(Ordered(columnType)) /\ position \in 1 .. Len(values)
      /\ values[position] \in Ordered(columnType)
  BY <1>1 DEF Shapes, EncodedInv
<1>3. /\ Shapes' /\ SearchInv' /\ IsSearching'
      /\ query'.bound = "lower" /\ query'.value = values[position]
  BY <1>1, <1>2, BeginSearches DEF Bounds
<1>4. SortedInv' /\ UnitedInv'
  BY <1>1 DEF SortedInv, UnitedInv, WidthOf
<1>5. EncodedInv'
  BY <1>1, <1>2, <1>3 DEF EncodedInv, DecodesToItsValues
<1>6. AnswerInv'
  BY <1>1 DEF AnswerInv, BoundsSplitTheRows
<1> QED
  BY <1>3, <1>4, <1>5, <1>6 DEF DictionaryInv

\* A lookup ends in front of the value that it looks for, which is there.
LEMMA StoreStep ==
    ASSUME DictionaryInv, StoreId
    PROVE  DictionaryInv'
<1> DEFINE v == values[position]
           n == Len(dictionary)
<1>1. /\ Shapes /\ SortedInv /\ UnitedInv /\ EncodedInv /\ SearchInv /\ AnswerInv
      /\ phase = "encoding" /\ IsSearching /\ len = 0
      /\ ids' = Append(ids, Stored(first)) /\ position' = position + 1
      /\ query' = NoQuery /\ first' = 0 /\ len' = 0
      /\ UNCHANGED <<columnType, values, phase, sorted, dictionary, width, answer>>
  BY DEF DictionaryInv, StoreId, End, source
<1>2. /\ dictionary \in Seq(Ordered(columnType)) /\ values \in Seq(Ordered(columnType))
      /\ ids \in Seq(Nat) /\ n \in Nat /\ first \in Nat /\ first <= n
      /\ position \in 1 .. Len(values) /\ position = Len(ids) + 1
      /\ query.bound = "lower" /\ query.value = v /\ v \in Ordered(columnType)
      /\ width = WidthOf(n) /\ n <= MaxLength
  BY <1>1, LengthAssumption DEF Shapes, SortedInv, UnitedInv, EncodedInv, SearchInv
<1>3. /\ \A i \in 1 .. first : Less(dictionary[i], v)
      /\ \A i \in first + 1 .. n : ~Less(dictionary[i], v)
  BY <1>1, <1>2 DEF SearchInv, IsBefore
<1>4. PICK d \in 1 .. n : dictionary[d] = v
  BY <1>1, <1>2 DEF UnitedInv
<1>5. ~(d <= first)
  <2>1. ~Less(v, v)
    BY <1>2, LessIsOrder
  <2> QED
    BY <1>2, <1>3, <1>4, <2>1
<1>6. ~(first + 1 < d)
  <2>1. SUFFICES ASSUME first + 1 < d
                 PROVE  FALSE
    OBVIOUS
  <2>2. first + 1 \in first + 1 .. n /\ first + 1 \in DOMAIN dictionary /\ d \in DOMAIN dictionary
    BY <1>2, <1>4, <2>1
  <2>3. Less(dictionary[first + 1], dictionary[d])
    BY <1>1, <2>1, <2>2 DEF UnitedInv
  <2> QED
    BY <1>3, <1>4, <2>2, <2>3
<1>7. first < n /\ dictionary[first + 1] = v
  BY <1>2, <1>4, <1>5, <1>6
<1>8. Stored(first) = first
  BY <1>2, <1>7, WidthIsEnough
<1>9. /\ ids' \in Seq(Nat) /\ Len(ids') = position /\ DOMAIN ids' = 1 .. position
      /\ ids'[position] = first
      /\ \A r \in DOMAIN ids : ids'[r] = ids[r] /\ r \in 1 .. position - 1
      /\ \A r \in 1 .. position - 1 : r \in DOMAIN ids
  BY <1>1, <1>2, <1>8
<1>10. DecodesToItsValues'
  <2>1. SUFFICES ASSUME NEW r \in 1 .. position
                 PROVE  ids'[r] < n /\ dictionary[ids'[r] + 1] = values[r]
    BY <1>1, <1>9 DEF DecodesToItsValues
  <2>2. CASE r = position
    BY <1>7, <1>9, <2>2
  <2>3. CASE r # position
    BY <1>1, <1>2, <1>9, <2>3 DEF EncodedInv, DecodesToItsValues
  <2> QED
    BY <2>2, <2>3
<1>11. ~IsSearching'
  BY <1>1 DEF IsSearching
<1>12. Shapes'
  BY <1>1, <1>2, <1>9, <1>11 DEF Shapes
<1>13. SortedInv' /\ UnitedInv'
  BY <1>1 DEF SortedInv, UnitedInv, WidthOf
<1>14. EncodedInv' /\ SearchInv'
  BY <1>1, <1>2, <1>9, <1>10, <1>11 DEF EncodedInv, SearchInv
<1>15. AnswerInv'
  <2>1. answer' = NoAnswer
    BY <1>1 DEF AnswerInv
  <2> QED
    BY <1>1, <2>1 DEF AnswerInv, BoundsSplitTheRows, NoAnswer, Bounds
<1> QED
  BY <1>12, <1>13, <1>14, <1>15 DEF DictionaryInv

\* The segment is finished when every value has its id.
LEMMA AllEncodedStep ==
    ASSUME DictionaryInv, AllEncoded
    PROVE  DictionaryInv'
<1>1. /\ Shapes /\ SortedInv /\ UnitedInv /\ EncodedInv /\ SearchInv /\ AnswerInv
      /\ phase = "encoding" /\ ~IsSearching /\ position > Len(values) /\ phase' = "ready"
      /\ UNCHANGED <<columnType, values, position, sorted, dictionary, width, ids,
                     query, first, len, answer>>
  BY DEF DictionaryInv, AllEncoded, source, search
<1>2. Shapes'
  BY <1>1 DEF Shapes, IsSearching
<1>3. SortedInv' /\ UnitedInv'
  BY <1>1 DEF SortedInv, UnitedInv, WidthOf
<1>4. EncodedInv' /\ SearchInv'
  <2>1. ~IsSearching' /\ DecodesToItsValues'
    BY <1>1 DEF IsSearching, EncodedInv, DecodesToItsValues
  <2>2. Len(ids) = Len(values)
    BY <1>1 DEF EncodedInv, Shapes
  <2> QED
    BY <1>1, <2>1, <2>2 DEF EncodedInv, SearchInv
<1>5. AnswerInv'
  BY <1>1 DEF AnswerInv, BoundsSplitTheRows
<1> QED
  BY <1>2, <1>3, <1>4, <1>5 DEF DictionaryInv

-----------------------------------------------------------------------------
(* Calls.                                                                      *)

\* A call that only answers, and with no bound, disturbs nothing.
LEMMA OtherAnswers ==
    ASSUME DictionaryInv, phase = "ready",
           UNCHANGED <<columnType, values, phase, position, sorted, dictionary, width, ids,
                       query, first, len>>,
           answer'.outcome # "done" \/ answer'.call \notin Bounds
    PROVE  DictionaryInv'
<1>1. Shapes /\ SortedInv /\ UnitedInv /\ EncodedInv /\ SearchInv /\ AnswerInv
  BY DEF DictionaryInv
<1>2. Shapes'
  BY <1>1 DEF Shapes, IsSearching
<1>3. SortedInv' /\ UnitedInv'
  BY <1>1 DEF SortedInv, UnitedInv, WidthOf
<1>4. EncodedInv'
  BY <1>1 DEF EncodedInv, DecodesToItsValues, IsSearching
<1>5. SearchInv'
  BY <1>1 DEF SearchInv, IsSearching, IsBefore
<1>6. AnswerInv'
  BY DEF AnswerInv, BoundsSplitTheRows
<1> QED
  BY <1>2, <1>3, <1>4, <1>5, <1>6 DEF DictionaryInv

\* The lookup of a bound begins with a value that can be ordered.
LEMMA AskStep ==
    ASSUME DictionaryInv, NEW bound \in Bounds, NEW variant \in Searches, AskBound(bound, variant)
    PROVE  DictionaryInv'
<1>1. /\ Shapes /\ SortedInv /\ UnitedInv /\ EncodedInv /\ AnswerInv
      /\ phase = "ready"
      /\ UNCHANGED <<columnType, values, phase, position, sorted, dictionary, width, ids, answer>>
  BY DEF DictionaryInv, AskBound, Callable, source
<1>2. PICK value \in TypeCast(columnType, variant) \ {BadCast} : Begin(bound, value, variant)
  BY DEF AskBound
<1>3. variant \in AllTypeVariant /\ variant.reading # "nan"
  BY DictionaryValuesAssumption
<1>4. value \in Ordered(columnType)
  BY <1>1, <1>2, <1>3, CastIsOrdered DEF Shapes
<1>5. Shapes' /\ SearchInv'
  BY <1>1, <1>2, <1>4, BeginSearches
<1>6. SortedInv' /\ UnitedInv'
  BY <1>1 DEF SortedInv, UnitedInv, WidthOf
<1>7. EncodedInv' /\ AnswerInv'
  BY <1>1 DEF EncodedInv, DecodesToItsValues, AnswerInv, BoundsSplitTheRows
<1> QED
  BY <1>5, <1>6, <1>7 DEF DictionaryInv

\* The search ends where the rows' values stop lying in front of the bound.
LEMMA AnswerStep ==
    ASSUME DictionaryInv, AnswerBound
    PROVE  DictionaryInv'
<1> DEFINE n == Len(dictionary)
<1>1. /\ Shapes /\ SortedInv /\ UnitedInv /\ EncodedInv /\ SearchInv /\ AnswerInv
      /\ phase = "ready" /\ IsSearching /\ len = 0
      /\ query' = NoQuery /\ first' = 0 /\ len' = 0
      /\ UNCHANGED <<columnType, values, phase, position, sorted, dictionary, width, ids>>
      /\ answer' = [call |-> query.bound, outcome |-> "done", query |-> query,
                    value |-> query.value, id |-> BoundId]
  BY DEF DictionaryInv, AnswerBound, End, Answer, source
<1>2. /\ dictionary \in Seq(Ordered(columnType)) /\ values \in Seq(Ordered(columnType))
      /\ ids \in Seq(Nat) /\ n \in Nat /\ first \in Nat /\ first <= n /\ n <= MaxLength
      /\ Len(ids) = Len(values) /\ query.bound \in Bounds
  BY <1>1, LengthAssumption DEF Shapes, SortedInv, UnitedInv, EncodedInv, SearchInv
<1>3. /\ \A i \in 1 .. first : IsBefore(dictionary[i])
      /\ \A i \in first + 1 .. n : ~IsBefore(dictionary[i])
  BY <1>1, <1>2 DEF SearchInv
<1>4. ASSUME NEW r \in DOMAIN ids
      PROVE  ids[r] < BoundId <=> IsBefore(values[r])
  <2>1. ids[r] \in Nat /\ ids[r] < n /\ dictionary[ids[r] + 1] = values[r]
    BY <1>1, <1>2 DEF EncodedInv, DecodesToItsValues
  <2>2. ids[r] < BoundId <=> ids[r] < first
    BY <1>2, <2>1, LengthAssumption, WidthsAssumption DEF BoundId
  <2>3. CASE ids[r] < first
    BY <1>2, <1>3, <2>1, <2>2, <2>3
  <2>4. CASE ~(ids[r] < first)
    <3>1. ids[r] + 1 \in first + 1 .. n
      BY <1>2, <2>1, <2>4
    <3> QED
      BY <1>3, <2>1, <2>2, <2>4, <3>1
  <2> QED
    BY <2>3, <2>4
<1>5. BoundsSplitTheRows'
  <2>1. /\ answer'.call = query.bound /\ answer'.value = query.value /\ answer'.id = BoundId
        /\ ids' = ids /\ values' = values
    BY <1>1
  <2>2. SUFFICES ASSUME NEW r \in DOMAIN ids
                 PROVE  ids[r] < BoundId <=> IF query.bound = "lower"
                                             THEN Less(values[r], query.value)
                                             ELSE ~Less(query.value, values[r])
    BY <2>1 DEF BoundsSplitTheRows
  <2> QED
    BY <1>4 DEF IsBefore
<1>6. ~IsSearching'
  BY <1>1 DEF IsSearching
<1>7. Shapes'
  BY <1>1, <1>6 DEF Shapes
<1>8. SortedInv' /\ UnitedInv'
  BY <1>1 DEF SortedInv, UnitedInv, WidthOf
<1>9. EncodedInv' /\ SearchInv'
  BY <1>1, <1>6 DEF EncodedInv, DecodesToItsValues, SearchInv
<1>10. AnswerInv'
  BY <1>1, <1>5 DEF AnswerInv
<1> QED
  BY <1>7, <1>8, <1>9, <1>10 DEF DictionaryInv

\* Every step keeps the invariant.
LEMMA DictionaryStep ==
    ASSUME DictionaryInv, [Next]_vars
    PROVE  DictionaryInv'
<1>1. CASE Construct
  BY <1>1, SortStep, AllSortedStep, UniteStep, AllUnitedStep, EncodeStep, StoreStep,
     AllEncodedStep DEF Construct
<1>2. CASE SearchStep
  BY <1>2, SearchNarrows
<1>3. ASSUME NEW r \in DOMAIN ids, Read(r)
      PROVE  DictionaryInv'
  <2>1. answer'.call = "read"
    BY <1>3 DEF Read, Answer
  <2> QED
    BY <1>3, <2>1, OtherAnswers DEF Read, Callable, source, search, Bounds
<1>4. ASSUME NEW id \in 0 .. MaxLength, ValueByValueId(id)
      PROVE  DictionaryInv'
  <2>1. answer'.call = "value"
    BY <1>4 DEF ValueByValueId, Answer
  <2> QED
    BY <1>4, <2>1, OtherAnswers DEF ValueByValueId, Callable, source, search, Bounds
<1>5. CASE Refuse
  <2>1. answer'.outcome = "thrown"
    BY <1>5 DEF Refuse, Answer
  <2> QED
    BY <1>5, <2>1, OtherAnswers DEF Refuse, Callable, source, search
<1>6. ASSUME NEW bound \in Bounds, NEW v \in Searches, AskBound(bound, v)
      PROVE  DictionaryInv'
  BY <1>6, AskStep
<1>7. ASSUME NEW bound \in Bounds, NEW v \in Searches, AskThrows(bound, v)
      PROVE  DictionaryInv'
  <2>1. answer'.outcome = "thrown"
    BY <1>7 DEF AskThrows, Answer
  <2> QED
    BY <1>7, <2>1, OtherAnswers DEF AskThrows, Callable, source, search
<1>8. CASE AnswerBound
  BY <1>8, AnswerStep
<1>9. CASE UNCHANGED vars
  <2>1. UNCHANGED <<columnType, values, phase, position, sorted, dictionary, width, ids,
                    query, first, len, answer>>
    BY <1>9 DEF vars, source, search
  <2>2. Shapes' /\ SortedInv' /\ UnitedInv'
    BY <2>1 DEF DictionaryInv, Shapes, SortedInv, UnitedInv, IsSearching, WidthOf
  <2>3. EncodedInv' /\ SearchInv' /\ AnswerInv'
    BY <2>1 DEF DictionaryInv, EncodedInv, DecodesToItsValues, SearchInv, IsSearching, IsBefore,
                AnswerInv, BoundsSplitTheRows
  <2> QED
    BY <2>2, <2>3 DEF DictionaryInv
<1> QED
  BY <1>1, <1>2, <1>3, <1>4, <1>5, <1>6, <1>7, <1>8, <1>9 DEF Next

-----------------------------------------------------------------------------
(* Theorems.                                                                   *)

\* The invariant that the theorems below are read from.
LEMMA DictionaryInvariant ==
    ASSUME IsOrderable
    PROVE  Spec => []DictionaryInv
<1>1. Init => DictionaryInv
  BY DictionaryInit
<1>2. DictionaryInv /\ [Next]_vars => DictionaryInv'
  BY DictionaryStep
<1> QED
  BY <1>1, <1>2, PTL DEF Spec

\* A compressed column without not-a-number holds what the column held, whatever
\* its type, its values and the widths of the ids.
THEOREM ColumnsDecode ==
    ASSUME IsOrderable
    PROVE  Spec => []DecodesToItsValues
<1>1. DictionaryInv => DecodesToItsValues
  BY DEF DictionaryInv, EncodedInv
<1> QED
  BY <1>1, DictionaryInvariant, PTL

\* The ids of a column without not-a-number compare as the values they stand for.
THEOREM IdsCompare ==
    ASSUME IsOrderable
    PROVE  Spec => []IdsCompareAsValues
<1>1. ASSUME DictionaryInv
      PROVE  IdsCompareAsValues
  <2>1. SUFFICES ASSUME NEW r \in DOMAIN ids, NEW t \in DOMAIN ids
                 PROVE  ids[r] < ids[t] <=> Less(values[r], values[t])
    BY DEF IdsCompareAsValues
  <2>2. /\ dictionary \in Seq(Ordered(columnType)) /\ ids \in Seq(Nat)
        /\ \A i, j \in DOMAIN dictionary : i < j => Less(dictionary[i], dictionary[j])
    BY <1>1 DEF DictionaryInv, Shapes, UnitedInv
  <2>3. /\ ids[r] \in Nat /\ ids[r] < Len(dictionary) /\ dictionary[ids[r] + 1] = values[r]
        /\ ids[t] \in Nat /\ ids[t] < Len(dictionary) /\ dictionary[ids[t] + 1] = values[t]
    BY <1>1, <2>2 DEF DictionaryInv, EncodedInv, DecodesToItsValues
  <2>4. /\ ids[r] + 1 \in DOMAIN dictionary /\ ids[t] + 1 \in DOMAIN dictionary
        /\ values[r] \in Ordered(columnType) /\ values[t] \in Ordered(columnType)
    BY <2>2, <2>3
  <2>5. CASE ids[r] < ids[t]
    BY <2>2, <2>3, <2>4, <2>5
  <2>6. CASE ids[r] = ids[t]
    BY <2>3, <2>4, <2>6, LessIsOrder
  <2>7. CASE ids[t] < ids[r]
    <3>1. Less(values[t], values[r])
      BY <2>2, <2>3, <2>4, <2>7
    <3> QED
      BY <2>3, <2>4, <2>7, <3>1, LessIsOrder
  <2> QED
    BY <2>3, <2>5, <2>6, <2>7
<1> QED
  BY <1>1, DictionaryInvariant, PTL

\* The largest id of the chosen width is never used, so that INVALID_VALUE_ID,
\* cut to that width, stands for no value.
THEOREM InvalidIdStaysFree ==
    ASSUME IsOrderable
    PROVE  Spec => []InvalidIdIsFree
<1>1. ASSUME DictionaryInv
      PROVE  InvalidIdIsFree
  <2>1. SUFFICES ASSUME NEW r \in DOMAIN ids
                 PROVE  ids[r] # LargestId(width)
    BY DEF InvalidIdIsFree
  <2>2. /\ ids[r] \in Nat /\ ids[r] < Len(dictionary) /\ Len(dictionary) \in Nat
        /\ Len(dictionary) <= MaxLength /\ ids # <<>>
    <3>1. /\ ids \in Seq(Nat) /\ dictionary \in Seq(Ordered(columnType))
          /\ values \in Seq(Ordered(columnType)) /\ sorted \in Seq(Ordered(columnType))
          /\ Len(values) <= MaxLength
      BY <1>1 DEF DictionaryInv, Shapes
    <3>2. Len(dictionary) <= Len(sorted) /\ Len(sorted) <= Len(values)
      BY <1>1 DEF DictionaryInv, SortedInv, UnitedInv
    <3>3. ids[r] < Len(dictionary)
      BY <1>1 DEF DictionaryInv, EncodedInv, DecodesToItsValues
    <3> QED
      BY <3>1, <3>2, <3>3, LengthAssumption
  <2>3. width = WidthOf(Len(dictionary))
    BY <1>1, <2>2 DEF DictionaryInv, Shapes, UnitedInv, EncodedInv
  <2>4. ids[r] < LargestId(width) /\ LargestId(width) \in Nat
    BY <2>2, <2>3, WidthIsEnough, WidthsAssumption DEF LargestId
  <2> QED
    BY <2>2, <2>4
<1> QED
  BY <1>1, DictionaryInvariant, PTL

\* What lower_bound and upper_bound answer splits the rows of a column without
\* not-a-number at the value that was searched for.
THEOREM BoundsSplit ==
    ASSUME IsOrderable
    PROVE  Spec => []BoundsSplitTheRows
<1>1. DictionaryInv => BoundsSplitTheRows
  BY DEF DictionaryInv, AnswerInv
<1> QED
  BY <1>1, DictionaryInvariant, PTL

-----------------------------------------------------------------------------
(* The type of the state, whatever values there are.                           *)

\* What the type of the state rests on of the loops; no order of the values.
LoopInv ==
    /\ Len(sorted) <= Len(values)
    /\ phase = "sorting" => position = Len(sorted) + 1
    /\ phase \in {"sorting", "uniting"} => ids = <<>> /\ ~IsSearching
    /\ phase = "encoding" /\ IsSearching => position <= Len(values)

TypedLoops == TypeOK /\ LoopInv

LEMMA TypedInit == Init => TypedLoops
<1> SUFFICES ASSUME Init PROVE TypedLoops
  OBVIOUS
<1>1. PICK n \in 0 .. MaxLength : values \in [1 .. n -> ColumnValues]
  BY DEF Init, ColumnValues
<1>2. n \in Nat /\ n <= MaxLength /\ MaxLength \in Nat
  BY LengthAssumption
<1>3. values \in Seq(ColumnValues) /\ Len(values) = n
  BY <1>1, <1>2
<1>4. /\ columnType \in DataTypes /\ phase = "sorting" /\ position = 1 /\ width = 0
      /\ sorted = <<>> /\ dictionary = <<>> /\ ids = <<>>
      /\ query = NoQuery /\ first = 0 /\ len = 0
  BY DEF Init
<1>5. TypeOK
  BY <1>2, <1>3, <1>4 DEF TypeOK
<1>6. LoopInv
  BY <1>2, <1>3, <1>4 DEF LoopInv, IsSearching
<1> QED
  BY <1>5, <1>6 DEF TypedLoops

\* A segment under construction: what is sorted and united is of its type.
LEMMA TypedConstruction ==
    ASSUME TypedLoops, SortNext \/ AllSorted \/ UniteNext \/ AllUnited \/ AllEncoded
    PROVE  TypedLoops'
<1>1. /\ TypeOK /\ LoopInv
      /\ values \in Seq(ColumnValues) /\ sorted \in Seq(ColumnValues)
      /\ dictionary \in Seq(ColumnValues)
      /\ position \in 1 .. MaxLength + 1 /\ MaxLength \in Nat
      /\ first \in Nat /\ len \in Nat /\ first + len <= Len(dictionary)
      /\ Len(values) <= MaxLength /\ Len(sorted) <= Len(values)
  BY LengthAssumption DEF TypedLoops, TypeOK, LoopInv
<1>2. columnType' = columnType /\ values' = values /\ UNCHANGED search
  BY DEF SortNext, AllSorted, UniteNext, AllUnited, AllEncoded, source, search
<1>3. ColumnValues' = ColumnValues /\ Sought' = Sought /\ IsSearching' = IsSearching
  BY <1>2 DEF ColumnValues, Sought, IsSearching, search
<1>4. CASE SortNext
  <2> DEFINE n == Len(sorted)
             v == values[position]
  <2>1. /\ phase = "sorting" /\ position <= Len(values) /\ position' = position + 1
        /\ UNCHANGED <<phase, dictionary, width, ids>>
    BY <1>4 DEF SortNext
  <2>2. PICK k \in 0 .. n : sorted' = Inserted(v, k)
    BY <1>4 DEF SortNext
  <2>3. n \in Nat /\ position = n + 1 /\ v \in ColumnValues /\ ids = <<>>
    BY <1>1, <2>1 DEF LoopInv
  <2>4. /\ \A i \in 1 .. n + 1 : sorted'[i] \in ColumnValues
        /\ sorted' = [i \in 1 .. n + 1 |-> sorted'[i]]
    BY <1>1, <2>2, <2>3 DEF Inserted
  <2>5. sorted' \in Seq(ColumnValues) /\ Len(sorted') = n + 1
    BY <2>3, <2>4
  <2>6. TypeOK'
    BY <1>1, <1>2, <1>3, <2>1, <2>3, <2>5 DEF TypeOK, search, LargestId
  <2>7. LoopInv'
    BY <1>1, <1>2, <1>3, <2>1, <2>3, <2>5 DEF LoopInv
  <2> QED
    BY <2>6, <2>7 DEF TypedLoops
<1>5. CASE AllSorted \/ AllUnited
  <2>1. /\ phase' \in {"uniting", "encoding"} /\ position' = 1
        /\ sorted' = sorted /\ dictionary' = dictionary /\ ids' = ids /\ ids = <<>>
        /\ ~IsSearching /\ width' \in {0, 1, 2, 4}
    BY <1>1, <1>5 DEF AllSorted, AllUnited, WidthOf, LoopInv, TypeOK
  <2>2. TypeOK'
    BY <1>1, <1>2, <1>3, <2>1 DEF TypeOK, search
  <2>3. LoopInv'
    BY <1>1, <1>2, <1>3, <2>1 DEF LoopInv
  <2> QED
    BY <2>2, <2>3 DEF TypedLoops
<1>6. CASE UniteNext
  <2>1. /\ phase = "uniting" /\ position <= Len(sorted) /\ position' = position + 1
        /\ dictionary' \in {dictionary, Append(dictionary, sorted[position])}
        /\ UNCHANGED <<phase, sorted, width, ids>>
    BY <1>6 DEF UniteNext
  <2>2. dictionary' \in Seq(ColumnValues) /\ Len(dictionary) <= Len(dictionary')
    <3>1. sorted[position] \in ColumnValues
      BY <1>1, <2>1
    <3> DEFINE v == sorted[position]
               longer == Append(dictionary, v)
    <3>2. v \in ColumnValues
      BY <3>1
    <3> HIDE DEF v
    <3>3. longer \in Seq(ColumnValues) /\ Len(longer) = Len(dictionary) + 1
          /\ Len(dictionary) \in Nat
      BY <1>1, <3>2
    <3>4. dictionary' \in {dictionary, longer}
      BY <2>1 DEF v
    <3> HIDE DEF longer
    <3>5. CASE dictionary' = dictionary
      BY <1>1, <3>3, <3>5
    <3>6. CASE dictionary' = longer
      BY <3>3, <3>6
    <3> QED
      BY <3>4, <3>5, <3>6
  <2>3. TypeOK'
    BY <1>1, <1>2, <1>3, <2>1, <2>2 DEF TypeOK, search, LargestId
  <2>4. LoopInv'
    BY <1>1, <1>2, <1>3, <2>1 DEF LoopInv
  <2> QED
    BY <2>3, <2>4 DEF TypedLoops
<1>7. CASE AllEncoded
  <2>1. phase' = "ready" /\ UNCHANGED <<position, sorted, dictionary, width, ids>>
    BY <1>7 DEF AllEncoded
  <2>2. TypeOK'
    BY <1>1, <1>2, <1>3, <2>1 DEF TypeOK, search, LargestId
  <2>3. LoopInv'
    BY <1>1, <1>2, <2>1 DEF LoopInv
  <2> QED
    BY <2>2, <2>3 DEF TypedLoops
<1> QED
  BY <1>4, <1>5, <1>6, <1>7

\* The searches that fill the ids: each id fits the width that was chosen.
LEMMA TypedEncoding ==
    ASSUME TypedLoops, EncodeNext \/ StoreId
    PROVE  TypedLoops'
<1>1. /\ TypeOK /\ LoopInv
      /\ values \in Seq(ColumnValues) /\ dictionary \in Seq(ColumnValues)
      /\ position \in 1 .. MaxLength + 1 /\ MaxLength \in Nat /\ Len(values) <= MaxLength
      /\ first \in Nat /\ len \in Nat /\ first + len <= Len(dictionary)
      /\ ids \in Seq(0 .. LargestId(width)) /\ LargestId(width) \in Nat
  BY LengthAssumption, WidthsAssumption DEF TypedLoops, TypeOK, LargestId
<1>2. CASE EncodeNext
  <2>1. /\ phase = "encoding" /\ position <= Len(values)
        /\ query' = [bound |-> "lower", value |-> values[position], asked |-> values[position]]
        /\ first' = 0 /\ len' = Len(dictionary)
        /\ UNCHANGED <<columnType, values, phase, position, sorted, dictionary, width, ids>>
    BY <1>2 DEF EncodeNext, Begin, SearchedLength, EncodingBound, source
  <2>2. values[position] \in Values
    <3>1. values[position] \in ColumnValues
      BY <1>1, <2>1
    <3> QED
      BY <3>1 DEF ColumnValues
  <2>3. query' \in [bound : Bounds, value : Sought, asked : Searches \cup Values]
    <3> DEFINE value == values[position]
    <3>1. value \in Sought /\ value \in Searches \cup Values
      BY <2>2 DEF Sought
    <3>2. "lower" \in Bounds
      BY DEF Bounds
    <3>3. query' = [bound |-> "lower", value |-> value, asked |-> value]
      BY <2>1
    <3> HIDE DEF value
    <3> QED
      BY <3>1, <3>2, <3>3
  <2>4. ColumnValues' = ColumnValues /\ Sought' = Sought
    BY <2>1 DEF ColumnValues, Sought
  <2>5. TypeOK'
    BY <1>1, <2>1, <2>3, <2>4 DEF TypeOK, LargestId
  <2>6. LoopInv'
    BY <1>1, <2>1 DEF LoopInv
  <2> QED
    BY <2>5, <2>6 DEF TypedLoops
<1>3. CASE StoreId
  <2>1. /\ phase = "encoding" /\ IsSearching /\ position' = position + 1
        /\ ids' = Append(ids, Stored(first))
        /\ query' = NoQuery /\ first' = 0 /\ len' = 0
        /\ UNCHANGED <<columnType, values, phase, sorted, dictionary, width>>
    BY <1>3 DEF StoreId, End, source
  <2>2. position <= Len(values)
    BY <1>1, <2>1 DEF LoopInv
  <2>3. Stored(first) \in 0 .. LargestId(width)
    <3> DEFINE largest == LargestId(width)
    <3>1. first \in Nat /\ largest \in Nat
      BY <1>1
    <3> HIDE DEF largest
    <3>2. first % (largest + 1) \in 0 .. largest
      BY <3>1
    <3> QED
      BY <3>2 DEF Stored, largest
  <2> DEFINE id == Stored(first)
  <2> HIDE DEF id
  <2>4. ids' \in Seq(0 .. LargestId(width))
    <3>1. ids' = Append(ids, id) /\ id \in 0 .. LargestId(width)
      BY <2>1, <2>3 DEF id
    <3> QED
      BY <1>1, <3>1
  <2>5. ColumnValues' = ColumnValues /\ LargestId(width)' = LargestId(width) /\ ~IsSearching'
    BY <2>1 DEF ColumnValues, LargestId, IsSearching
  <2>6. TypeOK'
    BY <1>1, <2>1, <2>2, <2>4, <2>5 DEF TypeOK
  <2>7. LoopInv'
    BY <1>1, <2>1, <2>5 DEF LoopInv
  <2> QED
    BY <2>6, <2>7 DEF TypedLoops
<1> QED
  BY <1>2, <1>3

\* A search stays within the dictionary.
LEMMA TypedSearch ==
    ASSUME TypedLoops, SearchStep
    PROVE  TypedLoops'
<1>1. /\ TypeOK /\ LoopInv /\ len > 0
      /\ first \in Nat /\ len \in Nat /\ first + len <= Len(dictionary)
      /\ UNCHANGED <<columnType, values, phase, position, sorted, dictionary, width, ids, query>>
  BY DEF TypedLoops, TypeOK, SearchStep, source
<1>2. first' \in Nat /\ len' \in Nat /\ first' + len' <= Len(dictionary)
  <2> DEFINE half == len \div 2
  <2>1. half \in Nat /\ half < len
    BY <1>1
  <2>2. \/ first' = first + half + 1 /\ len' = len - half - 1
        \/ first' = first /\ len' = half
    BY DEF SearchStep
  <2> HIDE DEF half
  <2>3. Len(dictionary) \in Nat
    BY <1>1 DEF TypeOK
  <2> QED
    BY <1>1, <2>1, <2>2, <2>3
<1>3. ColumnValues' = ColumnValues /\ Sought' = Sought /\ LargestId(width)' = LargestId(width)
      /\ IsSearching' = IsSearching
  BY <1>1 DEF ColumnValues, Sought, LargestId, IsSearching
<1>4. TypeOK'
  BY <1>1, <1>2, <1>3 DEF TypeOK
<1>5. LoopInv'
  BY <1>1, <1>3 DEF LoopInv
<1> QED
  BY <1>4, <1>5 DEF TypedLoops

\* Calls on a finished segment.
LEMMA TypedCalls ==
    ASSUME TypedLoops, phase = "ready",
           UNCHANGED <<columnType, values, phase, position, sorted, dictionary, width, ids>>,
           \/ UNCHANGED search
           \/ query' = NoQuery /\ first' = 0 /\ len' = 0
           \/ /\ query' \in [bound : Bounds, value : Sought, asked : Searches \cup Values]
              /\ first' = 0 /\ len' = Len(dictionary)
    PROVE  TypedLoops'
<1>1. TypeOK /\ LoopInv /\ Len(dictionary) \in Nat
  BY DEF TypedLoops, TypeOK
<1>2. ColumnValues' = ColumnValues /\ Sought' = Sought /\ LargestId(width)' = LargestId(width)
  BY DEF ColumnValues, Sought, LargestId
<1>3. TypeOK'
  BY <1>1, <1>2 DEF TypeOK, search
<1>4. LoopInv'
  BY <1>1 DEF LoopInv
<1> QED
  BY <1>3, <1>4 DEF TypedLoops

LEMMA TypedStep == TypedLoops /\ [Next]_vars => TypedLoops'
<1> SUFFICES ASSUME TypedLoops, [Next]_vars PROVE TypedLoops'
  OBVIOUS
<1>1. CASE Construct
  BY <1>1, TypedConstruction, TypedEncoding DEF Construct
<1>2. CASE SearchStep
  BY <1>2, TypedSearch
<1>3. CASE \/ \E r \in DOMAIN ids : Read(r)
           \/ \E id \in 0 .. MaxLength : ValueByValueId(id)
           \/ Refuse
           \/ \E bound \in Bounds, v \in Searches : AskThrows(bound, v)
  BY <1>3, TypedCalls DEF Read, ValueByValueId, Refuse, AskThrows, Callable, source, search
<1>4. ASSUME NEW bound \in Bounds, NEW v \in Searches, AskBound(bound, v)
      PROVE  TypedLoops'
  <2>1. PICK value \in TypeCast(columnType, v) \ {BadCast} :
            query' = [bound |-> bound, value |-> value, asked |-> v]
            /\ first' = 0 /\ len' = Len(dictionary)
    BY <1>4 DEF AskBound, Begin, SearchedLength
  <2>2. query' \in [bound : Bounds, value : Sought, asked : Searches \cup Values]
    BY <2>1 DEF Sought
  <2> QED
    BY <1>4, <2>1, <2>2, TypedCalls DEF AskBound, Callable, source
<1>5. CASE AnswerBound
  BY <1>5, TypedCalls DEF AnswerBound, End, source
<1>6. CASE UNCHANGED vars
  <2>1. UNCHANGED <<columnType, values, phase, position, sorted, dictionary, width, ids, query,
                    first, len>>
    BY <1>6 DEF vars, source, search
  <2>2. ColumnValues' = ColumnValues /\ Sought' = Sought /\ LargestId(width)' = LargestId(width)
        /\ IsSearching' = IsSearching
    BY <2>1 DEF ColumnValues, Sought, LargestId, IsSearching
  <2> QED
    BY <2>1, <2>2 DEF TypedLoops, TypeOK, LoopInv
<1> QED
  BY <1>1, <1>2, <1>3, <1>4, <1>5, <1>6 DEF Next

\* A segment's state is made of what its members can hold, not-a-number among
\* its values or not: no search leaves the dictionary, no id its bytes.
THEOREM SegmentTypeCorrect == Spec => []TypeOK
<1>1. TypedLoops => TypeOK
  BY DEF TypedLoops
<1> QED
  BY <1>1, TypedInit, TypedStep, PTL DEF Spec
=============================================================================
