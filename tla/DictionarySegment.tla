--------------------------- MODULE DictionarySegment ---------------------------
(* DictionarySegment<T>: how it is built from the values of another segment    *)
(* (sort, drop duplicates, choose the width of the value ids, look every value *)
(* up), and how it then answers for them.  std::sort, std::unique and the two  *)
(* binary searches are modelled loop iteration by loop iteration, because they *)
(* are what the segment's answers rest on.                                     *)
EXTENDS TypeCast, Sequences

CONSTANTS Values,      \* the values that a source segment may hold, of any types
          Searches,    \* the variants that bounds may be asked for
          UInt8Max,    \* numeric_limits<uint8_t>::max()
          UInt16Max,   \* numeric_limits<uint16_t>::max()
          UInt32Max,   \* numeric_limits<uint32_t>::max(), also INVALID_VALUE_ID
          MaxLength    \* bound: the values of a source segment

\* Texts are compared as the numbers they spell, which for numbers of one digit
\* is the order of std::string; a word comes after every number.
ASSUME DictionaryValuesAssumption ==
    /\ Values \subseteq AllTypeVariant /\ Searches \subseteq AllTypeVariant
    /\ \A v \in Values : v.type = "string" =>
         v.reading = "word" \/ (v.reading = "number" /\ v.half \in 0 .. 18)
    /\ \A v \in Searches : v.reading # "nan" /\ v.half < 20
ASSUME WidthsAssumption ==
    /\ UInt8Max \in Nat /\ UInt16Max \in Nat /\ UInt32Max \in Nat
    /\ 0 < UInt8Max /\ UInt8Max < UInt16Max /\ UInt16Max < UInt32Max
ASSUME LengthAssumption == MaxLength \in Nat /\ MaxLength < UInt32Max

VARIABLES
    columnType,  \* T
    values,      \* the values of base_segment
    phase,       \* "sorting", "uniting", "encoding" or "ready"
    position,    \* the value that the current loop has reached
    sorted,      \* the copied values, as far as they have been sorted
    dictionary,  \* _dictionary, as far as it has been united
    width,       \* the bytes of an id in _attribute_vector
    ids,         \* _attribute_vector, as far as it has been set
    query,       \* what a binary search looks for
    first, len,  \* the part of the dictionary that it has not decided
    answer       \* the last call on the segment and what it answered

source == <<columnType, values>>
search == <<query, first, len>>
vars == <<source, phase, position, sorted, dictionary, width, ids, search, answer>>

NoQuery == [bound |-> "none", value |-> BadCast, asked |-> BadCast]
NoAnswer == [call |-> "none", outcome |-> "done", query |-> NoQuery, value |-> BadCast, id |-> 0]

-----------------------------------------------------------------------------
(* T's operators.                                                              *)

\* a < b; false for every comparison with not-a-number.
Less(a, b) ==
    \/ a.reading = "number" /\ b.reading = "number" /\ a.half < b.half
    \/ a.reading = "number" /\ b.reading = "word"

\* a == b
Equal(a, b) == a = b /\ a.reading # "nan"

(* The widths of value ids.                                                    *)

\* (Mutant: a width is chosen if every id fits.)
WidthThatFits(size) ==
    IF size <= UInt8Max + 1 THEN 1 ELSE IF size <= UInt16Max + 1 THEN 2 ELSE 4

WidthOf(size) ==
    IF size < UInt8Max THEN 1 ELSE IF size < UInt16Max THEN 2 ELSE 4

LargestId(bytes) ==
    CASE bytes = 1 -> UInt8Max [] bytes = 2 -> UInt16Max [] OTHER -> UInt32Max

\* FixedSizeAttributeVector::set keeps the low bytes of an id.
Stored(id) == id % (LargestId(width) + 1)

-----------------------------------------------------------------------------
Init ==
    /\ columnType \in DataTypes
    /\ values \in UNION {[1 .. n -> {v \in Values : v.type = columnType}] : n \in 0 .. MaxLength}
    /\ phase = "sorting" /\ position = 1
    /\ sorted = <<>> /\ dictionary = <<>> /\ width = 0 /\ ids = <<>>
    /\ query = NoQuery /\ first = 0 /\ len = 0
    /\ answer = NoAnswer

\* The sort puts a value right behind the first k sorted ones: in front of all if
\* it is less than the first, else behind the last one that it is not less than.
GoesBehind(v, k) ==
    IF sorted = <<>> \/ Less(v, sorted[1])
    THEN k = 0
    ELSE /\ k > 0
         /\ ~Less(v, sorted[k])
         /\ \A i \in k + 1 .. Len(sorted) : Less(v, sorted[i])

Inserted(v, k) ==
    [i \in 1 .. Len(sorted) + 1 |->
        IF i <= k THEN sorted[i] ELSE IF i = k + 1 THEN v ELSE sorted[i - 1]]

\* The next value is copied and sorted in.
SortNext ==
    /\ phase = "sorting" /\ position <= Len(values)
    /\ \E k \in 0 .. Len(sorted) :
         GoesBehind(values[position], k) /\ sorted' = Inserted(values[position], k)
    /\ position' = position + 1
    /\ UNCHANGED <<source, phase, dictionary, width, ids, search, answer>>

AllSorted ==
    /\ phase = "sorting" /\ position > Len(values)
    /\ phase' = "uniting" /\ position' = 1
    /\ UNCHANGED <<source, sorted, dictionary, width, ids, search, answer>>

\* std::unique keeps a value that differs from the last one kept.
IsNew(v) == dictionary = <<>> \/ ~Equal(dictionary[Len(dictionary)], v)

UniteNext ==
    /\ phase = "uniting" /\ position <= Len(sorted)
    /\ dictionary' = IF IsNew(sorted[position])
                     THEN Append(dictionary, sorted[position]) ELSE dictionary
    /\ position' = position + 1
    /\ UNCHANGED <<source, phase, sorted, width, ids, search, answer>>

\* The dictionary is done, and its size decides on the attribute vector's width.
AllUnited ==
    /\ phase = "uniting" /\ position > Len(sorted)
    /\ width' = WidthOf(Len(dictionary))
    /\ phase' = "encoding" /\ position' = 1
    /\ UNCHANGED <<source, sorted, dictionary, ids, search, answer>>

-----------------------------------------------------------------------------
(* std::lower_bound and std::upper_bound over the dictionary.                  *)

IsSearching == query # NoQuery

\* (Mutant: the dictionary is searched as if it kept its duplicates.)
CopiedLength == Len(values)

SearchedLength == Len(dictionary)

Begin(bound, value, asked) ==
    /\ query' = [bound |-> bound, value |-> value, asked |-> asked]
    /\ first' = 0 /\ len' = SearchedLength

\* The bound lies on the right of a dictionary value.
IsBefore(v) ==
    IF query.bound = "lower" THEN Less(v, query.value) ELSE ~Less(query.value, v)

SearchStep ==
    /\ IsSearching /\ len > 0
    /\ LET half == len \div 2
           middle == first + half
       IN  IF IsBefore(dictionary[middle + 1])
           THEN first' = middle + 1 /\ len' = len - half - 1
           ELSE first' = first /\ len' = half
    /\ UNCHANGED <<source, phase, position, sorted, dictionary, width, ids, query, answer>>

End == query' = NoQuery /\ first' = 0 /\ len' = 0

-----------------------------------------------------------------------------
(* The attribute vector.                                                       *)

\* (Mutant: values are looked up with std::upper_bound.)
EncodingUpperBound == "upper"

EncodingBound == "lower"

\* The next value is cast to the type it already has and looked up ...
EncodeNext ==
    /\ phase = "encoding" /\ ~IsSearching /\ position <= Len(values)
    /\ Begin(EncodingBound, values[position], values[position])
    /\ UNCHANGED <<source, phase, position, sorted, dictionary, width, ids, answer>>

\* ... and its id stored.
StoreId ==
    /\ phase = "encoding" /\ IsSearching /\ len = 0
    /\ ids' = Append(ids, Stored(first))
    /\ position' = position + 1
    /\ End
    /\ UNCHANGED <<source, phase, sorted, dictionary, width, answer>>

AllEncoded ==
    /\ phase = "encoding" /\ ~IsSearching /\ position > Len(values)
    /\ phase' = "ready"
    /\ UNCHANGED <<source, position, sorted, dictionary, width, ids, search, answer>>

Construct ==
    \/ SortNext \/ AllSorted \/ UniteNext \/ AllUnited
    \/ EncodeNext \/ StoreId \/ AllEncoded

-----------------------------------------------------------------------------
(* Calls on the finished segment.                                              *)

Callable == phase = "ready" /\ ~IsSearching

Answer(call, outcome, asked, value, id) ==
    answer' = [call |-> call, outcome |-> outcome, query |-> asked, value |-> value, id |-> id]

\* operator[] and get: the dictionary checks the id, nothing checks the position.
Read(r) ==
    /\ Callable
    /\ IF ids[r] < Len(dictionary)
       THEN Answer("read", "done", NoQuery, dictionary[ids[r] + 1], 0)
       ELSE Answer("read", "thrown", NoQuery, BadCast, 0)
    /\ UNCHANGED <<source, phase, position, sorted, dictionary, width, ids, search>>

\* value_by_value_id
ValueByValueId(id) ==
    /\ Callable
    /\ IF id < Len(dictionary)
       THEN Answer("value", "done", NoQuery, dictionary[id + 1], id)
       ELSE Answer("value", "thrown", NoQuery, BadCast, id)
    /\ UNCHANGED <<source, phase, position, sorted, dictionary, width, ids, search>>

\* append
Refuse ==
    /\ Callable
    /\ Answer("append", "thrown", NoQuery, BadCast, 0)
    /\ UNCHANGED <<source, phase, position, sorted, dictionary, width, ids, search>>

\* lower_bound or upper_bound of a variant casts it first, which may throw.
AskBound(bound, variant) ==
    /\ Callable
    /\ \E value \in TypeCast(columnType, variant) \ {BadCast} : Begin(bound, value, variant)
    /\ UNCHANGED <<source, phase, position, sorted, dictionary, width, ids, answer>>

AskThrows(bound, variant) ==
    /\ Callable
    /\ BadCast \in TypeCast(columnType, variant)
    /\ Answer(bound, "thrown", NoQuery, BadCast, 0)
    /\ UNCHANGED <<source, phase, position, sorted, dictionary, width, ids, search>>

\* (Mutant: a search that ends behind the last value answers its id.)
LastId == IF first = Len(dictionary) THEN first - 1 ELSE first

\* A search that ends behind the last value answers INVALID_VALUE_ID.
BoundId == IF first = Len(dictionary) THEN UInt32Max ELSE first

AnswerBound ==
    /\ phase = "ready" /\ IsSearching /\ len = 0
    /\ Answer(query.bound, "done", query, query.value, BoundId)
    /\ End
    /\ UNCHANGED <<source, phase, position, sorted, dictionary, width, ids>>

Bounds == {"lower", "upper"}

Next ==
    \/ Construct \/ SearchStep
    \/ \E r \in DOMAIN ids : Read(r)
    \/ \E id \in 0 .. MaxLength : ValueByValueId(id)
    \/ Refuse
    \/ \E bound \in Bounds, v \in Searches : AskBound(bound, v) \/ AskThrows(bound, v)
    \/ AnswerBound

Spec == Init /\ [][Next]_vars

-----------------------------------------------------------------------------
ColumnValues == {v \in Values : v.type = columnType}
Sought == (UNION {TypeCast(columnType, v) : v \in Searches}) \cup Values

\* The state is made of what the code's variables can hold; a search stays within
\* the dictionary, and an id within the bytes it is stored in.
TypeOK ==
    /\ columnType \in DataTypes
    /\ values \in Seq(ColumnValues) /\ Len(values) <= MaxLength
    /\ phase \in {"sorting", "uniting", "encoding", "ready"}
    /\ position \in 1 .. MaxLength + 1
    /\ sorted \in Seq(ColumnValues) /\ dictionary \in Seq(ColumnValues)
    /\ width \in {0, 1, 2, 4}
    /\ ids \in Seq(0 .. LargestId(width))
    /\ query = NoQuery \/ query \in [bound : Bounds, value : Sought, asked : Searches \cup Values]
    /\ first \in Nat /\ len \in Nat /\ first + len <= Len(dictionary)

\* Every position that has been encoded decodes to the value it was made from: a
\* compressed column holds what the column held (DictionarySegment::operator[]).
DecodesToItsValues ==
    \A r \in DOMAIN ids : ids[r] < Len(dictionary) /\ dictionary[ids[r] + 1] = values[r]

\* Ids compare as the values they stand for: two rows are equal, or one less than
\* the other, exactly if their ids are.
IdsCompareAsValues ==
    \A r, t \in DOMAIN ids : ids[r] < ids[t] <=> Less(values[r], values[t])

\* No stored id looks like INVALID_VALUE_ID cut to the width of the ids, so that
\* value stays free to mean "none" (dictionary_segment.hpp:23-25).
InvalidIdIsFree == \A r \in DOMAIN ids : ids[r] # LargestId(width)

\* The answer of a bound splits the rows: the ids below it are those of exactly
\* the rows whose values are less than the searched value (lower_bound), or not
\* greater (upper_bound).  It is what a scan on the value ids relies on.
BoundsSplitTheRows ==
    answer.outcome = "done" /\ answer.call \in Bounds =>
        \A r \in DOMAIN ids :
            ids[r] < answer.id <=> IF answer.call = "lower"
                                   THEN Less(values[r], answer.value)
                                   ELSE ~Less(answer.value, values[r])

\* The same for the value that the caller asked for, in whatever type: the id of
\* a bound is the first whose value is >= (or >) "the search value"
\* (dictionary_segment.hpp:91, "same as lower_bound(T), but accepts an
\* AllTypeVariant").  For numbers in columns of numbers.
BoundsMeanTheSearchValue ==
    answer.outcome = "done" /\ answer.call \in Bounds /\ columnType # "string"
            /\ answer.query.asked.reading = "number" =>
        \A r \in DOMAIN ids :
            ids[r] < answer.id <=> IF answer.call = "lower"
                                   THEN values[r].half < answer.query.asked.half
                                   ELSE values[r].half <= answer.query.asked.half
=============================================================================
