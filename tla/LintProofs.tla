------------------------------ MODULE LintProofs ------------------------------
(***************************************************************************)
(* Theorems about what cpplint.py keeps over the files of a run, for all   *)
(* arguments, configuration files, files and limits.                       *)
(***************************************************************************)
EXTENDS Lint, FiniteSetTheorems, SequenceTheorems, TLAPS

-----------------------------------------------------------------------------
(* Filters.                                                                *)

\* While a file is at hand, the filters of the command line are in the backup.
FiltersInv ==
    /\ FiltersAreRestored
    /\ phase \in {"read", "lines", "restore"} => filtersBackup = ArgumentFilters(job)

LEMMA FiltersStep ==
    ASSUME FiltersInv, [Next]_vars
    PROVE  FiltersInv'
<1> USE DEF FiltersInv, FiltersAreRestored
<1>1. job' = job
  BY DEF Next, vars, ParseArguments, Exit, StartFile, SkipFile, OpenFile, Report, ProcessLine,
         FinishLines, EndFile, Ended
<1>2. CASE ParseArguments
  BY <1>1, <1>2 DEF ParseArguments, ArgumentFilters
<1>3. CASE Exit
  BY <1>1, <1>3 DEF Exit
<1>4. CASE StartFile
  BY <1>1, <1>4 DEF StartFile, BackupFilters, ArgumentFilters
<1>5. CASE SkipFile \/ OpenFile \/ ProcessLine \/ FinishLines \/ Ended \/ UNCHANGED vars
  BY <1>1, <1>5 DEF SkipFile, OpenFile, ProcessLine, FinishLines, Ended, vars, reportVars,
                    ArgumentFilters
<1>6. CASE Report
  BY <1>1, <1>6 DEF Report, Handle, ArgumentFilters
<1>7. CASE EndFile
  BY <1>1, <1>7 DEF EndFile, RestoreFilters, ArgumentFilters
<1> QED
  BY <1>2, <1>3, <1>4, <1>5, <1>6, <1>7 DEF Next

\* Every file of every run starts with the filters of the command line, whatever
\* the configuration files of the ones before have added and however their
\* handling ended (BackupFilters, RestoreFilters).
THEOREM FiltersAlwaysRestored == Spec => []FiltersAreRestored
<1>1. Init => FiltersInv
  BY DEF Init, FiltersInv, FiltersAreRestored
<1>2. FiltersInv => FiltersAreRestored
  BY DEF FiltersInv
<1> QED
  BY <1>1, <1>2, FiltersStep, PTL DEF Spec

-----------------------------------------------------------------------------
(* Counters.                                                               *)

\* Nothing is counted before it is known how: the way of counting then stays.
CountsInv ==
    /\ CountsAddUp
    /\ printed \in Seq(Range(printed))
    /\ phase = "arguments" => printed = <<>> /\ pending = <<>>

\* The messages a counter stands for.
Counted(c) == {i \in DOMAIN printed : c \in CounterOf(printed[i].category)}

LEMMA CountingStays ==
    ASSUME counting' = counting
    PROVE  \A category : CounterOf(category)' = CounterOf(category)
BY DEF CounterOf

\* One more message of a category is one more for each of its counters.
LEMMA MessageCounted ==
    ASSUME CountsInv, NEW new, counting' = counting,
           IncrementErrorCount(new.category), printed' = Append(printed, new)
    PROVE  CountsAddUp' /\ printed' \in Seq(Range(printed'))
<1> DEFINE n == Len(printed)
<1>1. printed \in Seq(Range(printed)) /\ n \in Nat /\ DOMAIN printed = 1 .. n
  BY DEF CountsInv
<1>2. /\ printed' \in Seq(Range(printed) \cup {new})
      /\ Len(printed') = n + 1 /\ DOMAIN printed' = 1 .. n + 1
      /\ \A i \in 1 .. n : printed'[i] = printed[i]
      /\ printed'[n + 1] = new
  <2>1. printed \in Seq(Range(printed) \cup {new})
    BY <1>1, SeqMonotonic
  <2> QED
    BY <1>1, <2>1
<1>3. printed' \in Seq(Range(printed'))
  <2>1. Range(printed) \cup {new} \subseteq Range(printed')
    <3>1. ASSUME NEW x \in Range(printed) PROVE x \in Range(printed')
      <4>1. PICK i \in 1 .. n : x = printed[i]
        BY <1>1 DEF Range
      <4>2. i \in DOMAIN printed' /\ printed'[i] = x
        BY <1>1, <1>2, <4>1
      <4> QED
        BY <4>2 DEF Range
    <3>2. n + 1 \in DOMAIN printed'
      BY <1>1, <1>2
    <3> QED
      BY <1>2, <3>1, <3>2 DEF Range
  <2> QED
    BY <1>2, <2>1, SeqMonotonic
<1> HIDE DEF n
<1>4. errorCount' = Len(printed')
  BY <1>2 DEF CountsInv, CountsAddUp, IncrementErrorCount, n
<1>5. DOMAIN errorsByCategory' = UNION {CounterOf(printed'[i].category) : i \in DOMAIN printed'}
  <2>1. DOMAIN errorsByCategory' = DOMAIN errorsByCategory \cup CounterOf(new.category)
    BY DEF IncrementErrorCount
  <2>2. DOMAIN errorsByCategory = UNION {CounterOf(printed[i].category) : i \in 1 .. n}
    BY <1>1 DEF CountsInv, CountsAddUp
  <2>3. {CounterOf(printed'[i].category) : i \in DOMAIN printed'}
            = {CounterOf(printed[i].category) : i \in 1 .. n} \cup {CounterOf(new.category)}
    <3>1. 1 .. n + 1 = (1 .. n) \cup {n + 1}
      BY <1>1
    <3> QED
      BY <1>2, <3>1
  <2> QED
    BY <2>1, <2>2, <2>3
<1>6. ASSUME NEW c \in DOMAIN errorsByCategory'
      PROVE  errorsByCategory'[c] =
                Cardinality({i \in DOMAIN printed' : c \in CounterOf(printed'[i].category)})
  <2> DEFINE counted == {i \in DOMAIN printed' : c \in CounterOf(printed'[i].category)}
             before == IF c \in DOMAIN errorsByCategory THEN errorsByCategory[c] ELSE 0
  <2>1. errorsByCategory'[c] = before + (IF c \in CounterOf(new.category) THEN 1 ELSE 0)
    BY DEF IncrementErrorCount
  <2>2. Counted(c) \subseteq 1 .. n /\ IsFiniteSet(Counted(c)) /\ n + 1 \notin Counted(c)
    <3>1. Counted(c) \subseteq 1 .. n
      BY <1>1 DEF Counted
    <3>2. IsFiniteSet(1 .. n)
      BY <1>1, FS_Interval
    <3> QED
      BY <1>1, <3>1, <3>2, FS_Subset
  <2>3. before = Cardinality(Counted(c))
    <3>1. CASE c \in DOMAIN errorsByCategory
      BY <3>1 DEF CountsInv, CountsAddUp, Counted
    <3>2. CASE c \notin DOMAIN errorsByCategory
      <4>1. Counted(c) = {}
        BY <1>1, <3>2 DEF CountsInv, CountsAddUp, Counted
      <4> QED
        BY <3>2, <4>1, FS_EmptySet
    <3> QED
      BY <3>1, <3>2
  <2>4. counted = Counted(c) \cup (IF c \in CounterOf(new.category) THEN {n + 1} ELSE {})
    <3>1. \A i \in 1 .. n : i \in counted <=> i \in Counted(c)
      BY <1>1, <1>2 DEF Counted
    <3>2. n + 1 \in counted <=> c \in CounterOf(new.category)
      BY <1>1, <1>2
    <3>3. counted \subseteq (1 .. n) \cup {n + 1}
      BY <1>1, <1>2
    <3> QED
      BY <2>2, <3>1, <3>2, <3>3
  <2> HIDE DEF counted, before
  <2>5. CASE c \in CounterOf(new.category)
    <3>1. errorsByCategory'[c] = Cardinality(counted)
      BY <2>1, <2>2, <2>3, <2>4, <2>5, FS_AddElement
    <3> QED
      BY <3>1 DEF counted
  <2>6. CASE c \notin CounterOf(new.category)
    <3>1. Cardinality(Counted(c)) \in Nat /\ counted = Counted(c)
      BY <2>2, <2>4, <2>6, FS_CardinalityType
    <3>2. errorsByCategory'[c] = Cardinality(counted)
      BY <2>1, <2>3, <2>6, <3>1
    <3> QED
      BY <3>2 DEF counted
  <2> QED
    BY <2>5, <2>6
<1> QED
  BY <1>3, <1>4, <1>5, <1>6, CountingStays DEF CountsAddUp
LEMMA ErrorCounted ==
    ASSUME CountsInv, phase # "arguments", phase' = phase, counting' = counting,
           NEW ln, NEW category, NEW confidence, LogError(file, ln, category, confidence)
    PROVE  CountsInv'
<1>1. CASE ShouldPrintError(category, confidence, ln)
  <2> DEFINE new == [file |-> file, line |-> ln, category |-> category,
                     confidence |-> confidence]
  <2>1. IncrementErrorCount(new.category) /\ printed' = Append(printed, new)
    BY <1>1 DEF LogError
  <2> HIDE DEF new
  <2> QED
    BY <2>1, MessageCounted DEF CountsInv
<1>2. CASE ~ShouldPrintError(category, confidence, ln)
  BY <1>2, CountingStays DEF LogError, CountsInv, CountsAddUp
<1> QED
  BY <1>1, <1>2

LEMMA CountsStep ==
    ASSUME CountsInv, [Next]_vars
    PROVE  CountsInv'
<1>1. CASE ParseArguments
  <2>1. /\ printed = <<>> /\ phase' # "arguments"
        /\ errorCount' = errorCount /\ errorsByCategory' = errorsByCategory
        /\ printed' = printed
    BY <1>1 DEF ParseArguments, CountsInv
  <2>2. DOMAIN printed = {}
    BY <2>1
  <2>3. DOMAIN errorsByCategory = {}
    BY <2>2 DEF CountsInv, CountsAddUp
  <2> QED
    BY <2>1, <2>2, <2>3 DEF CountsInv, CountsAddUp
<1>2. CASE Report
  <2> DEFINE event == Head(pending)
             Same == UNCHANGED <<errorCount, errorsByCategory, printed>>
  <2>1. /\ Handle(file, event) /\ phase' = phase /\ counting' = counting
        /\ phase # "arguments"
    BY <1>2 DEF Report, Handle, CountsInv
  <2>2. CASE LogError(file, event.line, event.category, event.confidence)
    BY <2>1, <2>2, ErrorCounted
  <2>3. CASE LogError(file, event.line, UnknownNolint, 5)
    BY <2>1, <2>3, ErrorCounted
  <2>4. CASE Same
    BY <2>1, <2>4, CountingStays DEF CountsInv, CountsAddUp
  <2> QED
    BY <2>1, <2>2, <2>3, <2>4 DEF Handle, ParseNolintSuppressions
<1>3. CASE /\ counting' = counting /\ errorCount' = errorCount /\ printed' = printed
           /\ errorsByCategory' = errorsByCategory
           /\ phase' # "arguments"
  BY <1>3, CountingStays DEF CountsInv, CountsAddUp
<1>4. \/ ParseArguments \/ Report
      \/ /\ counting' = counting /\ errorCount' = errorCount /\ printed' = printed
         /\ errorsByCategory' = errorsByCategory
         /\ phase' # "arguments"
      \/ UNCHANGED vars
  BY DEF Next, vars, reportVars, Exit, StartFile, SkipFile, OpenFile, ProcessLine, FinishLines,
         EndFile, Ended
<1>5. CASE UNCHANGED vars
  BY <1>5, CountingStays DEF vars, reportVars, CountsInv, CountsAddUp
<1> QED
  BY <1>1, <1>2, <1>3, <1>4, <1>5

\* The total is the number of messages and the counters add up to it, in every
\* run and under every way of counting (_CppLintState.IncrementErrorCount).
THEOREM CountsAlwaysAddUp == Spec => []CountsAddUp
<1>1. Init => CountsInv
  <2> SUFFICES ASSUME Init PROVE CountsInv
    OBVIOUS
  <2>1. /\ printed = <<>> /\ pending = <<>> /\ errorCount = 0 /\ errorsByCategory = <<>>
    BY DEF Init, InitReport
  <2>2. /\ DOMAIN printed = {} /\ DOMAIN errorsByCategory = {} /\ Len(printed) = 0
        /\ printed \in Seq(Range(printed))
    BY <2>1
  <2> QED
    BY <2>1, <2>2 DEF CountsInv, CountsAddUp
<1>2. CountsInv => CountsAddUp
  BY DEF CountsInv
<1> QED
  BY <1>1, <1>2, CountsStep, PTL DEF Spec

-----------------------------------------------------------------------------
(* Sequences.                                                              *)

\* A sequence over any set is one.
LEMMA SequenceOver ==
    ASSUME NEW S, NEW s \in Seq(S)
    PROVE  /\ IsSequence(s) /\ Len(s) \in Nat /\ DOMAIN s = 1 .. Len(s)
           /\ \A i \in 1 .. Len(s) : s[i] \in S
<1>1. Len(s) \in Nat /\ DOMAIN s = 1 .. Len(s) /\ \A i \in 1 .. Len(s) : s[i] \in S
  OBVIOUS
<1>2. \A i \in 1 .. Len(s) : s[i] \in Range(s)
  BY <1>1 DEF Range
<1>3. s \in [1 .. Len(s) -> Range(s)]
  BY <1>1, <1>2
<1> QED
  BY <1>1, <1>3 DEF IsSequence

\* The positions of a sequence are the numbers up to its length.
LEMMA SequenceFacts ==
    ASSUME NEW s, IsSequence(s)
    PROVE  Len(s) \in Nat /\ DOMAIN s = 1 .. Len(s)
BY DEF IsSequence

\* The empty sequence and a sequence of one.
LEMMA ShortSequences ==
    /\ IsSequence(<<>>) /\ DOMAIN <<>> = {} /\ Len(<<>>) = 0
    /\ \A e : IsSequence(<<e>>) /\ DOMAIN <<e>> = {1} /\ <<e>>[1] = e
<1>1. <<>> \in Seq({}) /\ Len(<<>>) = 0 /\ DOMAIN <<>> = {}
  OBVIOUS
<1>2. ASSUME NEW e PROVE IsSequence(<<e>>) /\ DOMAIN <<e>> = {1} /\ <<e>>[1] = e
  <2>1. <<e>> \in Seq({e})
    OBVIOUS
  <2>2. DOMAIN <<e>> = {1} /\ <<e>>[1] = e
    OBVIOUS
  <2> QED
    BY <2>1, <2>2, SequenceOver
<1> QED
  BY <1>1, <1>2, SequenceOver, Zenon

\* A function on an interval from 1 is a sequence.
LEMMA SequenceFromFunction ==
    ASSUME NEW n \in Nat, NEW s, NEW S, s \in [1 .. n -> S]
    PROVE  IsSequence(s) /\ Len(s) = n
<1>1. s \in Seq(S) /\ Len(s) = n
  OBVIOUS
<1> QED
  BY <1>1, SequenceOver

\* A concatenation is a sequence: the first one, then the second.
LEMMA SequenceConcat ==
    ASSUME NEW s, NEW t, IsSequence(s), IsSequence(t)
    PROVE  /\ IsSequence(s \o t)
           /\ Len(s \o t) = Len(s) + Len(t)
           /\ \A i \in 1 .. Len(s) : (s \o t)[i] = s[i]
           /\ \A i \in 1 .. Len(t) : (s \o t)[Len(s) + i] = t[i]
<1> DEFINE S == Range(s) \cup Range(t)
<1>1. s \in Seq(S) /\ t \in Seq(S)
  <2>1. Range(s) \subseteq S /\ Range(t) \subseteq S
    OBVIOUS
  <2> HIDE DEF S
  <2> QED
    BY <2>1, SeqMonotonic DEF IsSequence
<1> HIDE DEF S
<1>2. s \o t \in Seq(S)
  BY <1>1
<1>3. IsSequence(s \o t)
  BY <1>2, SequenceOver
<1> QED
  BY <1>1, <1>3

\* Every position of a concatenation is one of the first or of the second sequence.
LEMMA ConcatPositions ==
    ASSUME NEW s, NEW t, IsSequence(s), IsSequence(t), NEW i \in DOMAIN (s \o t)
    PROVE  \/ i \in DOMAIN s /\ (s \o t)[i] = s[i]
           \/ \E k \in DOMAIN t : i = Len(s) + k /\ (s \o t)[i] = t[k]
<1>1. PICK u, m, n : u = s \o t /\ m = Len(s) /\ n = Len(t)
  OBVIOUS
<1>2. /\ m \in Nat /\ n \in Nat /\ DOMAIN s = 1 .. m /\ DOMAIN t = 1 .. n
      /\ Len(u) = m + n /\ DOMAIN u = 1 .. Len(u)
      /\ \A k \in 1 .. m : u[k] = s[k]
      /\ \A k \in 1 .. n : u[m + k] = t[k]
  BY <1>1, SequenceFacts, SequenceConcat
<1>3. i \in 1 .. m + n
  BY <1>1, <1>2
<1>4. CASE i <= m
  BY <1>1, <1>2, <1>3, <1>4
<1>5. CASE i > m
  <2>1. PICK k : k = i - m
    OBVIOUS
  <2>2. k \in 1 .. n /\ i = m + k
    BY <1>2, <1>3, <1>5, <2>1
  <2> QED
    BY <1>1, <1>2, <2>2
<1> QED
  BY <1>2, <1>3, <1>4, <1>5

\* A sequence with one more element.
LEMMA SequenceAppend ==
    ASSUME NEW s, NEW e, IsSequence(s)
    PROVE  /\ IsSequence(Append(s, e))
           /\ Len(Append(s, e)) = Len(s) + 1
           /\ \A i \in 1 .. Len(s) : Append(s, e)[i] = s[i]
           /\ Append(s, e)[Len(s) + 1] = e
           /\ DOMAIN Append(s, e) = 1 .. Len(s) + 1
<1> DEFINE S == Range(s) \cup {e}
<1>1. s \in Seq(S) /\ e \in S
  <2>1. Range(s) \subseteq S /\ e \in S
    OBVIOUS
  <2> HIDE DEF S
  <2> QED
    BY <2>1, SeqMonotonic DEF IsSequence
<1> HIDE DEF S
<1>2. Append(s, e) \in Seq(S)
  BY <1>1
<1>3. IsSequence(Append(s, e))
  BY <1>2, SequenceOver
<1> QED
  BY <1>1, <1>3

\* A sequence without its first element.
LEMMA SequenceTail ==
    ASSUME NEW s, IsSequence(s), s # <<>>
    PROVE  /\ IsSequence(Tail(s)) /\ Len(Tail(s)) = Len(s) - 1 /\ Len(s) \in Nat \ {0}
           /\ \A i \in 1 .. Len(s) - 1 : Tail(s)[i] = s[i + 1]
           /\ Head(s) = s[1] /\ 1 \in DOMAIN s
<1> DEFINE S == Range(s)
<1>1. s \in Seq(S)
  BY DEF IsSequence
<1> HIDE DEF S
<1>2. Tail(s) \in Seq(S)
  BY <1>1
<1>3. IsSequence(Tail(s))
  BY <1>2, SequenceOver
<1> QED
  BY <1>1, <1>3

\* A sequence without its last element.
LEMMA SequenceFront ==
    ASSUME NEW s, IsSequence(s), s # <<>>
    PROVE  /\ IsSequence(Front(s)) /\ Len(Front(s)) = Len(s) - 1 /\ Len(s) \in Nat \ {0}
           /\ \A i \in 1 .. Len(s) - 1 : Front(s)[i] = s[i]
           /\ Len(s) \in DOMAIN s
<1> DEFINE S == Range(s)
<1>1. s \in Seq(S)
  BY DEF IsSequence
<1> HIDE DEF S
<1>2. PICK n : n = Len(s)
  OBVIOUS
<1>3. n \in Nat \ {0} /\ n \in DOMAIN s
  BY <1>1, <1>2
<1>4. Front(s) = SubSeq(s, 1, n - 1)
  BY <1>2 DEF Front
<1>5. /\ SubSeq(s, 1, n - 1) \in Seq(S) /\ Len(SubSeq(s, 1, n - 1)) = n - 1
      /\ \A i \in 1 .. n - 1 : SubSeq(s, 1, n - 1)[i] = s[i]
  BY <1>1, <1>2, <1>3
<1>6. IsSequence(Front(s))
  BY <1>4, <1>5, SequenceOver
<1> QED
  BY <1>2, <1>3, <1>4, <1>5, <1>6

-----------------------------------------------------------------------------
(* Loops.                                                                  *)

\* The loop over the options; and, with it, the lemmas about concatenations and
\* numbers that need no loop.
IsArguments(a) ==
    /\ {"verbosity", "counting", "filters", "outcome"} \subseteq DOMAIN a
    /\ a.verbosity \in Nat /\ a.counting \in {"", "total", "toplevel", "detailed"}
    /\ IsSequence(a.filters)
INSTANCE SequenceLemmas WITH
    Step <- LAMBDA p, q, a, opt : ParseOption(a, opt),
    Holds <- LAMBDA p, q, a, k : IsArguments(a)

\* What the lemmas say of the operators of SequencesExt.
LEMMA MaxOfInterval ==
    ASSUME NEW n \in Nat, NEW s \in SUBSET (1 .. n), s # {}
    PROVE  Max(s) \in s /\ \A x \in s : x <= Max(s)
BY LargestOfInterval, Zenon DEF Max, Largest

LEMMA MinOfNumbers ==
    ASSUME NEW s \in SUBSET Nat, s # {}
    PROVE  Min(s) \in s /\ \A x \in s : Min(s) <= x
BY SmallestOfNumbers, Zenon DEF Min, Smallest

LEMMA FlattenSeqIsFlatten == \A seqs : FlattenSeq(seqs) = Flatten(seqs)
BY Zenon DEF FlattenSeq, Flatten

LEMMA FlattenSeqType ==
    ASSUME NEW S, NEW seqs \in Seq(Seq(S))
    PROVE  FlattenSeq(seqs) \in Seq(S)
BY FlattenType, FlattenSeqIsFlatten, Zenon

LEMMA FlattenSeqOfNone == FlattenSeq(<<>>) = <<>>
BY FlattenOfNone, FlattenSeqIsFlatten, Zenon

LEMMA FlattenSeqAppend ==
    ASSUME NEW S, NEW seqs \in Seq(Seq(S)), NEW e \in Seq(S)
    PROVE  FlattenSeq(Append(seqs, e)) = FlattenSeq(seqs) \o e
BY FlattenAppend, FlattenSeqIsFlatten, Zenon

LEMMA RangeIsElements == \A s : Range(s) = Elements(s)
BY Zenon DEF Range, Elements

LEMMA ConcatRange ==
    ASSUME NEW S, NEW a \in Seq(S), NEW b \in Seq(S)
    PROVE  Range(a) \subseteq Range(a \o b) /\ Range(b) \subseteq Range(a \o b)
BY ConcatElements, RangeIsElements, Zenon

\* One option leaves arguments that are none yet wrong as they must be (ParseArguments).
LEMMA ParseOptionKeeps ==
    ASSUME NEW a, IsArguments(a), NEW opt, IsOption(opt), opt.name # "unknown"
    PROVE  IsArguments(ParseOption(a, opt))
<1> DEFINE b == ParseOption(a, opt)
<1>1. \/ b = a \/ b = [a EXCEPT !.outcome = "usage"]
      \/ b = [a EXCEPT !.outcome = "crash"] \/ b = [a EXCEPT !.outcome = "categories"]
      \/ opt.number # NotANumber /\ b = [a EXCEPT !.verbosity = opt.number]
      \/ b = [a EXCEPT !.filters = opt.list]
      \/ opt.word \in {"total", "toplevel", "detailed"} /\ b = [a EXCEPT !.counting = opt.word]
      \/ b = [a EXCEPT !.root = opt.word] \/ b = [a EXCEPT !.lineLength = opt.number]
      \/ b = [a EXCEPT !.extensions = opt.names]
  <2>1. CASE a.outcome # "go"
    BY <2>1 DEF ParseOption
  <2>2. CASE a.outcome = "go" /\ opt.name = "help"
    BY <2>2 DEF ParseOption
  <2>3. CASE a.outcome = "go" /\ opt.name = "output"
    BY <2>3 DEF ParseOption
  <2>4. CASE a.outcome = "go" /\ opt.name = "verbose"
    BY <2>4 DEF ParseOption
  <2>5. CASE a.outcome = "go" /\ opt.name = "filter"
    BY <2>5 DEF ParseOption
  <2>6. CASE a.outcome = "go" /\ opt.name = "counting"
    BY <2>6 DEF ParseOption
  <2>7. CASE a.outcome = "go" /\ opt.name = "root"
    BY <2>7 DEF ParseOption
  <2>8. CASE a.outcome = "go" /\ opt.name = "linelength"
    BY <2>8 DEF ParseOption
  <2>9. CASE a.outcome = "go" /\ opt.name = "extensions"
    BY <2>9 DEF ParseOption
  <2> QED
    BY <2>1, <2>2, <2>3, <2>4, <2>5, <2>6, <2>7, <2>8, <2>9 DEF IsOption, OptionNames
<1> SUFFICES IsArguments(b)
  OBVIOUS
<1> HIDE DEF b
<1> USE DEF IsArguments
<1>2. CASE opt.number # NotANumber /\ b = [a EXCEPT !.verbosity = opt.number]
  BY <1>2 DEF IsOption
<1>3. CASE b = [a EXCEPT !.filters = opt.list]
  BY <1>3 DEF IsOption
<1>4. CASE opt.word \in {"total", "toplevel", "detailed"} /\ b = [a EXCEPT !.counting = opt.word]
  BY <1>4
<1>5. CASE b = a
  BY <1>5
<1>6. CASE \E c : b = [a EXCEPT !.outcome = c] \/ b = [a EXCEPT !.root = c]
                  \/ b = [a EXCEPT !.lineLength = c] \/ b = [a EXCEPT !.extensions = c]
  BY <1>6
<1> QED
  BY <1>1, <1>2, <1>3, <1>4, <1>5, <1>6 DEF b

\* What the command line gives: a verbosity, a way of counting and, when the run goes on,
\* files and filters with signs.
LEMMA ArgumentsType ==
    ASSUME NEW family \in Jobs, NEW j \in family
    PROVE  LET a == Arguments(j)
           IN  /\ a.verbosity \in Nat /\ a.counting \in {"", "total", "toplevel", "detailed"}
               /\ a.outcome = "go" => j.files # <<>> /\ ValidFilters(ArgumentFilters(j))
<1> DEFINE known == \A i \in DOMAIN j.options : j.options[i].name # "unknown"
           looped == FoldLeft(ParseOption, DefaultArguments, j.options)
           b == IF known THEN looped ELSE [DefaultArguments EXCEPT !.outcome = "usage"]
<1>1. /\ IsSequence(j.options) /\ \A i \in DOMAIN j.options : IsOption(j.options[i])
  BY JobsAssumption
<1>2. ASSUME known PROVE IsArguments(looped)
  <2>1. IsArguments(DefaultArguments)
    BY ShortSequences DEF IsArguments, DefaultArguments
  <2>2. \A x : \A k \in 1 .. Len(j.options) : IsArguments(x) => IsArguments(ParseOption(x, j.options[k]))
    BY <1>1, <1>2, SequenceFacts, ParseOptionKeeps
  <2>3. Len(j.options) \in Nat /\ DOMAIN j.options = 1 .. Len(j.options)
    BY <1>1, SequenceFacts
  <2>4. IsArguments(Loop(0, 0, DefaultArguments, j.options))
    BY <2>1, <2>2, <2>3, LoopHolds
  <2> QED
    BY <2>4, Zenon DEF Loop, Largest, FoldLeft, MapThenFoldSet, Max
<1>3. IsArguments(b)
  BY <1>2, ShortSequences DEF IsArguments, DefaultArguments
<1>4. Arguments(j) = CASE b.outcome = "go" /\ j.files = <<>> -> [b EXCEPT !.outcome = "usage"]
          [] b.outcome = "go" /\ j.files # <<>> /\ ~ValidFilters(b.filters) ->
                [b EXCEPT !.outcome = "crash"]
          [] OTHER -> b
  BY DEF Arguments
<1> HIDE DEF b
<1>6. CASE Arguments(j) = [b EXCEPT !.outcome = "usage"] \/ Arguments(j) = [b EXCEPT !.outcome = "crash"]
  BY <1>3, <1>6 DEF IsArguments
<1>7. CASE Arguments(j) = b /\ (b.outcome = "go" => j.files # <<>> /\ ValidFilters(b.filters))
  <2>1. ASSUME ValidFilters(b.filters) PROVE ValidFilters(DefaultFilters \o b.filters)
    <3>1. IsSequence(DefaultFilters) /\ DOMAIN DefaultFilters = {1} /\ DefaultFilters[1].sign = "-"
      BY ShortSequences DEF DefaultFilters
    <3>2. IsSequence(b.filters)
      BY <1>3 DEF IsArguments
    <3>3. PICK s, t : s = DefaultFilters /\ t = b.filters
      OBVIOUS
    <3>4. ASSUME NEW i \in DOMAIN (s \o t) PROVE (s \o t)[i].sign \in {"+", "-"}
      <4>1. \/ i \in DOMAIN s /\ (s \o t)[i] = s[i]
            \/ \E k \in DOMAIN t : i = Len(s) + k /\ (s \o t)[i] = t[k]
        BY <3>1, <3>2, <3>3, ConcatPositions
      <4> QED
        BY <2>1, <3>1, <3>3, <4>1 DEF ValidFilters
    <3> QED
      BY <3>3, <3>4 DEF ValidFilters
  <2> QED
    BY <1>3, <1>7, <2>1 DEF IsArguments, ArgumentFilters
<1> QED
  BY <1>4, <1>6, <1>7

-----------------------------------------------------------------------------
(* The text of a line.                                                     *)

\* A part of a sequence is one.
LEMMA SubSeqType ==
    ASSUME NEW s, IsSequence(s), NEW m \in Nat \ {0}, NEW n \in Int, n <= Len(s)
    PROVE  IsSequence(SubSeq(s, m, n))
<1>1. PICK S : S = Range(s) /\ s \in Seq(S)
  BY DEF IsSequence
<1>2. SubSeq(s, m, n) \in Seq(S)
  <2>1. CASE m <= n
    BY <1>1, <2>1
  <2>2. CASE n < m
    BY <1>1, <2>2
  <2> QED
    BY <2>1, <2>2
<1> QED
  BY <1>2, SequenceOver

\* So are its beginning and its end.
LEMMA FromUptoType ==
    ASSUME NEW s, IsSequence(s)
    PROVE  /\ \A i \in Nat \ {0} : IsSequence(From(s, i))
           /\ \A i \in Int : i <= Len(s) => IsSequence(Upto(s, i))
<1>1. Len(s) \in Nat
  BY SequenceFacts
<1> QED
  BY <1>1, SubSeqType DEF From, Upto

\* A place in a text, or none.
LEMMA FindType ==
    ASSUME NEW pattern, NEW text, IsSequence(text)
    PROVE  Find(pattern, text) \in Nat
<1> DEFINE at == {i \in DOMAIN text : IsPrefix(pattern, From(text, i))}
<1>1. at \in SUBSET Nat
  BY SequenceFacts
<1>2. at # {} => Min(at) \in Nat
  <2> HIDE DEF at
  <2> QED
    BY <1>1, MinOfNumbers
<1> HIDE DEF at
<1> QED
  BY <1>2 DEF Find, at

\* Two sequences, one after the other.
LEMMA ConcatType ==
    ASSUME NEW s, NEW t, IsSequence(s), IsSequence(t)
    PROVE  IsSequence(s \o t)
BY SequenceConcat

\* One turn of the loop over a line with raw strings.
IsRawText(s) ==
    /\ {"text", "open"} \subseteq DOMAIN s
    /\ IsSequence(s.text) /\ IsSequence(s.open)

\* A raw string starts at two places of its line (CleanseRawStrings).
LEMMA RawStringStartsType ==
    ASSUME NEW text
    PROVE  RawStringStarts(text) \subseteq (DOMAIN text) \X (DOMAIN text)
<1> DEFINE Matches(p) ==
        /\ p[1] + 2 <= p[2]
        /\ text[p[1]] = "R" /\ text[p[1] + 1] = Quote /\ text[p[2]] = "("
        /\ \A k \in p[1] + 2 .. p[2] - 1 : text[k] \notin {"(", ")"}
<1>1. RawStringStarts(text) = {p \in (DOMAIN text) \X (DOMAIN text) : Matches(p)}
  BY Zenon DEF RawStringStarts
<1> HIDE DEF Matches
<1> QED
  BY <1>1

\* A turn leaves a text and the delimiter that is still open.
LEMMA EmptyRawStringKeeps ==
    ASSUME NEW s, IsRawText(s)
    PROVE  IsRawText(EmptyRawString(s))
<1> DEFINE starts == RawStringStarts(s.text)
           start == CHOOSE p \in starts : \A q \in starts : p[1] <= q[1]
           delimiter == Delimiter(s.text, start)
           body == From(s.text, start[2] + 1)
           end == Find(delimiter, body)
           before == Upto(s.text, start[1] - 1) \o EmptyString
           after == From(body, end + Len(delimiter))
           t == EmptyRawString(s)
           n == Len(s.text)
<1>1. IsSequence(s.text) /\ n \in Nat /\ DOMAIN s.text = 1 .. n
  BY SequenceFacts DEF IsRawText
<1>2. \/ t = s
      \/ starts # {} /\ t = [text |-> before, open |-> delimiter]
      \/ starts # {} /\ end # 0 /\ t = [s EXCEPT !.text = before \o after]
  <2> HIDE DEF start, delimiter, body, end, before, after
  <2>1. t = CASE s.open # <<>> \/ starts = {} -> s
              [] s.open = <<>> /\ starts # {} /\ InLineComment(s.text, start[1]) -> s
              [] OTHER -> IF end = 0 THEN [text |-> before, open |-> delimiter]
                          ELSE [s EXCEPT !.text = before \o after]
    BY DEF EmptyRawString, start, delimiter, body, end, before, after
  <2> HIDE DEF t, starts
  <2> QED
    BY <2>1
<1>3. ASSUME starts # {}
      PROVE  /\ IsSequence(delimiter) /\ IsSequence(before)
             /\ end # 0 => IsSequence(after)
  <2>1. start \in starts
    <3> DEFINE firsts == {p[1] : p \in starts}
    <3>1. starts \subseteq (1 .. n) \X (1 .. n)
      <4>1. starts \subseteq (DOMAIN s.text) \X (DOMAIN s.text)
        BY RawStringStartsType
      <4> HIDE DEF starts
      <4> QED
        BY <1>1, <4>1
    <3>2. firsts \in SUBSET Nat /\ firsts # {}
      BY <1>1, <1>3, <3>1
    <3>3. Min(firsts) \in firsts /\ \A x \in firsts : Min(firsts) <= x
      <4> HIDE DEF firsts
      <4> QED
        BY <3>2, MinOfNumbers
    <3>4. \E p \in starts : \A q \in starts : p[1] <= q[1]
      BY <3>3
    <3> HIDE DEF starts
    <3> QED
      BY <3>4
  <2>2. PICK i, k : i = start[1] /\ k = start[2]
    OBVIOUS
  <2>3. i \in 1 .. n /\ k \in 1 .. n
    <3>1. start \in (DOMAIN s.text) \X (DOMAIN s.text)
      <4>1. starts \subseteq (DOMAIN s.text) \X (DOMAIN s.text)
        BY RawStringStartsType
      <4> HIDE DEF starts, start
      <4> QED
        BY <2>1, <4>1
    <3> HIDE DEF start
    <3> QED
      BY <1>1, <2>2, <3>1
  <2> HIDE DEF start, starts
  <2>4. IsSequence(body)
    BY <1>1, <2>2, <2>3, FromUptoType
  <2>5. IsSequence(delimiter)
    <3>1. IsSequence(SubSeq(s.text, i + 2, k - 1))
      BY <1>1, <2>3, SubSeqType
    <3>2. IsSequence(<<")">>) /\ IsSequence(<<Quote>>)
      BY ShortSequences
    <3>3. IsSequence(<<")">> \o SubSeq(s.text, i + 2, k - 1) \o <<Quote>>)
      BY <3>1, <3>2, ConcatType
    <3> QED
      BY <2>2, <3>3 DEF Delimiter
  <2>6. IsSequence(before)
    <3>1. IsSequence(Upto(s.text, i - 1))
      BY <1>1, <2>3, FromUptoType
    <3>2. IsSequence(EmptyString)
      <4>1. EmptyString \in Seq({Quote})
        BY DEF EmptyString
      <4> QED
        BY <4>1, SequenceOver
    <3> QED
      BY <2>2, <3>1, <3>2, ConcatType
  <2> HIDE DEF delimiter, body, before
  <2>7. end \in Nat /\ Len(delimiter) \in Nat
    BY <2>4, <2>5, FindType, SequenceFacts
  <2>8. end # 0 => IsSequence(after)
    BY <2>4, <2>7, FromUptoType
  <2> QED
    BY <2>5, <2>6, <2>8
<1>4. CASE t = s
  BY <1>4
<1>5. CASE starts # {} /\ t = [text |-> before, open |-> delimiter]
  <2> SUFFICES IsRawText(t)
    OBVIOUS
  <2> HIDE DEF starts, delimiter, end, before, after, t
  <2> QED
    BY <1>3, <1>5 DEF IsRawText
<1>6. CASE starts # {} /\ end # 0 /\ t = [s EXCEPT !.text = before \o after]
  <2> SUFFICES IsRawText(t)
    OBVIOUS
  <2> DEFINE text == before \o after
  <2> HIDE DEF starts, delimiter, end, before, after, t
  <2>1. IsSequence(text)
    BY <1>3, <1>6, ConcatType
  <2>2. t = [s EXCEPT !.text = text]
    BY <1>6
  <2> HIDE DEF text
  <2>3. t.text = text /\ t.open = s.open /\ DOMAIN t = DOMAIN s
    BY <2>2 DEF IsRawText
  <2> QED
    BY <2>1, <2>3 DEF IsRawText
<1> QED
  BY <1>2, <1>4, <1>5, <1>6, Zenon

\* The loop over a line that ends raw strings and starts others.
RawTextTurn(s) == OfValue(LAMBDA v : EmptyRawString(v), s)
RawTextLoop == INSTANCE SequenceLemmas WITH
    Step <- LAMBDA p, q, s, k : RawTextTurn(s),
    Holds <- LAMBDA p, q, s, k : IsRawText(s)

\* So do all turns on one line.
LEMMA IteratedRawTextKeeps ==
    ASSUME NEW start, IsRawText(start), NEW n \in Nat
    PROVE  IsRawText(Iterate(EmptyRawString, start, n))
<1> DEFINE turns == [k \in 1 .. n |-> k]
<1>1. turns \in [1 .. n -> Nat]
  OBVIOUS
<1>2. Len(turns) \in Nat /\ DOMAIN turns = 1 .. Len(turns)
  BY <1>1, SequenceFromFunction, SequenceFacts
<1>3. ASSUME NEW s, IsRawText(s) PROVE IsRawText(RawTextTurn(s))
  <2>1. RawTextTurn(s) = EmptyRawString(s)
    BY DEF RawTextTurn, OfValue
  <2> QED
    BY <1>3, <2>1, EmptyRawStringKeeps
<1>4. Iterate(EmptyRawString, start, n) = RawTextLoop!Loop(0, 0, start, turns)
  <2>1. Iterate(EmptyRawString, start, n) = ForEach(LAMBDA x, k : EmptyRawString(x), start, turns)
    BY DEF Iterate
  <2>2. ForEach(LAMBDA x, k : EmptyRawString(x), start, turns)
          = RawTextLoop!Loop(0, 0, start, turns)
    <3> HIDE DEF turns
    <3> QED
      BY ZenonT(60) DEF ForEach, OfValue, RawTextTurn, RawTextLoop!Loop,
                        RawTextLoop!Largest, FoldLeft, MapThenFoldSet, Max
  <2> QED
    BY <2>1, <2>2, Zenon
<1> HIDE DEF turns
<1>5. IsRawText(RawTextLoop!Loop(0, 0, start, turns))
  BY <1>2, <1>3, RawTextLoop!LoopHolds
<1> QED
  BY <1>4, <1>5

\* Lines, and one more.
LEMMA LinesAppend ==
    ASSUME NEW lines, AreLines(lines), NEW line, IsSequence(line.text)
    PROVE  AreLines(Append(lines, line)) /\ Len(Append(lines, line)) = Len(lines) + 1
<1>1. PICK t : t = Append(lines, line)
  OBVIOUS
<1>2. /\ IsSequence(t) /\ DOMAIN t = 1 .. Len(lines) + 1 /\ t[Len(lines) + 1] = line
      /\ \A i \in 1 .. Len(lines) : t[i] = lines[i]
      /\ Len(lines) \in Nat /\ DOMAIN lines = 1 .. Len(lines) /\ Len(t) = Len(lines) + 1
  BY <1>1, SequenceAppend, SequenceFacts DEF AreLines
<1>3. \A i \in DOMAIN t : IsSequence(t[i].text)
  BY <1>2 DEF AreLines
<1> QED
  BY <1>1, <1>2, <1>3 DEF AreLines

\* The loop over the lines: one line for every line.
IsRawState(s, k) ==
    /\ {"open", "lines"} \subseteq DOMAIN s
    /\ IsSequence(s.open) /\ AreLines(s.lines) /\ Len(s.lines) = k
RawTurn(s, line) == OfValue(LAMBDA v : CleanseRawLine(v, line), s)
RawLoop == INSTANCE SequenceLemmas WITH
    Step <- LAMBDA p, q, s, line : RawTurn(s, line),
    Holds <- LAMBDA p, q, s, k : IsRawState(s, k)

\* A line gives one line.
LEMMA CleanseRawLineKeeps ==
    ASSUME NEW k \in Nat \ {0}, NEW s, IsRawState(s, k - 1), NEW line, IsSequence(line.text)
    PROVE  IsRawState(CleanseRawLine(s, line), k)
<1> DEFINE end == Find(s.open, line.text)
           after == From(line.text, end + Len(s.open))
           resumed ==
            CASE s.open = <<>> -> [text |-> line.text, open |-> <<>>]
              [] s.open # <<>> /\ end = 0 -> [text |-> EmptyString, open |-> s.open]
              [] OTHER -> [text |-> EmptyString \o after, open |-> <<>>]
           done == Iterate(EmptyRawString, resumed, Len(line.text))
           indent == IF resumed.open # <<>> THEN 0 ELSE line.indent
<1>1. IsSequence(s.open) /\ IsSequence(<<>>) /\ IsSequence(EmptyString)
  <2>1. EmptyString \in Seq({Quote})
    BY DEF EmptyString
  <2> QED
    BY <2>1, SequenceOver, ShortSequences DEF IsRawState
<1>2. IsRawText(resumed)
  <2>1. end \in Nat /\ Len(s.open) \in Nat
    BY <1>1, FindType, SequenceFacts
  <2> HIDE DEF end
  <2>2. end # 0 => IsSequence(EmptyString \o after)
    BY <1>1, <2>1, FromUptoType, ConcatType
  <2> HIDE DEF after
  <2> QED
    BY <1>1, <2>2 DEF IsRawText
<1> HIDE DEF resumed
<1>3. IsRawText(done)
  BY <1>2, IteratedRawTextKeeps, SequenceFacts
<1> HIDE DEF done
<1>4. CleanseRawLine(s, line)
        = [open |-> done.open, lines |-> Append(s.lines, Line(indent, done.text))]
  BY DEF CleanseRawLine, done, resumed, indent, after, end
<1> HIDE DEF indent
<1>5. /\ AreLines(Append(s.lines, Line(indent, done.text)))
      /\ Len(Append(s.lines, Line(indent, done.text))) = k
  <2>1. IsSequence(Line(indent, done.text).text)
    BY <1>3 DEF IsRawText, Line
  <2> QED
    BY <2>1, LinesAppend DEF IsRawState
<1> QED
  BY <1>3, <1>4, <1>5 DEF IsRawState, IsRawText

\* As many lines are left when the raw strings are emptied.
LEMMA CleanseRawStringsType ==
    ASSUME NEW lines, AreLines(lines)
    PROVE  AreLines(CleanseRawStrings(lines)) /\ Len(CleanseRawStrings(lines)) = Len(lines)
<1> DEFINE start == [open |-> <<>>, lines |-> <<>>]
<1>1. Len(lines) \in Nat /\ DOMAIN lines = 1 .. Len(lines)
  BY SequenceFacts DEF AreLines
<1>2. IsRawState(start, 0)
  BY ShortSequences DEF IsRawState, AreLines
<1>3. ASSUME NEW s, NEW k \in 1 .. Len(lines), IsRawState(s, k - 1)
      PROVE  IsRawState(RawTurn(s, lines[k]), k)
  <2>1. RawTurn(s, lines[k]) = CleanseRawLine(s, lines[k])
    BY DEF RawTurn, OfValue
  <2>2. k \in Nat \ {0} /\ IsSequence(lines[k].text)
    BY <1>1 DEF AreLines
  <2> QED
    BY <1>3, <2>1, <2>2, CleanseRawLineKeeps
<1> HIDE DEF start
<1>4. IsRawState(RawLoop!Loop(0, 0, start, lines), Len(lines))
  BY <1>1, <1>2, <1>3, RawLoop!LoopHolds
<1>5. ForEach(CleanseRawLine, start, lines) = RawLoop!Loop(0, 0, start, lines)
  BY ZenonT(60) DEF ForEach, OfValue, RawTurn, RawLoop!Loop,
                    RawLoop!Largest, FoldLeft, MapThenFoldSet, Max
<1>6. CleanseRawStrings(lines) = RawLoop!Loop(0, 0, start, lines).lines
  BY <1>5 DEF CleanseRawStrings, start
<1> QED
  BY <1>4, <1>6 DEF IsRawState
\* The loop that replaces comments over several lines: the lines stay as many, and
\* the marker the first one.
CommentTurn(s) == OfValue(LAMBDA v : RemoveComment(v), s)
LinesKept(n, first, s) ==
    /\ {"lines", "at", "unclosed"} \subseteq DOMAIN s
    /\ s.at \in Nat \ {0}
    /\ AreLines(s.lines) /\ Len(s.lines) = n
    /\ n > 0 => s.lines[1] = first
    /\ IsSequence(s.unclosed)
CommentLoop == INSTANCE SequenceLemmas WITH
    Step <- LAMBDA n, first, s, k : CommentTurn(s),
    Holds <- LAMBDA n, first, s, k : LinesKept(n, first, s)

\* Replacing one comment keeps all lines (RemoveMultiLineComments): the marker holds no
\* comment and so stays the first.
LEMMA RemoveCommentKeeps ==
    ASSUME NEW n, NEW s, LinesKept(n, Marker, s)
    PROVE  LinesKept(n, Marker, RemoveComment(s))
<1> DEFINE starts == CommentStarts(s.lines, s.at)
           begin == Min(starts)
           ends == CommentEnds(s.lines, begin)
           end == Min(ends)
           replaced == [i \in DOMAIN s.lines |->
                          IF i \in begin .. end THEN CommentDummy ELSE s.lines[i]]
           t == RemoveComment(s)
<1>1. /\ n \in Nat /\ AreLines(s.lines) /\ Len(s.lines) = n /\ DOMAIN s.lines = 1 .. n
      /\ s.at \in Nat \ {0} /\ IsSequence(s.unclosed)
      /\ {"lines", "at", "unclosed"} \subseteq DOMAIN s
  BY SequenceFacts DEF LinesKept, AreLines
<1>2. \/ starts = {} /\ t = [s EXCEPT !.at = Len(s.lines) + 1]
      \/ /\ starts # {} /\ ends = {}
         /\ t = [s EXCEPT !.at = Len(s.lines) + 1, !.unclosed = <<begin>>]
      \/ /\ starts # {} /\ ends # {}
         /\ t = [s EXCEPT !.at = end + 1, !.lines = replaced]
  BY DEF RemoveComment
<1>3. starts \subseteq 1 .. n /\ \A i \in starts : s.lines[i] # Marker
  <2>1. \A i \in starts : i \in s.at .. n /\ s.lines[i].text[1] = "/*"
    BY <1>1 DEF CommentStarts
  <2> QED
    BY <1>1, <2>1 DEF Marker, Line
<1>4. starts # {} => begin \in 1 .. n /\ (begin = 1 => s.lines[1] # Marker)
  <2>1. starts # {} => begin \in starts
    BY <1>3, MinOfNumbers
  <2> QED
    BY <1>3, <2>1
<1>5. starts # {} /\ ends # {} => end \in 1 .. n
  <2>1. starts # {} => ends \in SUBSET (1 .. n)
    BY <1>1, <1>4 DEF CommentEnds
  <2>2. starts # {} /\ ends # {} => end \in ends
    BY <2>1, MinOfNumbers
  <2> QED
    BY <2>1, <2>2
<1> HIDE DEF starts, begin, ends, end, t
<1>6. CASE starts = {} /\ t = [s EXCEPT !.at = Len(s.lines) + 1]
  BY <1>1, <1>6 DEF LinesKept, t
<1>7. CASE t = [s EXCEPT !.at = Len(s.lines) + 1, !.unclosed = <<begin>>]
  <2>1. IsSequence(<<begin>>)
    BY ShortSequences
  <2> QED
    BY <1>1, <1>7, <2>1 DEF LinesKept, t
<1>8. CASE /\ starts # {} /\ ends # {}
           /\ t = [s EXCEPT !.at = end + 1, !.lines = replaced]
  <2>1. replaced \in [1 .. n -> Range(s.lines) \cup {CommentDummy}]
    BY <1>1 DEF Range
  <2>2. IsSequence(replaced) /\ Len(replaced) = n
    BY <1>1, <2>1, SequenceFromFunction
  <2>3. n > 0 => replaced[1] = Marker
    BY <1>1, <1>4, <1>5, <1>8 DEF LinesKept
  <2>4. IsSequence(CommentDummy.text)
    <3>1. <<"/*", "*/">> \in Seq({"/*", "*/"})
      OBVIOUS
    <3> QED
      BY <3>1, SequenceOver DEF CommentDummy, Line
  <2>5. \A i \in DOMAIN replaced : IsSequence(replaced[i].text)
    BY <1>1, <2>4 DEF AreLines
  <2> HIDE DEF replaced
  <2>6. AreLines(replaced)
    BY <2>2, <2>5 DEF AreLines
  <2> QED
    BY <1>1, <1>5, <1>8, <2>2, <2>3, <2>6 DEF LinesKept, t
<1> QED
  BY <1>2, <1>6, <1>7, <1>8

\* So does replacing all of them.
LEMMA RemoveMultiLineCommentsType ==
    ASSUME NEW lines, AreLines(lines), lines # <<>>, lines[1] = Marker
    PROVE  LET removed == RemoveMultiLineComments(lines)
           IN  /\ AreLines(removed.lines) /\ Len(removed.lines) = Len(lines)
               /\ removed.lines[1] = Marker /\ IsSequence(removed.unclosed)
<1> DEFINE start == [lines |-> lines, at |-> 1, unclosed |-> <<>>]
           n == Len(lines)
           turns == [k \in 1 .. n |-> k]
<1>1. n \in Nat /\ n > 0 /\ turns \in [1 .. n -> Nat]
  BY SequenceTail DEF AreLines
<1>2. Len(turns) \in Nat /\ DOMAIN turns = 1 .. Len(turns)
  BY <1>1, SequenceFromFunction, SequenceFacts
<1>3. LinesKept(n, Marker, start)
  BY <1>1, ShortSequences DEF LinesKept
<1>4. ASSUME NEW s, LinesKept(n, Marker, s) PROVE LinesKept(n, Marker, CommentTurn(s))
  <2>1. CommentTurn(s) = RemoveComment(s)
    BY DEF CommentTurn, OfValue
  <2> QED
    BY <1>4, <2>1, RemoveCommentKeeps
<1>5. RemoveMultiLineComments(lines) = CommentLoop!Loop(n, Marker, start, turns)
  <2>1. RemoveMultiLineComments(lines) = ForEach(LAMBDA x, k : RemoveComment(x), start, turns)
    BY DEF RemoveMultiLineComments, Iterate
  <2>2. ForEach(LAMBDA x, k : RemoveComment(x), start, turns)
          = CommentLoop!Loop(n, Marker, start, turns)
    <3> HIDE DEF start, n, turns
    <3> QED
      BY ZenonT(60) DEF ForEach, OfValue, CommentTurn, CommentLoop!Loop,
                        CommentLoop!Largest, FoldLeft, MapThenFoldSet, Max
  <2> QED
    BY <2>1, <2>2, Zenon
<1> HIDE DEF start, n, turns
<1>6. LinesKept(n, Marker, CommentLoop!Loop(n, Marker, start, turns))
  BY <1>2, <1>3, <1>4, CommentLoop!LoopHolds
<1> QED
  BY <1>1, <1>5, <1>6 DEF LinesKept, n

\* A set of pairs of positions has a first and a last one.
LEMMA FirstPair ==
    ASSUME NEW n \in Nat, NEW pairs \in SUBSET ((1 .. n) \X (1 .. n)), pairs # {}
    PROVE  \E p \in pairs : \A q \in pairs : p[1] < q[1] \/ (p[1] = q[1] /\ p[2] <= q[2])
<1> DEFINE lefts == {p[1] : p \in pairs}
           left == Min(lefts)
           rights == {p[2] : p \in {q \in pairs : q[1] = left}}
           right == Min(rights)
<1>1. \A p \in pairs : p[1] \in 1 .. n /\ p[2] \in 1 .. n /\ p = <<p[1], p[2]>>
  OBVIOUS
<1>2. left \in lefts /\ \A x \in lefts : left <= x
  <2>1. lefts \in SUBSET Nat /\ lefts # {}
    BY <1>1
  <2> HIDE DEF lefts
  <2> QED
    BY <2>1, MinOfNumbers
<1>3. right \in rights /\ \A x \in rights : right <= x
  <2>1. rights \in SUBSET Nat /\ rights # {}
    <3> HIDE DEF left
    <3> QED
      BY <1>1, <1>2
  <2> HIDE DEF rights
  <2> QED
    BY <2>1, MinOfNumbers
<1> HIDE DEF left, right
<1>4. PICK p \in pairs : p[1] = left /\ p[2] = right
  BY <1>3
<1>5. ASSUME NEW q \in pairs PROVE p[1] < q[1] \/ (p[1] = q[1] /\ p[2] <= q[2])
  <2>1. left <= q[1] /\ (q[1] = left => right <= q[2])
    BY <1>2, <1>3
  <2>2. p[1] \in Nat /\ q[1] \in Nat
    BY <1>1
  <2> QED
    BY <1>4, <2>1, <2>2
<1> QED
  BY <1>5

\* See FirstPair.
LEMMA LastPair ==
    ASSUME NEW n \in Nat, NEW pairs \in SUBSET ((1 .. n) \X (1 .. n)), pairs # {}
    PROVE  \E p \in pairs : \A q \in pairs : p[1] > q[1] \/ (p[1] = q[1] /\ p[2] >= q[2])
<1> DEFINE lefts == {p[1] : p \in pairs}
           left == Max(lefts)
           rights == {p[2] : p \in {q \in pairs : q[1] = left}}
           right == Max(rights)
<1>1. \A p \in pairs : p[1] \in 1 .. n /\ p[2] \in 1 .. n /\ p = <<p[1], p[2]>>
  OBVIOUS
<1>2. left \in lefts /\ \A x \in lefts : x <= left
  <2>1. lefts \in SUBSET (1 .. n) /\ lefts # {}
    BY <1>1
  <2> HIDE DEF lefts
  <2> QED
    BY <2>1, MaxOfInterval
<1>3. right \in rights /\ \A x \in rights : x <= right
  <2>1. rights \in SUBSET (1 .. n) /\ rights # {}
    <3> HIDE DEF left
    <3> QED
      BY <1>1, <1>2
  <2> HIDE DEF rights
  <2> QED
    BY <2>1, MaxOfInterval
<1> HIDE DEF left, right
<1>4. PICK p \in pairs : p[1] = left /\ p[2] = right
  BY <1>3
<1>5. ASSUME NEW q \in pairs PROVE p[1] > q[1] \/ (p[1] = q[1] /\ p[2] >= q[2])
  <2>1. q[1] <= left /\ (q[1] = left => q[2] <= right)
    BY <1>2, <1>3
  <2>2. p[1] \in Nat /\ q[1] \in Nat
    BY <1>1
  <2> QED
    BY <1>4, <2>1, <2>2
<1> QED
  BY <1>5

\* The loop that cuts comments out of a line.
CutTurn(text) == OfValue(LAMBDA v : CutComment(v), text)
CutLoop == INSTANCE SequenceLemmas WITH
    Step <- LAMBDA p, q, text, k : CutTurn(text),
    Holds <- LAMBDA p, q, text, k : IsSequence(text)

\* A text without one of its comments is a text.
LEMMA CutCommentKeeps ==
    ASSUME NEW text, IsSequence(text)
    PROVE  IsSequence(CutComment(text))
<1> DEFINE Comment(p) == p[1] < p[2] /\ text[p[1]] = "/*" /\ text[p[2]] = "*/"
           pairs == {p \in (DOMAIN text) \X (DOMAIN text) : Comment(p)}
           IsFirst(p) == \A q \in pairs : p[1] < q[1] \/ (p[1] = q[1] /\ p[2] <= q[2])
           first == CHOOSE p \in pairs : IsFirst(p)
           n == Len(text)
<1>1. n \in Nat /\ DOMAIN text = 1 .. n
  BY SequenceFacts
<1>2. CutComment(text)
        = IF pairs = {} THEN text ELSE Upto(text, first[1] - 1) \o From(text, first[2] + 1)
  BY Zenon DEF CutComment
<1>3. pairs \in SUBSET ((1 .. n) \X (1 .. n))
  <2> HIDE DEF Comment
  <2> QED
    BY <1>1
<1> HIDE DEF pairs
<1>4. pairs # {} => first \in pairs
  <2>1. pairs # {} => \E p \in pairs : IsFirst(p)
    BY <1>1, <1>3, FirstPair
  <2> HIDE DEF IsFirst
  <2> QED
    BY <2>1
<1>5. PICK i, k : i = first[1] /\ k = first[2]
  OBVIOUS
<1>6. pairs # {} => i \in 1 .. n /\ k \in 1 .. n
  <2> HIDE DEF first
  <2> QED
    BY <1>3, <1>4, <1>5
<1>7. pairs # {} => IsSequence(Upto(text, i - 1) \o From(text, k + 1))
  BY <1>1, <1>6, FromUptoType, ConcatType
<1> HIDE DEF first
<1> QED
  BY <1>2, <1>5, <1>7

\* So is a text without any (CleanseComments).
LEMMA CleanseCommentsType ==
    ASSUME NEW text, IsSequence(text)
    PROVE  IsSequence(CleanseComments(text))
<1> DEFINE at == SelectInSeq(text, LAMBDA t : t = "//")
           code == IF at # 0 /\ ~IsCppString(Upto(text, at - 1))
                   THEN Upto(text, at - 1) ELSE text
           n == Len(code)
           turns == [k \in 1 .. n |-> k]
<1>1. at \in 0 .. Len(text) /\ Len(text) \in Nat
  <2> DEFINE found == {i \in 1 .. Len(text) : text[i] = "//"}
  <2>1. at = IF found # {} THEN Min(found) ELSE 0
    BY Zenon DEF SelectInSeq
  <2>2. found \in SUBSET Nat /\ found \subseteq 1 .. Len(text) /\ Len(text) \in Nat
    BY SequenceFacts
  <2> HIDE DEF at, found
  <2>3. found # {} => Min(found) \in found
    BY <2>2, MinOfNumbers
  <2>4. CASE found = {}
    BY <2>1, <2>2, <2>4
  <2>5. CASE found # {}
    <3>1. at \in 1 .. Len(text)
      BY <2>1, <2>2, <2>3, <2>5
    <3> QED
      BY <2>2, <3>1
  <2> QED
    BY <2>4, <2>5
<1> HIDE DEF at
<1>2. IsSequence(code)
  BY <1>1, FromUptoType
<1>3. CleanseComments(text) = Iterate(CutComment, code, n)
  BY DEF CleanseComments, at
<1> HIDE DEF code
<1>4. turns \in [1 .. n -> Nat] /\ n \in Nat
  BY <1>2, SequenceFacts
<1>5. Len(turns) \in Nat /\ DOMAIN turns = 1 .. Len(turns)
  BY <1>4, SequenceFromFunction, SequenceFacts
<1>6. ASSUME NEW t, IsSequence(t) PROVE IsSequence(CutTurn(t))
  <2>1. CutTurn(t) = CutComment(t)
    BY DEF CutTurn, OfValue
  <2> QED
    BY <1>6, <2>1, CutCommentKeeps
<1>7. Iterate(CutComment, code, n) = CutLoop!Loop(0, 0, code, turns)
  <2>1. Iterate(CutComment, code, n) = ForEach(LAMBDA x, k : CutComment(x), code, turns)
    BY DEF Iterate
  <2>2. ForEach(LAMBDA x, k : CutComment(x), code, turns) = CutLoop!Loop(0, 0, code, turns)
    <3> HIDE DEF turns, n
    <3> QED
      BY ZenonT(60) DEF ForEach, OfValue, CutTurn, CutLoop!Loop,
                        CutLoop!Largest, FoldLeft, MapThenFoldSet, Max
  <2> QED
    BY <2>1, <2>2, Zenon
<1> HIDE DEF turns, n
<1>8. IsSequence(CutLoop!Loop(0, 0, code, turns))
  BY <1>2, <1>5, <1>6, CutLoop!LoopHolds
<1> QED
  BY <1>3, <1>7, <1>8

\* Short sequences, one after the other, are a sequence.
LEMMA FlattenSeqKeeps ==
    ASSUME NEW n \in Nat, NEW seqs, DOMAIN seqs = 1 .. n, NEW S, seqs \in [1 .. n -> Seq(S)]
    PROVE  FlattenSeq(seqs) \in Seq(S) /\ IsSequence(FlattenSeq(seqs))
<1>1. seqs \in Seq(Seq(S))
  OBVIOUS
<1> QED
  BY <1>1, FlattenSeqType, SequenceOver

\* So is one without what stands in its strings (CollapseStrings).
LEMMA CollapseStringsType ==
    ASSUME NEW text, IsSequence(text)
    PROVE  IsSequence(CollapseStrings(text))
<1> DEFINE unmatched == IF IsCppString(text)
                        THEN SelectLastInSeq(text, LAMBDA t : t = Quote)
                        ELSE Len(text) + 1
           kept == {i \in DOMAIN text :
                       \/ text[i] = Quote
                       \/ i > unmatched
                       \/ ~IsCppString(Upto(text, i))}
           parts == [i \in DOMAIN text |-> IF i \in kept THEN <<text[i]>> ELSE <<>>]
<1>1. CollapseStrings(text)
        = IF text # <<>> /\ text[1] = "#include" THEN text ELSE FlattenSeq(parts)
  BY Zenon DEF CollapseStrings
<1> HIDE DEF kept
<1>2. Len(text) \in Nat /\ DOMAIN text = 1 .. Len(text)
  BY SequenceFacts
<1>3. ASSUME NEW i \in DOMAIN text PROVE <<text[i]>> \in Seq(Range(text)) /\ <<>> \in Seq(Range(text))
  BY DEF Range
<1>4. parts \in [1 .. Len(text) -> Seq(Range(text))]
  BY <1>2, <1>3
<1> HIDE DEF parts
<1>5. IsSequence(FlattenSeq(parts))
  BY <1>2, <1>4, FlattenSeqKeeps
<1> QED
  BY <1>1, <1>5

\* The four copies of the lines of a file (CleansedLines).
LEMMA CleansedLinesType ==
    ASSUME NEW lines, AreLines(lines)
    PROVE  IsClean(CleansedLines(lines)) /\ CleansedLines(lines).raw_lines = lines
<1> DEFINE noRaw == CleanseRawStrings(lines)
           n == Len(lines)
           cleansed == [i \in DOMAIN noRaw |-> CleanseLine(noRaw[i])]
           elided == [i \in DOMAIN noRaw |-> ElideLine(noRaw[i])]
<1>1. AreLines(noRaw) /\ Len(noRaw) = n /\ n \in Nat /\ DOMAIN noRaw = 1 .. n
  BY CleanseRawStringsType, SequenceFacts DEF AreLines
<1> HIDE DEF noRaw, n
<1>2. ASSUME NEW i \in 1 .. n
      PROVE  IsSequence(CleanseLine(noRaw[i]).text) /\ IsSequence(ElideLine(noRaw[i]).text)
  <2>1. IsSequence(noRaw[i].text)
    BY <1>1 DEF AreLines
  <2> QED
    BY <2>1, CleanseCommentsType, CollapseStringsType DEF CleanseLine, ElideLine, Line
<1>3. ASSUME NEW f, DOMAIN f = 1 .. n, \A i \in 1 .. n : IsSequence(f[i].text), f = [i \in 1 .. n |-> f[i]]
      PROVE  AreLines(f) /\ Len(f) = n
  <2>1. f \in [1 .. n -> Range(f)]
    BY <1>3 DEF Range
  <2> QED
    BY <1>1, <1>3, <2>1, SequenceFromFunction DEF AreLines
<1>4. AreLines(cleansed) /\ Len(cleansed) = n /\ AreLines(elided) /\ Len(elided) = n
  <2>1. DOMAIN cleansed = 1 .. n /\ \A i \in 1 .. n : cleansed[i] = CleanseLine(noRaw[i])
    BY <1>1
  <2>2. DOMAIN elided = 1 .. n /\ \A i \in 1 .. n : elided[i] = ElideLine(noRaw[i])
    BY <1>1
  <2>3. cleansed = [i \in 1 .. n |-> cleansed[i]] /\ elided = [i \in 1 .. n |-> elided[i]]
    BY <1>1
  <2> HIDE DEF cleansed, elided
  <2> QED
    BY <1>2, <1>3, <2>1, <2>2, <2>3
<1>5. CleansedLines(lines)
        = [raw_lines |-> lines, lines_without_raw_strings |-> noRaw,
           lines |-> cleansed, elided |-> elided]
  BY DEF CleansedLines, noRaw
<1> HIDE DEF cleansed, elided
<1> QED
  BY <1>1, <1>4, <1>5 DEF IsClean, n
-----------------------------------------------------------------------------
(* Events.                                                                 *)

FnSize == <<"readability", "fn_size">>
PlainCategories == ErrorCategories \ {FnSize}

\* The categories of the checks that have nothing to do with the length of a function.
LEMMA PlainCategory ==
    /\ IncludeAlpha \in PlainCategories
    /\ <<"build", "class">> \in PlainCategories
    /\ <<"build", "header_guard">> \in PlainCategories
    /\ <<"build", "include">> \in PlainCategories
    /\ <<"build", "include", "_order">> \in PlainCategories
    /\ <<"build", "namespaces">> \in PlainCategories
    /\ <<"legal", "copyright">> \in PlainCategories
    /\ <<"readability", "braces">> \in PlainCategories
    /\ <<"readability", "constructors">> \in PlainCategories
    /\ <<"readability", "multiline_comment">> \in PlainCategories
    /\ <<"readability", "multiline_string">> \in PlainCategories
    /\ <<"readability", "namespace">> \in PlainCategories
    /\ <<"readability", "nolint">> \in PlainCategories
    /\ <<"runtime", "indentation_namespace">> \in PlainCategories
    /\ <<"whitespace", "blank_line">> \in PlainCategories
    /\ <<"whitespace", "empty_conditional_body">> \in PlainCategories
    /\ <<"whitespace", "empty_if_body">> \in PlainCategories
    /\ <<"whitespace", "empty_loop_body">> \in PlainCategories
    /\ <<"whitespace", "ending_newline">> \in PlainCategories
    /\ <<"whitespace", "indent">> \in PlainCategories
    /\ <<"whitespace", "line_length">> \in PlainCategories
    /\ <<"whitespace", "newline">> \in PlainCategories
    /\ <<"whitespace", "tab">> \in PlainCategories
<1>1. \A x : x # "fn_size" => \A w : <<w, x>> # FnSize
  BY DEF FnSize
<1>2. \A w, x, y : <<w, x, y>> # FnSize
  BY DEF FnSize
<1> QED
  BY <1>1, <1>2 DEF PlainCategories, ErrorCategories, IncludeAlpha, UnknownNolint

\* An error a check finds, which has at least the confidence v when it is about the
\* length of a function.
IsError(e, v) ==
    /\ e.kind = "error" /\ e.category \in ErrorCategories
    /\ e.category = FnSize /\ v <= 5 => e.confidence >= v

\* The marks that may silence the error at position i of s are read before it in s.
IsBefore(e, s, i) == \E j \in 1 .. i - 1 : s[j] = e
MarksAreBefore(s, i, c) ==
    \A m \in {s[i].line - 1, s[i].line} : \A k \in DOMAIN NolintEvents(c.raw_lines, m) :
        IsBefore(NolintEvents(c.raw_lines, m)[k], s, i)

OwnMarkIsBefore(s, i, c) ==
    \A k \in DOMAIN NolintEvents(c.lines_without_raw_strings, s[i].line) :
        IsBefore(NolintEvents(c.lines_without_raw_strings, s[i].line)[k], s, i)

\* What the checks give when the marks of the lines up to ln are known: an error stands
\* there, or reads the marks of its line itself, or is one of those that are found early.
IsLineEvent(s, i, c, ln, v) ==
    \/ IsMark(s[i], c)
    \/ /\ IsError(s[i], v)
       /\ \/ s[i].category \in FoundEarly
          \/ s[i].line \in Int /\ s[i].line <= ln
          \/ MarksAreBefore(s, i, c)
          \/ s[i].category \in FoundBeforeTheLines /\ OwnMarkIsBefore(s, i, c)
LineEvents(s, c, ln, v) ==
    IsSequence(s) /\ \A i \in DOMAIN s : IsLineEvent(s, i, c, ln, v)

\* One line has one mark at most.
LEMMA NolintEventsType ==
    ASSUME NEW lines, NEW ln
    PROVE  \/ NolintEvents(lines, ln) = <<>>
           \/ /\ ln \in DOMAIN lines
              /\ \E e : NolintEvents(lines, ln) = <<e>> /\ e.kind = "nolint" /\ e.line = ln
<1>1. CASE ln \in DOMAIN lines
  <2> DEFINE text == TextAt(lines, ln)
             at == SelectInSeq(text, LAMBDA t : t \in DOMAIN Nolints)
             e == [kind |-> "nolint", line |-> ln, mark |-> text[at]]
  <2>1. NolintEvents(lines, ln) = IF at = 0 THEN <<>> ELSE <<e>>
    BY DEF NolintEvents
  <2>2. e.kind = "nolint" /\ e.line = ln
    OBVIOUS
  <2> HIDE DEF at, e
  <2> QED
    BY <1>1, <2>1, <2>2
<1>2. CASE ln \notin DOMAIN lines
  <2>1. TextAt(lines, ln) = <<>>
    BY <1>2 DEF TextAt
  <2>2. SelectInSeq(TextAt(lines, ln), LAMBDA t : t \in DOMAIN Nolints) = 0
    BY <2>1 DEF SelectInSeq
  <2> QED
    BY <2>2 DEF NolintEvents
<1> QED
  BY <1>1, <1>2

\* The events of a NOLINT mark are those of any line.
LEMMA MarkEvents ==
    ASSUME NEW c, NEW lines, lines = c.raw_lines \/ lines = c.lines_without_raw_strings,
           NEW m, NEW ln, NEW v
    PROVE  LineEvents(NolintEvents(lines, m), c, ln, v)
<1>1. CASE NolintEvents(lines, m) = <<>>
  BY <1>1, ShortSequences DEF LineEvents
<1>2. ASSUME NEW e, NolintEvents(lines, m) = <<e>>, e.kind = "nolint", e.line = m
      PROVE  LineEvents(NolintEvents(lines, m), c, ln, v)
  <2>1. IsMark(e, c)
    BY <1>2 DEF IsMark
  <2> QED
    BY <1>2, <2>1, ShortSequences DEF LineEvents, IsLineEvent
<1> QED
  BY <1>1, <1>2, NolintEventsType

\* The shapes a check can give: nothing, an error, one on a condition, two after each other.
LEMMA NoEvents ==
    ASSUME NEW c, NEW ln, NEW v
    PROVE  LineEvents(<<>>, c, ln, v)
BY ShortSequences DEF LineEvents

\* An error on a line up to ln, or one of those found early.
LEMMA OneError ==
    ASSUME NEW c, NEW ln, NEW v, NEW e, IsError(e, v),
           e.category \in FoundEarly \/ (e.line \in Int /\ e.line <= ln)
    PROVE  LineEvents(<<e>>, c, ln, v)
BY ShortSequences DEF LineEvents, IsLineEvent

\* See OneError; not about the length of a function.
LEMMA ErrEvent ==
    ASSUME NEW c, NEW ln, NEW v, NEW line, NEW category \in PlainCategories, NEW confidence,
           category \in FoundEarly \/ (line \in Int /\ line <= ln)
    PROVE  LineEvents(<<Err(line, category, confidence)>>, c, ln, v)
<1>1. IsError(Err(line, category, confidence), v)
  BY DEF IsError, Err, PlainCategories
<1>2. Err(line, category, confidence).line = line /\ Err(line, category, confidence).category = category
  BY DEF Err
<1> QED
  BY <1>1, <1>2, OneError

\* The same on a condition.
LEMMA WhenErr ==
    ASSUME NEW c, NEW ln, NEW v, NEW line, NEW category \in PlainCategories, NEW confidence,
           category \in FoundEarly \/ (line \in Int /\ line <= ln), NEW condition
    PROVE  LineEvents(When(condition, Err(line, category, confidence)), c, ln, v)
BY ErrEvent, NoEvents DEF When

\* Two checks, one after the other: the marks before an error stay before it.
LEMMA ConcatEvents ==
    ASSUME NEW c, NEW ln, NEW v, NEW s, NEW t,
           LineEvents(s, c, ln, v), LineEvents(t, c, ln, v)
    PROVE  LineEvents(s \o t, c, ln, v)
<1>1. PICK u, m, n : u = s \o t /\ m = Len(s) /\ n = Len(t)
  OBVIOUS
<1>2. /\ m \in Nat /\ n \in Nat /\ IsSequence(u) /\ DOMAIN s = 1 .. m /\ DOMAIN t = 1 .. n
      /\ \A k \in 1 .. m : u[k] = s[k]
      /\ \A k \in 1 .. n : u[m + k] = t[k]
  BY <1>1, SequenceFacts, SequenceConcat DEF LineEvents
<1>3. ASSUME NEW i \in 1 .. m PROVE IsLineEvent(u, i, c, ln, v)
  <2>1. IsLineEvent(s, i, c, ln, v) /\ u[i] = s[i]
    BY <1>2 DEF LineEvents
  <2>2. \A e : IsBefore(e, s, i) => IsBefore(e, u, i)
    BY <1>2 DEF IsBefore
  <2>3. MarksAreBefore(s, i, c) => MarksAreBefore(u, i, c)
    BY <2>1, <2>2 DEF MarksAreBefore
  <2>4. OwnMarkIsBefore(s, i, c) => OwnMarkIsBefore(u, i, c)
    BY <2>1, <2>2 DEF OwnMarkIsBefore
  <2> QED
    BY <2>1, <2>3, <2>4 DEF IsLineEvent
<1>4. ASSUME NEW k \in 1 .. n, NEW i, i = m + k PROVE IsLineEvent(u, i, c, ln, v)
  <2>1. IsLineEvent(t, k, c, ln, v) /\ u[i] = t[k]
    BY <1>2, <1>4 DEF LineEvents
  <2>2. ASSUME NEW e, IsBefore(e, t, k) PROVE IsBefore(e, u, i)
    <3>1. PICK j \in 1 .. k - 1 : t[j] = e
      BY <2>2 DEF IsBefore
    <3>2. PICK l : l = m + j
      OBVIOUS
    <3>3. u[l] = e /\ l \in 1 .. i - 1
      BY <1>2, <1>4, <3>1, <3>2
    <3> QED
      BY <3>3 DEF IsBefore
  <2>3. MarksAreBefore(t, k, c) => MarksAreBefore(u, i, c)
    BY <2>1, <2>2 DEF MarksAreBefore
  <2>4. OwnMarkIsBefore(t, k, c) => OwnMarkIsBefore(u, i, c)
    BY <2>1, <2>2 DEF OwnMarkIsBefore
  <2> QED
    BY <2>1, <2>3, <2>4 DEF IsLineEvent
<1>5. ASSUME NEW i \in DOMAIN u
      PROVE  i \in DOMAIN s \/ \E k \in DOMAIN t : i = Len(s) + k
  <2>1. i \in DOMAIN (s \o t) /\ IsSequence(s) /\ IsSequence(t)
    BY <1>1 DEF LineEvents
  <2> QED
    BY <2>1, ConcatPositions
<1>6. \A i \in DOMAIN u : IsLineEvent(u, i, c, ln, v)
  BY <1>1, <1>2, <1>3, <1>4, <1>5
<1> QED
  BY <1>1, <1>2, <1>6 DEF LineEvents

-----------------------------------------------------------------------------
(* Nesting.                                                                *)

\* A block more on a stack.
LEMMA StackAppend ==
    ASSUME NEW words, NEW s, IsStack(s, words), NEW b, IsBlock(b, words)
    PROVE  IsStack(Append(s, b), words)
<1>1. PICK t : t = Append(s, b)
  OBVIOUS
<1>2. /\ IsSequence(t) /\ DOMAIN t = 1 .. Len(s) + 1 /\ t[Len(s) + 1] = b
      /\ \A i \in 1 .. Len(s) : t[i] = s[i]
      /\ Len(s) \in Nat /\ DOMAIN s = 1 .. Len(s)
  BY <1>1, SequenceAppend, SequenceFacts DEF IsStack
<1>3. \A i \in DOMAIN t : IsBlock(t[i], words)
  BY <1>2 DEF IsStack
<1> QED
  BY <1>1, <1>2, <1>3 DEF IsStack

\* A block less.
LEMMA StackFront ==
    ASSUME NEW words, NEW s, IsStack(s, words), s # <<>>
    PROVE  IsStack(Front(s), words) /\ IsBlock(Last(s), words)
<1>1. PICK t : t = Front(s)
  OBVIOUS
<1>2. /\ IsSequence(t) /\ DOMAIN t = 1 .. Len(t) /\ Len(t) = Len(s) - 1
      /\ \A i \in 1 .. Len(s) - 1 : t[i] = s[i]
      /\ Len(s) \in Nat /\ DOMAIN s = 1 .. Len(s) /\ Len(s) \in DOMAIN s
  BY <1>1, SequenceFront, SequenceFacts DEF IsStack
<1>3. \A i \in DOMAIN t : IsBlock(t[i], words)
  BY <1>2 DEF IsStack
<1> QED
  BY <1>1, <1>2, <1>3 DEF IsStack, Last

\* A block changed.
LEMMA StackExcept ==
    ASSUME NEW words, NEW s, IsStack(s, words), NEW i, NEW b, IsBlock(b, words)
    PROVE  IsStack([s EXCEPT ![i] = b], words)
<1>1. PICK t : t = [s EXCEPT ![i] = b]
  OBVIOUS
<1>2. PICK n : n = Len(s) /\ n \in Nat /\ DOMAIN s = 1 .. n
  BY SequenceFacts DEF IsStack
<1>3. PICK S : S = Range(s) \cup {b}
  OBVIOUS
<1>4. t \in [1 .. n -> S]
  BY <1>1, <1>2, <1>3 DEF Range, IsStack, IsSequence
<1>5. \A k \in DOMAIN t : IsBlock(t[k], words)
  BY <1>1 DEF IsStack
<1> QED
  BY <1>1, <1>2, <1>4, <1>5, SequenceFromFunction DEF IsStack

\* The same for the nesting that holds the stack.
LEMMA PushBlockKeeps ==
    ASSUME NEW words, NEW n, IsNesting(n, words), NEW b, IsBlock(b, words)
    PROVE  IsNesting(PushBlock(n, b), words)
<1>1. IsStack(Append(n.stack, b), words)
  BY StackAppend DEF IsNesting
<1> QED
  BY <1>1 DEF PushBlock, IsNesting

\* See StackFront.
LEMMA PopBlockKeeps ==
    ASSUME NEW words, NEW n, IsNesting(n, words), n.stack # <<>>
    PROVE  IsNesting(PopBlock(n), words) /\ IsBlock(Top(n), words)
<1>1. IsStack(Front(n.stack), words) /\ IsBlock(Last(n.stack), words)
  BY StackFront DEF IsNesting
<1> QED
  BY <1>1 DEF PopBlock, IsNesting, Top

\* See StackExcept.
LEMMA SetTopKeeps ==
    ASSUME NEW words, NEW n, IsNesting(n, words), NEW b, IsBlock(b, words)
    PROVE  IsNesting(SetTop(n, b), words)
<1>1. IsStack([n.stack EXCEPT ![Len(n.stack)] = b], words)
  BY StackExcept DEF IsNesting
<1>2. SetTop(n, b) = [n EXCEPT !.stack = [n.stack EXCEPT ![Len(n.stack)] = b]]
  BY DEF SetTop
<1> QED
  BY <1>1, <1>2 DEF IsNesting

\* The stacks kept at an #if: one more, the last one changed, the last one taken.
LEMMA UpdatePreprocessorKeeps ==
    ASSUME NEW words, NEW n, IsNesting(n, words), NEW text
    PROVE  IsNesting(UpdatePreprocessor(n, text), words)
<1> DEFINE pps == n.pp_stack
           AllPreprocessors(s) == IsSequence(s) /\ \A i \in DOMAIN s : IsPreprocessor(s[i], words)
<1>1. AllPreprocessors(pps) /\ IsStack(n.stack, words)
  BY DEF IsNesting
<1>2. ASSUME NEW s, AllPreprocessors(s), NEW pp, IsPreprocessor(pp, words)
      PROVE  AllPreprocessors(Append(s, pp))
  <2>1. PICK t : t = Append(s, pp)
    OBVIOUS
  <2>2. /\ IsSequence(t) /\ DOMAIN t = 1 .. Len(s) + 1 /\ t[Len(s) + 1] = pp
        /\ \A i \in 1 .. Len(s) : t[i] = s[i]
        /\ Len(s) \in Nat /\ DOMAIN s = 1 .. Len(s)
    BY <1>2, <2>1, SequenceAppend, SequenceFacts
  <2>3. \A i \in DOMAIN t : IsPreprocessor(t[i], words)
    BY <1>2, <2>2
  <2> QED
    BY <2>1, <2>2, <2>3
<1>3. ASSUME pps # <<>> PROVE AllPreprocessors(Front(pps)) /\ IsPreprocessor(Last(pps), words)
  <2>1. PICK t : t = Front(pps)
    OBVIOUS
  <2>2. /\ IsSequence(t) /\ DOMAIN t = 1 .. Len(t) /\ Len(t) = Len(pps) - 1
        /\ \A i \in 1 .. Len(pps) - 1 : t[i] = pps[i]
        /\ Len(pps) \in Nat /\ DOMAIN pps = 1 .. Len(pps) /\ Len(pps) \in DOMAIN pps
    BY <1>1, <1>3, <2>1, SequenceFront, SequenceFacts
  <2>3. \A i \in DOMAIN t : IsPreprocessor(t[i], words)
    BY <1>1, <2>2
  <2> QED
    BY <1>1, <2>1, <2>2, <2>3 DEF Last
<1> HIDE DEF AllPreprocessors
<1>4. ASSUME NEW m, NEW s, NEW st, AllPreprocessors(s), IsStack(st, words),
             m = [n EXCEPT !.pp_stack = s, !.stack = st]
      PROVE  IsNesting(m, words)
  BY <1>4 DEF IsNesting, AllPreprocessors
<1>5. IsNesting(BeginIf(n), words)
  <2>1. IsPreprocessor(PreprocessorInfo(n.stack), words)
    BY <1>1, ShortSequences DEF IsPreprocessor, PreprocessorInfo, IsStack
  <2>2. AllPreprocessors(Append(pps, PreprocessorInfo(n.stack)))
    BY <1>1, <1>2, <2>1
  <2> QED
    BY <1>1, <2>2 DEF BeginIf, IsNesting, AllPreprocessors
<1>6. ASSUME pps # <<>> PROVE IsNesting(BeginElse(n), words)
  <2> DEFINE pp == Last(pps)
             kept == IF pp.seen_else THEN pp
                     ELSE [pp EXCEPT !.seen_else = TRUE, !.stack_before_else = n.stack]
  <2>1. AllPreprocessors(Front(pps)) /\ IsPreprocessor(pp, words)
    BY <1>3, <1>6
  <2> HIDE DEF pp
  <2>2. IsPreprocessor(kept, words)
    BY <1>1, <2>1 DEF IsPreprocessor
  <2>3. BeginElse(n) = [n EXCEPT !.pp_stack = Append(Front(pps), kept), !.stack = pp.stack_before_if]
    BY DEF BeginElse, pp
  <2> HIDE DEF kept
  <2>4. AllPreprocessors(Append(Front(pps), kept)) /\ IsStack(pp.stack_before_if, words)
    BY <1>2, <2>1, <2>2 DEF IsPreprocessor
  <2> QED
    BY <1>4, <2>3, <2>4
<1>7. ASSUME pps # <<>> PROVE IsNesting(EndIf(n), words)
  <2> DEFINE pp == Last(pps)
  <2>1. AllPreprocessors(Front(pps)) /\ IsPreprocessor(pp, words)
    BY <1>3, <1>7
  <2>2. EndIf(n) = [n EXCEPT !.pp_stack = Front(pps),
                             !.stack = IF pp.seen_else THEN pp.stack_before_else ELSE n.stack]
    BY DEF EndIf, IsNesting
  <2> HIDE DEF pp
  <2>3. IsStack(IF pp.seen_else THEN pp.stack_before_else ELSE n.stack, words)
    BY <1>1, <2>1 DEF IsPreprocessor
  <2> QED
    BY <1>4, <2>1, <2>2, <2>3
<1> QED
  BY <1>5, <1>6, <1>7 DEF UpdatePreprocessor

\* A text that does not have the word starts no assembly.
LEMMA NoAsm ==
    ASSUME NEW words, "asm" \notin words, NEW text \in Seq(words)
    PROVE  ~MatchAsm(text)
<1>1. \A i : At(text, i) # "asm"
  BY DEF At
<1> QED
  BY <1>1 DEF MatchAsm

\* The parentheses are counted in the top block only.
LEMMA CountParenthesesKeeps ==
    ASSUME NEW words, NEW n, IsNesting(n, words), NEW text \in Seq(words)
    PROVE  IsNesting(CountParentheses(n, text), words)
<1>1. CASE n.stack = <<>>
  BY <1>1 DEF CountParentheses
<1>2. CASE n.stack # <<>>
  <2>1. IsBlock(Top(n), words)
    BY <1>2, PopBlockKeeps
  <2> DEFINE Changed(x, y) == [[Top(n) EXCEPT !.open_parentheses = x] EXCEPT !.inline_asm = y]
  <2>2. \E x, y : /\ CountParentheses(n, text) = SetTop(n, Changed(x, y))
                  /\ Top(n).inline_asm = "NO_ASM" /\ ~MatchAsm(text) => y = "NO_ASM"
    <3> DEFINE change == CountOf("(", text) - CountOf(")", text)
               block == [Top(n) EXCEPT !.open_parentheses = @ + change]
               starts == change # 0 /\ block.open_parentheses = 1 /\ MatchAsm(text)
               asm == CASE block.inline_asm \in {"NO_ASM", "END_ASM"} /\ starts -> "INSIDE_ASM"
                        [] block.inline_asm \in {"NO_ASM", "END_ASM"} /\ ~starts -> "NO_ASM"
                        [] block.inline_asm = "INSIDE_ASM" /\ block.open_parentheses = 0
                              -> "END_ASM"
                        [] OTHER -> block.inline_asm
    <3>1. CountParentheses(n, text) = SetTop(n, [block EXCEPT !.inline_asm = asm])
      BY <1>2, Zenon DEF CountParentheses
    <3> HIDE DEF change
    <3>2. PICK x : x = Top(n).open_parentheses + change
      OBVIOUS
    <3>3. block = [Top(n) EXCEPT !.open_parentheses = x]
      BY <3>2
    <3>4. block.inline_asm = Top(n).inline_asm
      BY <2>1, <3>3 DEF IsBlock
    <3> HIDE DEF block
    <3>5. Top(n).inline_asm = "NO_ASM" /\ ~MatchAsm(text) => asm = "NO_ASM"
      BY <3>4
    <3> HIDE DEF asm
    <3> QED
      BY <3>1, <3>3, <3>5
  <2>3. "asm" \notin words => Top(n).inline_asm = "NO_ASM" /\ ~MatchAsm(text)
    BY <2>1, NoAsm DEF IsBlock
  <2>4. ASSUME NEW x, NEW y, "asm" \notin words => y = "NO_ASM"
        PROVE  IsBlock(Changed(x, y), words)
    BY <2>1, <2>4 DEF IsBlock
  <2> HIDE DEF Changed
  <2> QED
    BY <2>2, <2>3, <2>4, SetTopKeeps
<1> QED
  BY <1>1, <1>2

\* A block of any kind starts where it is said to.
LEMMA BlocksStart ==
    ASSUME NEW words, NEW ln \in Nat
    PROVE  /\ \A kind, seen : IsBlock(Block(kind, ln, seen), words)
           /\ IsBlock(BlockInfo(ln), words) /\ IsBlock(ExternCInfo(ln), words)
           /\ \A name : IsBlock(NamespaceInfo(ln, name), words)
           /\ \A clean_, keyword, name : IsBlock(ClassInfo(clean_, ln, keyword, name), words)
<1>1. \A kind, seen : IsBlock(Block(kind, ln, seen), words)
  BY DEF IsBlock, Block
<1> QED
  BY <1>1 DEF BlockInfo, ExternCInfo, NamespaceInfo, ClassInfo, IsBlock

\* What is left of a line, and the nesting so far.
IsConsumed(s, words) ==
    /\ {"nesting", "text"} \subseteq DOMAIN s
    /\ IsNesting(s.nesting, words) /\ s.text \in Seq(words)

\* The end of a text has no other words.
LEMMA FromKeepsWords ==
    ASSUME NEW words, NEW text \in Seq(words), NEW i \in Nat \ {0}
    PROVE  From(text, i) \in Seq(words)
<1>1. PICK n : n = Len(text) /\ n \in Nat
  OBVIOUS
<1>2. SubSeq(text, i, n) \in Seq(words)
  <2>1. CASE i <= n
    BY <1>1, <2>1
  <2>2. CASE n < i
    BY <1>1, <2>2
  <2> QED
    BY <1>1, <2>1, <2>2
<1> QED
  BY <1>1, <1>2 DEF From

\* The first of some positions of a sequence, 0 if there is none.
LEMMA FirstPosition ==
    ASSUME NEW n \in Nat, NEW at \in SUBSET (1 .. n),
           NEW m, m = IF at # {} THEN Min(at) ELSE 0
    PROVE  m \in 0 .. n /\ m \in Nat /\ (at # {} => m \in at) /\ (at = {} => m = 0)
<1>1. at \in SUBSET Nat
  OBVIOUS
<1>2. at # {} => Min(at) \in at
  BY <1>1, MinOfNumbers
<1>3. CASE at = {}
  BY <1>3
<1>4. CASE at # {}
  <2>1. m \in at
    BY <1>2, <1>4
  <2> QED
    BY <1>4, <2>1
<1> QED
  BY <1>3, <1>4

\* The loop over the namespaces at the beginning of a line.
NamespaceTurn(ln, s) == OfValue(LAMBDA v : ConsumeNamespace(v, ln), s)
NamespaceLoop == INSTANCE SequenceLemmas WITH
    Step <- LAMBDA ln, words, s, k : NamespaceTurn(ln, s),
    Holds <- LAMBDA ln, words, s, k : IsConsumed(s, words)

\* A namespace taken off the line is one more block.
LEMMA ConsumeNamespaceKeeps ==
    ASSUME NEW words, NEW s, IsConsumed(s, words), NEW ln \in Nat
    PROVE  IsConsumed(ConsumeNamespace(s, ln), words)
<1> DEFINE named == IsWord(At(s.text, 2))
           rest == From(s.text, IF named THEN 3 ELSE 2)
           brace == SelectInSeq(rest, LAMBDA t : t = "{")
           namespace == [NamespaceInfo(ln, IF named THEN s.text[2] ELSE "")
                           EXCEPT !.seen_open_brace = brace # 0]
           left == IF brace = 0 THEN rest ELSE From(rest, brace + 1)
<1>1. IsBlock(namespace, words)
  BY BlocksStart DEF IsBlock
<1>2. ConsumeNamespace(s, ln) =
        IF At(s.text, 1) # "namespace" THEN s
        ELSE [nesting |-> PushBlock(s.nesting, namespace), text |-> left]
  BY DEF ConsumeNamespace
<1> HIDE DEF namespace
<1>3. rest \in Seq(words)
  BY SMTT(30), FromKeepsWords DEF IsConsumed
<1> HIDE DEF rest
<1>4. brace \in Nat
  <2> DEFINE found == {i \in 1 .. Len(rest) : rest[i] = "{"}
  <2>1. brace = IF found # {} THEN Min(found) ELSE 0
    BY Zenon DEF SelectInSeq
  <2>2. Len(rest) \in Nat /\ found \in SUBSET (1 .. Len(rest))
    <3>1. Len(rest) \in Nat
      BY <1>3
    <3> QED
      BY <3>1
  <2> HIDE DEF found
  <2> QED
    BY <2>1, <2>2, FirstPosition
<1> HIDE DEF brace
<1>5. left \in Seq(words)
  BY <1>3, <1>4, FromKeepsWords
<1>6. IsNesting(PushBlock(s.nesting, namespace), words)
  BY <1>1, PushBlockKeeps DEF IsConsumed
<1> HIDE DEF left
<1>7. CASE ConsumeNamespace(s, ln) = s
  BY <1>7
<1>8. CASE ConsumeNamespace(s, ln) = [nesting |-> PushBlock(s.nesting, namespace), text |-> left]
  BY <1>5, <1>6, <1>8 DEF IsConsumed
<1> QED
  BY <1>2, <1>7, <1>8

\* So are all those at its beginning.
LEMMA ConsumeNamespacesKeeps ==
    ASSUME NEW words, NEW n, IsNesting(n, words), NEW line, line.text \in Seq(words), NEW ln \in Nat
    PROVE  IsConsumed(ConsumeNamespaces(n, line, ln), words)
<1> DEFINE start == [nesting |-> n, text |-> line.text]
           turns == [k \in 1 .. Len(line.text) |-> k]
<1>1. turns \in [1 .. Len(line.text) -> Nat] /\ Len(line.text) \in Nat
  OBVIOUS
<1>2. Len(turns) \in Nat /\ DOMAIN turns = 1 .. Len(turns)
  BY <1>1, SequenceFromFunction, SequenceFacts
<1>3. ASSUME NEW s, IsConsumed(s, words) PROVE IsConsumed(NamespaceTurn(ln, s), words)
  <2>1. NamespaceTurn(ln, s) = ConsumeNamespace(s, ln)
    BY DEF NamespaceTurn, OfValue
  <2> QED
    BY <1>3, <2>1, ConsumeNamespaceKeeps
<1>4. IsConsumed(start, words)
  BY DEF IsConsumed
<1>5. ConsumeNamespaces(n, line, ln) = NamespaceLoop!Loop(ln, words, start, turns)
  <2>1. ConsumeNamespaces(n, line, ln)
          = ForEach(LAMBDA x, k : ConsumeNamespace(x, ln), start, turns)
    BY DEF ConsumeNamespaces, Iterate
  <2>2. ForEach(LAMBDA x, k : ConsumeNamespace(x, ln), start, turns)
          = NamespaceLoop!Loop(ln, words, start, turns)
    <3> HIDE DEF start, turns
    <3> QED
      BY ZenonT(60) DEF ForEach, OfValue, NamespaceTurn, NamespaceLoop!Loop,
                   NamespaceLoop!Largest, FoldLeft, MapThenFoldSet, Max
  <2> QED
    BY <2>1, <2>2, Zenon
<1> HIDE DEF start, turns
<1>6. IsConsumed(NamespaceLoop!Loop(ln, words, start, turns), words)
  BY <1>2, <1>3, <1>4, NamespaceLoop!LoopHolds
<1> QED
  BY <1>5, <1>6

\* The head of a class stands at two places of its line.
LEMMA ClassHeadsType ==
    ASSUME NEW text
    PROVE  ClassHeads(text) \subseteq (DOMAIN text) \X (DOMAIN text)
<1> DEFINE IsKeyword(k) ==
               /\ text[k] \in {"class", "struct"}
               /\ \/ k = 1
                  \/ /\ At(text, 1) = "template" /\ At(text, 2) = "<"
                     /\ k > 3 /\ text[k - 1] = ">"
                     /\ \A i \in 3 .. k - 1 :
                           IsWord(text[i]) \/ text[i] \in {"<", ">", ",", ":"}
           keywords == {k \in DOMAIN text : IsKeyword(k)}
           HeadsClass(h) ==
               /\ h[2] > h[1] /\ IsWord(text[h[2]])
               /\ \A i \in h[1] + 1 .. h[2] - 1 : text[i] = "MACRO"
<1>1. ClassHeads(text) = {h \in keywords \X DOMAIN text : HeadsClass(h)}
  BY Zenon DEF ClassHeads
<1> HIDE DEF HeadsClass, IsKeyword
<1> QED
  BY <1>1

\* A class is one more block, and what is left of the line a text.
LEMMA ConsumeClassKeeps ==
    ASSUME NEW words, NEW s, IsConsumed(s, words), NEW c, NEW ln \in Nat
    PROVE  IsConsumed(ConsumeClass(s, c, ln), words)
<1> DEFINE heads == ClassHeads(s.text)
           IsLast(h) == \A g \in heads : h[1] > g[1] \/ (h[1] = g[1] /\ h[2] >= g[2])
           head == CHOOSE h \in heads : IsLast(h)
           n == s.nesting
           class == ClassInfo(c, ln, s.text[head[1]], s.text[head[2]])
           inside == n.stack # <<>> /\ Top(n).open_parentheses # 0
           listed == InTemplateArgumentList(c.elided, ln, head[2] + 1)
           pushed == [nesting |-> PushBlock(n, class), text |-> From(s.text, head[2] + 1)]
<1>1. ConsumeClass(s, c, ln) =
        CASE heads = {} -> s
          [] heads # {} /\ inside -> s
          [] heads # {} /\ listed -> s
          [] OTHER -> pushed
  BY DEF ConsumeClass
<1>2. ConsumeClass(s, c, ln) = s \/ (heads # {} /\ ConsumeClass(s, c, ln) = pushed)
  <2> HIDE DEF heads, inside, listed, pushed
  <2> QED
    BY <1>1
<1>3. ASSUME heads # {} PROVE IsConsumed(pushed, words)
  <2>1. Len(s.text) \in Nat /\ DOMAIN s.text = 1 .. Len(s.text)
    BY SequenceOver DEF IsConsumed
  <2>2. heads \in SUBSET ((1 .. Len(s.text)) \X (1 .. Len(s.text)))
    BY <2>1, ClassHeadsType
  <2>3. head \in heads
    <3> HIDE DEF heads
    <3>1. \E h \in heads : IsLast(h)
      BY <1>3, <2>1, <2>2, LastPair
    <3> HIDE DEF IsLast
    <3> QED
      BY <3>1
  <2>4. head[2] + 1 \in Nat \ {0}
    <3> HIDE DEF head, heads
    <3> QED
      BY <2>2, <2>3
  <2>5. From(s.text, head[2] + 1) \in Seq(words)
    <3> HIDE DEF head
    <3> QED
      BY <2>4, FromKeepsWords DEF IsConsumed
  <2>6. IsNesting(PushBlock(n, class), words)
    <3>1. IsBlock(class, words)
      BY BlocksStart
    <3> HIDE DEF class
    <3> QED
      BY <3>1, PushBlockKeeps DEF IsConsumed
  <2> HIDE DEF class, head
  <2> QED
    BY <2>5, <2>6 DEF IsConsumed
<1> HIDE DEF heads, pushed
<1> QED
  BY <1>2, <1>3

\* What is left of a line once its access keyword is read, with the errors found.
IsScanned(s, c, ln, words) ==
    /\ {"nesting", "text", "errors"} \subseteq DOMAIN s
    /\ IsNesting(s.nesting, words) /\ s.text \in Seq(words)
    /\ \A v : LineEvents(s.errors, c, ln, v)

\* An access keyword changes the top block, and may be wrongly indented.
LEMMA UpdateAccessKeeps ==
    ASSUME NEW words, NEW s, IsConsumed(s, words), NEW line, NEW c, NEW ln \in Nat
    PROVE  IsScanned(UpdateAccess(s, line, ln), c, ln, words)
<1> DEFINE n == s.nesting
           at == SelectLastInSeq([i \in DOMAIN s.text |-> i], LAMBDA i :
                    /\ s.text[i] \in AccessWords /\ At(s.text, i + 1) = ":")
           first == at = 1 /\ s.text = line.text
           misplaced == first /\ line.indent # Top(n).indent + 1
           changed == [n EXCEPT !.stack[Len(n.stack)].access = s.text[at]]
           errors == IF misplaced THEN <<Err(ln, <<"whitespace", "indent">>, 3)>> ELSE <<>>
<1>1. UpdateAccess(s, line, ln)
        = IF ~TopIs(n, "class") \/ at = 0
          THEN [nesting |-> n, text |-> s.text, errors |-> <<>>]
          ELSE [nesting |-> changed, text |-> s.text, errors |-> errors]
  BY Zenon DEF UpdateAccess
<1>2. \A v : LineEvents(errors, c, ln, v) /\ LineEvents(<<>>, c, ln, v)
  <2> HIDE DEF misplaced
  <2>1. <<"whitespace", "indent">> \in PlainCategories
    BY PlainCategory
  <2> QED
    BY <2>1, ErrEvent, NoEvents
<1>3. ASSUME TopIs(n, "class") PROVE IsNesting(changed, words)
  <2>1. IsBlock(Top(n), words)
    BY <1>3, PopBlockKeeps DEF TopIs, IsConsumed
  <2> HIDE DEF at
  <2> DEFINE block == [Top(n) EXCEPT !.access = s.text[at]]
  <2>2. IsBlock(block, words)
    BY <2>1 DEF IsBlock
  <2>3. changed = SetTop(n, block)
    BY DEF SetTop, Top, Last, IsConsumed, IsNesting
  <2> HIDE DEF block, changed
  <2> QED
    BY <2>2, <2>3, SetTopKeeps DEF IsConsumed
<1> HIDE DEF errors, changed
<1>4. ASSUME NEW m, IsNesting(m, words), NEW es, \A v : LineEvents(es, c, ln, v)
      PROVE  IsScanned([nesting |-> m, text |-> s.text, errors |-> es], c, ln, words)
  BY <1>4 DEF IsScanned, IsConsumed
<1>5. IsNesting(n, words)
  BY DEF IsConsumed
<1> HIDE DEF n, at
<1> QED
  BY <1>1, <1>2, <1>3, <1>4, <1>5

\* A brace opens the top block or one more.
LEMMA OpenBraceKeeps ==
    ASSUME NEW words, NEW n, IsNesting(n, words), NEW text \in Seq(words), NEW ln \in Nat
    PROVE  IsNesting(OpenBrace(n, text, ln), words)
<1> DEFINE seen == [Top(n) EXCEPT !.seen_open_brace = TRUE]
           block == [BlockInfo(ln) EXCEPT
                        !.inline_asm = IF MatchAsm(text) THEN "BLOCK_ASM" ELSE @]
<1>1. \/ ~SeenOpenBrace(n) /\ OpenBrace(n, text, ln) = SetTop(n, seen)
      \/ OpenBrace(n, text, ln) = PushBlock(n, ExternCInfo(ln))
      \/ OpenBrace(n, text, ln) = PushBlock(n, block)
  BY DEF OpenBrace
<1>2. ~SeenOpenBrace(n) => IsBlock(seen, words)
  <2>1. ~SeenOpenBrace(n) => IsBlock(Top(n), words)
    BY PopBlockKeeps DEF SeenOpenBrace
  <2> QED
    BY <2>1 DEF IsBlock
<1>3. IsBlock(ExternCInfo(ln), words) /\ IsBlock(block, words)
  <2>1. IsBlock(ExternCInfo(ln), words) /\ IsBlock(BlockInfo(ln), words)
    BY BlocksStart
  <2>2. "asm" \notin words => ~MatchAsm(text)
    BY NoAsm
  <2> QED
    BY <2>1, <2>2 DEF IsBlock
<1> HIDE DEF seen, block
<1> QED
  BY <1>1, <1>2, <1>3, SetTopKeeps, PushBlockKeeps

\* The errors found at the end of a block stand in it or on the line of its end.
LEMMA CheckEndEvents ==
    ASSUME NEW words, NEW block, IsBlock(block, words), NEW c, NEW ln \in Nat, NEW v
    PROVE  LineEvents(CheckEnd(block, c, ln), c, ln, v)
<1>1. LineEvents(CheckEndOfNamespace(block, c, ln), c, ln, v)
  <2>1. <<"readability", "namespace">> \in PlainCategories
    BY PlainCategory
  <2>2. \/ CheckEndOfNamespace(block, c, ln) = <<>>
        \/ CheckEndOfNamespace(block, c, ln) = <<Err(ln, <<"readability", "namespace">>, 5)>>
    BY Zenon DEF CheckEndOfNamespace
  <2> QED
    BY <2>1, <2>2, ErrEvent, NoEvents
<1>2. LineEvents(CheckEndOfClass(block, c, ln), c, ln, v)
  <2> DEFINE inside == block.start + 1 .. ln - 1
             macros == {i \in inside : Has("DISALLOW", c.elided[i].text)}
             macro == Max(macros)
             code == {i \in inside : i > macro /\ ~IsBlankText(c.elided[i].text)}
             here == c.elided[ln]
             misplaced == At(here.text, 1) = "}" /\ here.indent # block.indent
             first == IF macros # {} /\ code # {}
                      THEN <<Err(macro, <<"readability", "constructors">>, 3)>> ELSE <<>>
             second == IF misplaced
                       THEN <<Err(ln, <<"whitespace", "indent">>, 3)>> ELSE <<>>
  <2>1. CheckEndOfClass(block, c, ln) = first \o second
    BY Zenon DEF CheckEndOfClass
  <2>2. macros # {} => macro \in Int /\ macro <= ln
    <3>1. macros \in SUBSET (1 .. ln)
      BY DEF IsBlock
    <3> HIDE DEF macros
    <3>2. macros # {} => macro \in macros
      BY <3>1, MaxOfInterval
    <3> HIDE DEF macro
    <3>3. macros # {} => macro \in 1 .. ln
      BY <3>1, <3>2, Zenon
    <3>4. \A i \in 1 .. ln : i \in Int /\ i <= ln
      OBVIOUS
    <3> QED
      BY <3>3, <3>4, Zenon
  <2> HIDE DEF macros, macro, code, misplaced
  <2>3. <<"readability", "constructors">> \in PlainCategories
        /\ <<"whitespace", "indent">> \in PlainCategories
    BY PlainCategory
  <2>4. LineEvents(first, c, ln, v) /\ LineEvents(second, c, ln, v)
    BY <2>2, <2>3, ErrEvent, NoEvents
  <2> HIDE DEF first, second
  <2> QED
    BY <2>1, <2>4, ConcatEvents
<1> QED
  BY <1>1, <1>2, NoEvents DEF CheckEnd

\* The loop over the braces, semicolons and parentheses of a line.
BraceTurn(c, ln, s) == OfValue(LAMBDA v : ConsumeBrace(v, c, ln), s)
BraceLoop == INSTANCE SequenceLemmas WITH
    Step <- LAMBDA c, ln, s, k : BraceTurn(c, ln, s),
    Holds <- LAMBDA c, ln, s, k : IsScanned(s, c, ln, Words(c))

\* The errors of the block a brace closes stand on this line or before it.
LEMMA ConsumeBraceKeeps ==
    ASSUME NEW words, NEW c, NEW ln \in Nat, NEW s, IsScanned(s, c, ln, words)
    PROVE  IsScanned(ConsumeBrace(s, c, ln), c, ln, words)
<1> DEFINE Braces == {"{", ";", ")", "}"}
           nothing == ""
           at == SelectInSeq(s.text, LAMBDA t : t \in {"{", ";", ")", "}"})
           n == s.nesting
           Done(m, errors) == [nesting |-> m, text |-> From(s.text, at + 1),
                               errors |-> s.errors \o errors]
           t == ConsumeBrace(s, c, ln)
<1>0. /\ at \in Nat
      /\ at # 0 => At(s.text, at) \in Braces
      /\ at = 0 => At(s.text, at) = nothing
  <2> DEFINE found == {i \in 1 .. Len(s.text) : s.text[i] \in Braces}
  <2>1. at = IF found # {} THEN Min(found) ELSE 0
    BY Zenon DEF SelectInSeq
  <2> HIDE DEF at, Braces
  <2>2. Len(s.text) \in Nat /\ found \in SUBSET (1 .. Len(s.text)) /\ DOMAIN s.text = 1 .. Len(s.text)
    BY SequenceOver DEF IsScanned
  <2>3. at \in Nat /\ (found # {} => at \in found) /\ (found = {} => at = 0)
    <3> HIDE DEF found
    <3> QED
      BY <2>1, <2>2, FirstPosition
  <2>4. at # 0 => at \in 1 .. Len(s.text) /\ s.text[at] \in Braces
    BY <2>3
  <2> HIDE DEF found
  <2>5. at \in DOMAIN s.text \/ at = 0
    BY <2>2, <2>3, <2>4, Zenon
  <2>6. 0 \notin DOMAIN s.text
    BY <2>2
  <2> QED
    BY <2>3, <2>4, <2>5, <2>6, Zenon DEF At
<1>1. at \in Nat /\ at + 1 \in Nat \ {0}
  <2> HIDE DEF Braces, at, nothing
  <2> QED
    BY <1>0
<1>2. \/ t = s
      \/ at # 0 /\ t = Done(OpenBrace(n, s.text, ln), <<>>)
      \/ at # 0 /\ t = Done(n, <<>>)
      \/ at # 0 /\ ~SeenOpenBrace(n) /\ t = Done(PopBlock(n), <<>>)
      \/ at # 0 /\ n.stack # <<>> /\ t = Done(PopBlock(n), CheckEnd(Top(n), c, ln))
  <2>1. t = CASE at = 0 -> s
              [] At(s.text, at) = "{" -> Done(OpenBrace(n, s.text, ln), <<>>)
              [] At(s.text, at) \in {";", ")"} ->
                    Done(IF SeenOpenBrace(n) THEN n ELSE PopBlock(n), <<>>)
              [] At(s.text, at) = "}" /\ n.stack = <<>> -> Done(n, <<>>)
              [] OTHER -> Done(PopBlock(n), CheckEnd(Top(n), c, ln))
    BY DEF ConsumeBrace
  <2> HIDE DEF t, at, Done, n
  <2>2. CASE at = 0
    <3>1. At(s.text, at) = ""
      BY <1>0, <2>2, Zenon
    <3> QED
      BY <2>1, <2>2, <3>1
  <2>3. CASE at # 0 /\ At(s.text, at) = "{"
    BY <2>1, <2>3
  <2>4. CASE at # 0 /\ At(s.text, at) \in {";", ")"}
    BY <2>1, <2>4
  <2>5. CASE at # 0 /\ At(s.text, at) = "}"
    BY <2>1, <2>5
  <2> QED
    BY <1>0, <2>2, <2>3, <2>4, <2>5, Zenon
<1>3. /\ IsNesting(n, words) /\ IsNesting(OpenBrace(n, s.text, ln), words)
      /\ n.stack # <<>> => IsNesting(PopBlock(n), words) /\ IsBlock(Top(n), words)
      /\ ~SeenOpenBrace(n) => n.stack # <<>>
  BY OpenBraceKeeps, PopBlockKeeps DEF IsScanned, SeenOpenBrace
<1>4. ASSUME NEW m, IsNesting(m, words), NEW errors, \A v : LineEvents(errors, c, ln, v)
      PROVE  IsScanned(Done(m, errors), c, ln, words)
  <2> HIDE DEF at
  <2>1. From(s.text, at + 1) \in Seq(words)
    BY <1>1, FromKeepsWords DEF IsScanned
  <2>2. \A v : LineEvents(s.errors \o errors, c, ln, v)
    BY <1>4, ConcatEvents DEF IsScanned
  <2> DEFINE left == From(s.text, at + 1)
             found == s.errors \o errors
             u == [nesting |-> m, text |-> left, errors |-> found]
  <2>3. Done(m, errors) = u
    OBVIOUS
  <2> HIDE DEF left, found, Done
  <2>4. IsScanned(u, c, ln, words)
    BY <1>4, <2>1, <2>2 DEF IsScanned, left, found
  <2> QED
    BY <2>3, <2>4
<1> HIDE DEF Done, at, t, n
<1>5. \A v : LineEvents(<<>>, c, ln, v)
  BY NoEvents
<1>6. n.stack # <<>> => \A v : LineEvents(CheckEnd(Top(n), c, ln), c, ln, v)
  BY <1>3, CheckEndEvents
<1>7. IsScanned(t, c, ln, words)
  BY <1>2, <1>3, <1>4, <1>5, <1>6
<1> QED
  BY <1>7 DEF t

\* So do those of all braces of the line.
LEMMA ConsumeBracesKeeps ==
    ASSUME NEW c, NEW ln \in Nat, NEW s, IsScanned(s, c, ln, Words(c))
    PROVE  IsScanned(ConsumeBraces(s, c, ln), c, ln, Words(c))
<1> DEFINE turns == [k \in 1 .. Len(s.text) |-> k]
<1>1. turns \in [1 .. Len(s.text) -> Nat] /\ Len(s.text) \in Nat
  BY SequenceOver DEF IsScanned
<1>2. Len(turns) \in Nat /\ DOMAIN turns = 1 .. Len(turns)
  BY <1>1, SequenceFromFunction, SequenceFacts
<1>3. ASSUME NEW t, IsScanned(t, c, ln, Words(c))
      PROVE  IsScanned(BraceTurn(c, ln, t), c, ln, Words(c))
  <2>1. BraceTurn(c, ln, t) = ConsumeBrace(t, c, ln)
    BY DEF BraceTurn, OfValue
  <2> QED
    BY <1>3, <2>1, ConsumeBraceKeeps
<1>4. ConsumeBraces(s, c, ln) = BraceLoop!Loop(c, ln, s, turns)
  <2>1. ConsumeBraces(s, c, ln) = ForEach(LAMBDA x, k : ConsumeBrace(x, c, ln), s, turns)
    BY DEF ConsumeBraces, Iterate
  <2>2. ForEach(LAMBDA x, k : ConsumeBrace(x, c, ln), s, turns)
          = BraceLoop!Loop(c, ln, s, turns)
    <3> HIDE DEF turns
    <3> QED
      BY ZenonT(60) DEF ForEach, OfValue, BraceTurn, BraceLoop!Loop,
                        BraceLoop!Largest, FoldLeft, MapThenFoldSet, Max
  <2> QED
    BY <2>1, <2>2, Zenon
<1> HIDE DEF turns
<1>5. IsScanned(BraceLoop!Loop(c, ln, s, turns), c, ln, Words(c))
  BY <1>2, <1>3, BraceLoop!LoopHolds
<1> QED
  BY <1>4, <1>5

\* NestingState.Update: the nesting after a line, and the errors found on it.
LEMMA UpdateKeeps ==
    ASSUME NEW n, NEW c, IsNesting(n, Words(c)), IsClean(c),
           NEW ln \in 1 .. Len(c.raw_lines),
           c.elided[ln].text \in Seq(Words(c))
    PROVE  /\ IsNesting(Update(n, c, ln).nesting, Words(c))
           /\ \A v : LineEvents(Update(n, c, ln).errors, c, ln, v)
<1> DEFINE line == c.elided[ln]
           changed == UpdatePreprocessor(n, line.text)
           top == IF changed.stack # n.stack THEN 0 ELSE Len(n.stack)
           preprocessed == [changed EXCEPT !.previous_stack_top = top]
           counted == CountParentheses(preprocessed, line.text)
           class == ConsumeClass(ConsumeNamespaces(counted, line, ln), c, ln)
           end == ConsumeBraces(UpdateAccess(class, line, ln), c, ln)
<1>1. ln \in Nat /\ line.text \in Seq(Words(c))
  <2>1. Len(c.raw_lines) \in Nat
    BY SequenceFacts DEF IsClean, AreLines
  <2> QED
    BY <2>1
<1>2. Update(n, c, ln) = [nesting |-> end.nesting, errors |-> end.errors]
  BY DEF Update
<1> HIDE DEF line
<1>3. IsNesting(changed, Words(c))
  BY UpdatePreprocessorKeeps
<1> HIDE DEF changed
<1>4. IsNesting(preprocessed, Words(c))
  <2> HIDE DEF top
  <2> QED
    BY <1>3 DEF IsNesting
<1> HIDE DEF preprocessed
<1>5. IsNesting(counted, Words(c))
  BY <1>1, <1>4, CountParenthesesKeeps
<1> HIDE DEF counted
<1>6. IsConsumed(class, Words(c))
  BY <1>1, <1>5, ConsumeNamespacesKeeps, ConsumeClassKeeps
<1> HIDE DEF class
<1>7. IsScanned(end, c, ln, Words(c))
  BY <1>1, <1>6, UpdateAccessKeeps, ConsumeBracesKeeps
<1> HIDE DEF end
<1> QED
  BY <1>2, <1>7 DEF IsScanned

-----------------------------------------------------------------------------
(* The end of a text, and the depth of its braces.                         *)

\* The length and the tokens of a beginning and of an end of a text.
LEMMA PartsOfText ==
    ASSUME NEW s, IsSequence(s)
    PROVE  /\ \A i \in 0 .. Len(s) : /\ Len(Upto(s, i)) = i
                                     /\ \A k \in 1 .. i : Upto(s, i)[k] = s[k]
           /\ \A i \in 1 .. Len(s) + 1 :
                    /\ Len(From(s, i)) = Len(s) + 1 - i
                    /\ \A k \in 1 .. Len(s) + 1 - i : From(s, i)[k] = s[i + k - 1]
<1>1. PICK S, n : S = Range(s) /\ s \in Seq(S) /\ n = Len(s) /\ n \in Nat
  BY SequenceFacts DEF IsSequence
<1>2. ASSUME NEW i \in 0 .. n
      PROVE  Len(Upto(s, i)) = i /\ \A k \in 1 .. i : Upto(s, i)[k] = s[k]
  BY <1>1 DEF Upto
<1>3. ASSUME NEW i \in 1 .. n + 1
      PROVE  /\ Len(From(s, i)) = n + 1 - i
             /\ \A k \in 1 .. n + 1 - i : From(s, i)[k] = s[i + k - 1]
  BY <1>1 DEF From
<1> QED
  BY <1>1, <1>2, <1>3

\* Sequences of the same length and elements are the same.
LEMMA SameSequence ==
    ASSUME NEW s, NEW t, IsSequence(s), IsSequence(t), Len(s) = Len(t),
           \A k \in 1 .. Len(s) : s[k] = t[k]
    PROVE  s = t
<1>1. PICK S : S = Range(s) \cup Range(t)
  OBVIOUS
<1>2. Range(s) \subseteq S /\ Range(t) \subseteq S
  BY <1>1
<1>3. s \in Seq(S) /\ t \in Seq(S)
  BY <1>2, SeqMonotonic DEF IsSequence
<1> QED
  BY <1>3

\* What a text is from a position on.
IsRest(t, s, i) ==
    /\ IsSequence(t) /\ DOMAIN t = 1 .. Len(t) /\ DOMAIN s = 1 .. Len(s) /\ Len(s) \in Nat
    /\ Len(t) = Len(s) + 1 - i
    /\ \A k \in 1 .. Len(t) : t[k] = s[i + k - 1]
LEMMA FromFacts ==
    ASSUME NEW s, IsSequence(s), NEW i \in 1 .. Len(s) + 1
    PROVE  IsRest(From(s, i), s, i)
<1>1. PICK n, t : n = Len(s) /\ t = From(s, i) /\ n \in Nat /\ DOMAIN s = 1 .. n
  BY SequenceFacts
<1>2. i \in Nat \ {0} /\ i \in 1 .. n + 1
  BY <1>1
<1>3. IsSequence(t)
  BY <1>1, <1>2, FromUptoType
<1>4. Len(t) = n + 1 - i /\ \A k \in 1 .. n + 1 - i : t[k] = s[i + k - 1]
  BY <1>1, <1>2, PartsOfText
<1>5. DOMAIN t = 1 .. Len(t)
  BY <1>3, SequenceFacts
<1>6. IsRest(t, s, i)
  BY <1>1, <1>3, <1>4, <1>5 DEF IsRest
<1> QED
  BY <1>1, <1>6

LEMMA WholeText == ASSUME NEW s, IsSequence(s) PROVE From(s, 1) = s
<1>1. PICK n, u : n = Len(s) /\ u = From(s, 1)
  OBVIOUS
<1>2. n \in Nat /\ 1 \in 1 .. n + 1 /\ n + 1 - 1 = n /\ \A k \in 1 .. n : 1 + k - 1 = k
  BY <1>1, SequenceFacts
<1>3. IsRest(u, s, 1)
  BY <1>1, <1>2, FromFacts
<1> QED
  BY <1>1, <1>2, <1>3, SameSequence DEF IsRest

\* What is left after what is left.
LEMMA FromFrom ==
    ASSUME NEW s, IsSequence(s), NEW i \in 1 .. Len(s) + 1, NEW t, t = From(s, i),
           NEW j \in 1 .. Len(t) + 1, NEW h, h = i + j - 1
    PROVE  From(t, j) = From(s, h) /\ h \in 1 .. Len(s) + 1
<1>1. PICK n, m, u, v : n = Len(s) /\ m = Len(t) /\ u = From(t, j) /\ v = From(s, h)
  OBVIOUS
<1>2. n \in Nat /\ IsSequence(t) /\ m = n + 1 - i /\ \A k \in 1 .. n + 1 - i : t[k] = s[i + k - 1]
  <2>1. IsRest(t, s, i)
    BY FromFacts
  <2> QED
    BY <1>1, <2>1 DEF IsRest
<1>3. h \in 1 .. n + 1 /\ n + 1 - h = m + 1 - j
  BY <1>1, <1>2
<1>4. IsSequence(u) /\ Len(u) = m + 1 - j /\ \A k \in 1 .. m + 1 - j : u[k] = t[j + k - 1]
  <2>1. IsRest(u, t, j)
    BY <1>1, <1>2, FromFacts
  <2> QED
    BY <1>1, <2>1 DEF IsRest
<1>5. IsSequence(v) /\ Len(v) = n + 1 - h /\ \A k \in 1 .. n + 1 - h : v[k] = s[h + k - 1]
  <2>1. IsRest(v, s, h)
    BY <1>1, <1>3, FromFacts
  <2> QED
    BY <1>1, <2>1 DEF IsRest
<1>6. ASSUME NEW k \in 1 .. m + 1 - j PROVE u[k] = v[k]
  <2>1. PICK l : l = j + k - 1
    OBVIOUS
  <2>2. l \in 1 .. n + 1 - i /\ i + l - 1 = h + k - 1 /\ k \in 1 .. n + 1 - h
    BY <1>1, <1>2, <1>3, <2>1
  <2>3. u[k] = t[l] /\ t[l] = s[i + l - 1] /\ v[k] = s[h + k - 1]
    BY <1>2, <1>4, <1>5, <2>1, <2>2
  <2> QED
    BY <2>2, <2>3
<1>7. u = v
  BY <1>3, <1>4, <1>5, <1>6, SameSequence
<1> QED
  BY <1>1, <1>3, <1>7

IsBrace(token) == token \in {"{", "}"}

\* The depth of the braces after a text: one loop over its tokens.
TokenTurn(e, token) ==
    OfValue(LAMBDA v : CASE token = "{" -> v + 1
                         [] token = "}" /\ v > 0 -> v - 1
                         [] OTHER -> v, e)
TokenLoop == INSTANCE SequenceLemmas WITH
    Step <- LAMBDA p, q, e, token : TokenTurn(e, token),
    Holds <- LAMBDA p, q, e, token : TRUE

LEMMA DepthIsTokenLoop ==
    ASSUME NEW d, NEW text
    PROVE  Depth(d, text) = TokenLoop!Loop(0, 0, d, text)
BY ZenonT(60) DEF Depth, ForEach, OfValue, TokenTurn, TokenLoop!Loop,
                  TokenLoop!Largest, FoldLeft, MapThenFoldSet, Max

\* The first token of a text counts first.
LEMMA DepthOfFirst ==
    ASSUME NEW d, NEW text, IsSequence(text), NEW i \in 1 .. Len(text),
           NEW rest, rest = From(text, i + 1)
    PROVE  Depth(d, From(text, i)) = Depth(TokenTurn(d, text[i]), rest)
<1>1. PICK s, n : s = From(text, i) /\ n = Len(text) - i
  OBVIOUS
<1>2. /\ n \in Nat /\ Len(s) = n + 1 /\ DOMAIN s = 1 .. n + 1 /\ s[1] = text[i]
      /\ Len(rest) = n /\ DOMAIN rest = 1 .. n
      /\ \A k \in 1 .. n : rest[k] = s[k + 1]
  <2>1. PICK m, j : m = Len(text) /\ m \in Nat /\ j = i + 1
    BY SequenceFacts
  <2>2. i \in 1 .. m + 1 /\ j \in 1 .. m + 1 /\ i \in 1 .. m
    BY <2>1
  <2>3. /\ Len(s) = m + 1 - i /\ DOMAIN s = 1 .. m + 1 - i
        /\ \A k \in 1 .. m + 1 - i : s[k] = text[i + k - 1]
    <3>1. IsRest(s, text, i)
      BY <1>1, <2>1, <2>2, FromFacts
    <3> QED
      BY <2>1, <3>1 DEF IsRest
  <2>4. /\ Len(rest) = m + 1 - j /\ DOMAIN rest = 1 .. m + 1 - j
        /\ \A k \in 1 .. m + 1 - j : rest[k] = text[j + k - 1]
    <3>1. IsRest(rest, text, j)
      BY <2>1, <2>2, FromFacts
    <3> QED
      BY <2>1, <3>1 DEF IsRest
  <2>5. m + 1 - i = n + 1 /\ m + 1 - j = n /\ n \in Nat
    BY <1>1, <2>1, <2>2
  <2>6. s[1] = text[i]
    <3>1. 1 \in 1 .. m + 1 - i /\ i + 1 - 1 = i
      BY <2>2, <2>5
    <3> QED
      BY <2>3, <3>1
  <2>7. ASSUME NEW k \in 1 .. n PROVE rest[k] = s[k + 1]
    <3>1. PICK l : l = k + 1
      OBVIOUS
    <3>2. l \in 1 .. m + 1 - i /\ k \in 1 .. m + 1 - j /\ i + l - 1 = j + k - 1
      BY <2>1, <2>2, <2>5, <3>1
    <3>3. s[l] = text[i + l - 1] /\ rest[k] = text[j + k - 1]
      BY <2>3, <2>4, <3>2
    <3> QED
      BY <3>1, <3>2, <3>3
  <2> QED
    BY <2>3, <2>4, <2>5, <2>6, <2>7
<1>3. TokenLoop!Loop(0, 0, d, s) = TokenLoop!Loop(0, 0, TokenTurn(d, s[1]), rest)
  BY SMTT(30), <1>2, TokenLoop!LoopFirst
<1>4. Depth(d, s) = Depth(TokenTurn(d, text[i]), rest)
  BY <1>2, <1>3, DepthIsTokenLoop
<1> QED
  BY <1>1, <1>4

LEMMA TurnsOfDepth ==
    ASSUME NEW d, NEW token
    PROVE  /\ token = "{" => TokenTurn(d, token) = d + 1
           /\ token = "}" /\ d > 0 => TokenTurn(d, token) = d - 1
           /\ token = "}" /\ ~(d > 0) => TokenTurn(d, token) = d
           /\ ~IsBrace(token) => TokenTurn(d, token) = d
BY DEF TokenTurn, OfValue, IsBrace

\* Tokens that are no braces do not count.
LEMMA DepthBetween ==
    ASSUME NEW d, NEW text, IsSequence(text), NEW p \in 1 .. Len(text) + 1, NEW r \in p .. Len(text) + 1,
           \A k \in p .. r - 1 : ~IsBrace(text[k])
    PROVE  Depth(d, From(text, p)) = Depth(d, From(text, r))
<1> DEFINE T == {k \in Nat : p + k <= r => Depth(d, From(text, p)) = Depth(d, From(text, p + k))}
<1>1. Len(text) \in Nat /\ p \in Nat \ {0} /\ r \in Nat
  BY SequenceFacts
<1>2. 0 \in T
  <2>1. p + 0 = p /\ 0 \in Nat
    BY <1>1
  <2> QED
    BY <2>1
<1>3. ASSUME NEW k \in Nat, k \in T PROVE k + 1 \in T
  <2> SUFFICES ASSUME p + (k + 1) <= r PROVE Depth(d, From(text, p)) = Depth(d, From(text, p + (k + 1)))
    OBVIOUS
  <2>1. PICK m, rest : m = p + k /\ rest = From(text, m + 1)
    OBVIOUS
  <2>2. m \in 1 .. Len(text) /\ m \in p .. r - 1 /\ p + (k + 1) = m + 1 /\ p + k <= r
    BY <1>1, <2>1, SMT
  <2>3. ~IsBrace(text[m])
    BY <2>2
  <2>4. Depth(d, From(text, m)) = Depth(d, rest)
    <3>1. Depth(d, From(text, m)) = Depth(TokenTurn(d, text[m]), rest)
      BY <2>1, <2>2, DepthOfFirst
    <3>2. TokenTurn(d, text[m]) = d
      BY <2>3, TurnsOfDepth
    <3> QED
      BY <3>1, <3>2
  <2>5. Depth(d, From(text, p)) = Depth(d, From(text, m))
    BY <1>3, <2>1, <2>2
  <2> QED
    BY <2>1, <2>2, <2>4, <2>5
<1> HIDE DEF T
<1>4. PICK n : n = r - p /\ n \in Nat /\ p + n = r /\ p + n <= r
  <2>1. PICK n : n = r - p
    OBVIOUS
  <2>2. n \in Nat /\ p + n = r /\ p + n <= r
    BY <1>1, <2>1
  <2> QED
    BY <2>1, <2>2
<1>5. n \in T
  BY <1>2, <1>3, <1>4, SetInduction
<1> QED
  BY <1>4, <1>5 DEF T

\* At the end of a text nothing is left to count.
LEMMA DepthOfNothing == ASSUME NEW d PROVE Depth(d, <<>>) = d
BY DepthIsTokenLoop, TokenLoop!LoopOfNone

-----------------------------------------------------------------------------
(* Stacks of blocks whose braces were seen.                                *)

IsOpen(b) == "seen_open_brace" \in DOMAIN b /\ b.seen_open_brace = TRUE
IsWaiting(b) == "seen_open_brace" \in DOMAIN b /\ b.seen_open_brace = FALSE
AllSeen(stack) == IsSequence(stack) /\ \A i \in DOMAIN stack : IsOpen(stack[i])

\* One more on top of a stack.
LEMMA TopOfAppend ==
    ASSUME NEW s, IsSequence(s), NEW b
    PROVE  /\ IsSequence(Append(s, b)) /\ Append(s, b) # <<>> /\ Len(Append(s, b)) = Len(s) + 1
           /\ Front(Append(s, b)) = s /\ Last(Append(s, b)) = b
           /\ \A c : [Append(s, b) EXCEPT ![Len(Append(s, b))] = c] = Append(s, c)
<1>1. PICK S : S = Range(s) \cup {b}
  OBVIOUS
<1>2. Range(s) \subseteq S /\ b \in S
  BY <1>1
<1>3. s \in Seq(S)
  BY <1>2, SeqMonotonic DEF IsSequence
<1>4. PICK t, n : t = Append(s, b) /\ n = Len(s) + 1 /\ n \in Nat \ {0}
  <2>1. Len(s) + 1 \in Nat \ {0}
    BY <1>3
  <2> QED
    BY <2>1
<1>5. /\ t \in Seq(S) /\ t # <<>> /\ Len(t) = n /\ t[n] = b /\ DOMAIN t = 1 .. n
      /\ \A i \in 1 .. n - 1 : t[i] = s[i]
  BY <1>2, <1>3, <1>4
<1>6. IsSequence(t) /\ IsSequence(Front(t)) /\ Len(Front(t)) = n - 1
      /\ \A i \in 1 .. n - 1 : Front(t)[i] = t[i]
  <2>1. IsSequence(t)
    BY <1>5, SequenceOver
  <2> QED
    BY <1>5, <2>1, SequenceFront
<1>7. Front(t) = s
  <2>1. Len(s) = n - 1
    BY <1>3, <1>4
  <2>2. \A i \in 1 .. n - 1 : Front(t)[i] = s[i]
    BY <1>5, <1>6
  <2> QED
    BY <1>6, <2>1, <2>2, SameSequence
<1>8. Last(t) = b
  BY <1>5 DEF Last
<1>9. ASSUME NEW c PROVE [t EXCEPT ![n] = c] = Append(s, c)
  <2>1. PICK u, v : u = [t EXCEPT ![n] = c] /\ v = Append(s, c)
    OBVIOUS
  <2>2. /\ IsSequence(v) /\ DOMAIN v = 1 .. Len(s) + 1 /\ v[Len(s) + 1] = c
        /\ \A i \in 1 .. Len(s) : v[i] = s[i]
    BY <2>1, SequenceAppend
  <2>3. Len(s) + 1 = n /\ Len(s) = n - 1
    BY <1>3, <1>4
  <2>4. DOMAIN u = 1 .. n /\ u[n] = c /\ \A i \in 1 .. n - 1 : u[i] = s[i]
    <3>1. n \in 1 .. n /\ \A i \in 1 .. n - 1 : i \in 1 .. n /\ i # n
      BY <1>4
    <3> QED
      BY <1>5, <2>1, <3>1
  <2>5. \A i \in 1 .. n : i = n \/ i \in 1 .. n - 1
    BY <1>4
  <2>6. \A i \in 1 .. n : u[i] = v[i]
    BY <2>2, <2>3, <2>4, <2>5
  <2>7. u = [i \in 1 .. n |-> u[i]] /\ v = [i \in 1 .. n |-> v[i]]
    <3>1. v = [i \in DOMAIN v |-> v[i]]
      BY <2>2 DEF IsSequence
    <3>2. u = [i \in DOMAIN u |-> u[i]]
      BY <1>5, <2>1
    <3> QED
      BY <2>2, <2>3, <2>4, <3>1, <3>2
  <2> QED
    BY <2>1, <2>6, <2>7
<1> QED
  BY <1>4, <1>5, <1>6, <1>7, <1>8, <1>9

\* A block opened, closed or changed.
LEMMA SeenAppend ==
    ASSUME NEW s, AllSeen(s), NEW b, IsOpen(b)
    PROVE  AllSeen(Append(s, b))
<1>1. PICK t : t = Append(s, b)
  OBVIOUS
<1>2. /\ IsSequence(t) /\ DOMAIN t = 1 .. Len(s) + 1 /\ t[Len(s) + 1] = b
      /\ \A i \in 1 .. Len(s) : t[i] = s[i]
      /\ Len(s) \in Nat /\ DOMAIN s = 1 .. Len(s)
  BY <1>1, SequenceAppend, SequenceFacts DEF AllSeen
<1>3. \A i \in DOMAIN t : IsOpen(t[i])
  BY <1>2 DEF AllSeen
<1> QED
  BY <1>1, <1>2, <1>3 DEF AllSeen

LEMMA SeenFront ==
    ASSUME NEW s, AllSeen(s), s # <<>>
    PROVE  /\ AllSeen(Front(s)) /\ Len(Front(s)) = Len(s) - 1
           /\ Len(s) \in Nat /\ Len(s) > 0 /\ IsOpen(Last(s))
<1>1. PICK t : t = Front(s)
  OBVIOUS
<1>2. /\ IsSequence(t) /\ DOMAIN t = 1 .. Len(t) /\ Len(t) = Len(s) - 1
      /\ \A i \in 1 .. Len(s) - 1 : t[i] = s[i]
      /\ Len(s) \in Nat /\ DOMAIN s = 1 .. Len(s) /\ Len(s) \in DOMAIN s
  BY <1>1, SequenceFront, SequenceFacts DEF AllSeen
<1>3. \A i \in DOMAIN t : IsOpen(t[i])
  BY <1>2 DEF AllSeen
<1>4. IsOpen(Last(s))
  BY <1>2 DEF AllSeen, Last
<1> QED
  BY <1>1, <1>2, <1>3, <1>4 DEF AllSeen

LEMMA SeenExcept ==
    ASSUME NEW s, AllSeen(s), NEW i, NEW b, IsOpen(b)
    PROVE  AllSeen([s EXCEPT ![i] = b]) /\ Len([s EXCEPT ![i] = b]) = Len(s)
<1>1. PICK t : t = [s EXCEPT ![i] = b]
  OBVIOUS
<1>2. PICK n : n = Len(s) /\ n \in Nat /\ DOMAIN s = 1 .. n
  BY SequenceFacts DEF AllSeen
<1>3. PICK S : S = Range(s) \cup {b}
  OBVIOUS
<1>4. t \in [1 .. n -> S]
  BY <1>1, <1>2, <1>3 DEF Range, AllSeen, IsSequence
<1>5. \A k \in DOMAIN t : IsOpen(t[k])
  BY <1>1 DEF AllSeen
<1>6. IsSequence(t) /\ Len(t) = n
  BY <1>2, <1>4, SequenceFromFunction
<1> QED
  BY <1>1, <1>2, <1>5, <1>6 DEF AllSeen

-----------------------------------------------------------------------------
(* Heads.                                                                  *)

IsEnd(token) == token \in {"{", ";", "}"}
Separates(token) == token \in {"<", ","}
StartsFresh(text, p) == ~Separates(At(text, p - 1))

\* What every head needs on its line: see HeadsEndOnTheirLines.
HeadsEnd(text) ==
    \A k \in DOMAIN text : IsHead(text, k) =>
        LET ends == {l \in k + 1 .. Len(text) :
                        text[l] \in {"{", ";", "}"} \/ IsHead(text, l)}
        IN  /\ ends # {}
            /\ \/ text[Min(ends)] = "{"
               \/ text[Min(ends)] = ";" /\ ~Has("{", From(text, k))

\* From p on, a brace or the semicolon of a declaration comes first.
Waits(text, p, l) ==
    /\ l \in p .. Len(text) /\ text[l] \in {"{", ";"}
    /\ \A j \in p .. l - 1 : ~IsEnd(text[j])
HeadWaits(text, p, l) ==
    /\ Waits(text, p, l)
    /\ \A j \in p .. l - 1 : ~IsHead(text, j)
    /\ text[l] = ";" => \A j \in p .. Len(text) : text[j] # "{"

LEMMA HeadFinds ==
    ASSUME NEW text, IsSequence(text), HeadsEnd(text), NEW k \in 1 .. Len(text), IsHead(text, k)
    PROVE  \E l : HeadWaits(text, k + 1, l)
<1> DEFINE ends == {l \in k + 1 .. Len(text) : text[l] \in {"{", ";", "}"} \/ IsHead(text, l)}
<1>1. Len(text) \in Nat /\ DOMAIN text = 1 .. Len(text) /\ k \in Nat
  BY SequenceFacts
<1>2. /\ ends # {}
      /\ \/ text[Min(ends)] = "{"
         \/ text[Min(ends)] = ";" /\ ~Has("{", From(text, k))
  BY <1>1 DEF HeadsEnd
<1>3. PICK l : l = Min(ends)
  OBVIOUS
<1>4. l \in ends /\ \A x \in ends : l <= x
  <2>1. ends \in SUBSET Nat
    <3>1. k + 1 .. Len(text) \in SUBSET Nat
      BY <1>1
    <3> HIDE DEF IsHead
    <3> QED
      BY <3>1
  <2> HIDE DEF ends
  <2> QED
    BY <1>2, <1>3, <2>1, MinOfNumbers
<1>5. l \in k + 1 .. Len(text)
  BY <1>4
<1>6. ASSUME NEW j \in k + 1 .. l - 1 PROVE ~IsEnd(text[j]) /\ ~IsHead(text, j)
  <2>1. j \in k + 1 .. Len(text) /\ ~(l <= j)
    BY <1>1, <1>5
  <2>2. j \notin ends
    BY <1>4, <2>1
  <2> HIDE DEF IsHead
  <2> QED
    BY <2>1, <2>2 DEF IsEnd
<1>7. ASSUME ~Has("{", From(text, k)), NEW j \in k + 1 .. Len(text) PROVE text[j] # "{"
  <2>1. PICK rest, i : rest = From(text, k) /\ i = j - k + 1
    OBVIOUS
  <2>2. k \in 1 .. Len(text) + 1
    BY <1>1
  <2>3. IsRest(rest, text, k)
    BY <2>1, <2>2, FromFacts
  <2>4. i \in 1 .. Len(rest) /\ rest[i] = text[k + i - 1] /\ k + i - 1 = j
    <3>1. i \in 1 .. Len(text) + 1 - k /\ k + i - 1 = j
      BY <1>1, <2>1
    <3> QED
      BY <2>3, <3>1 DEF IsRest
  <2>5. rest[i] # "{"
    BY <1>7, <2>1, <2>4 DEF Has, Contains
  <2> QED
    BY <2>4, <2>5
<1> HIDE DEF ends, IsHead
<1> QED
  BY <1>2, <1>3, <1>5, <1>6, <1>7 DEF HeadWaits, Waits

\* A position is fresh behind any token but < and a comma; the first position is.
LEMMA FreshAfter ==
    ASSUME NEW text, IsSequence(text), NEW p \in 1 .. Len(text), ~Separates(text[p])
    PROVE  StartsFresh(text, p + 1)
<1>1. (p + 1) - 1 = p /\ p \in DOMAIN text
  <2>1. Len(text) \in Nat /\ DOMAIN text = 1 .. Len(text)
    BY SequenceFacts
  <2> QED
    BY <2>1
<1>2. At(text, p) = text[p]
  BY <1>1, Zenon DEF At
<1> QED
  BY <1>1, <1>2 DEF StartsFresh

LEMMA FreshFirst == ASSUME NEW text, IsSequence(text) PROVE StartsFresh(text, 1)
<1>1. 1 - 1 = 0 /\ 0 \notin DOMAIN text
  BY SequenceFacts
<1>2. At(text, 0) = ""
  BY <1>1, Zenon DEF At
<1>3. ~Separates(At(text, 0))
  BY <1>2, Zenon DEF Separates
<1> QED
  BY <1>1, <1>3, Zenon DEF StartsFresh

LEMMA HeadHere ==
    ASSUME NEW text, NEW p, text[p] \in {"namespace", "class", "struct"}, StartsFresh(text, p)
    PROVE  IsHead(text, p)
BY DEF IsHead, StartsFresh, Separates

\* Nothing that a head needs is a word, and no word is a mark.
LEMMA WordFacts ==
    ASSUME NEW token, IsWord(token)
    PROVE  ~IsBrace(token) /\ ~IsEnd(token) /\ ~Separates(token) /\ token # ""
<1>1. token \notin SingleCharacters /\ token # ""
  BY Zenon DEF IsWord, Punctuation
<1>2. ~IsBrace(token) /\ ~IsEnd(token) /\ ~Separates(token)
  <2>1. {"{", "}", ";", "<", ","} \subseteq SingleCharacters
    BY Zenon DEF SingleCharacters, Opening, Closing
  <2>2. token \notin SingleCharacters
    BY <1>1
  <2> QED
    BY <2>1, <2>2, Zenon DEF IsBrace, IsEnd, Separates
<1> QED
  BY <1>1, <1>2, Zenon

LEMMA KeywordFacts ==
    \A token \in {"namespace", "class", "struct"} :
        ~IsBrace(token) /\ ~IsEnd(token) /\ ~Separates(token)
BY DEF IsBrace, IsEnd, Separates

\* The first brace of a text, found by counting its positions.
FirstBrace(text) == SelectInSeq(text, LAMBDA t : t = "{")
LEMMA BracePosition ==
    ASSUME NEW text, IsSequence(text)
    PROVE  /\ (\A i \in 1 .. Len(text) : text[i] # "{") => FirstBrace(text) = 0
           /\ \A i \in 1 .. Len(text) :
                (text[i] = "{" /\ \A j \in 1 .. i - 1 : text[j] # "{") => FirstBrace(text) = i
<1> DEFINE found == {i \in 1 .. Len(text) : text[i] = "{"}
           brace == FirstBrace(text)
<1>1. brace = IF found # {} THEN Min(found) ELSE 0
  BY Zenon DEF SelectInSeq, FirstBrace
<1> HIDE DEF brace
<1>2. Len(text) \in Nat /\ found \in SUBSET Nat
  <2>1. Len(text) \in Nat
    BY SequenceFacts
  <2>2. 1 .. Len(text) \subseteq Nat
    BY <2>1
  <2>3. found \subseteq 1 .. Len(text)
    BY Zenon
  <2> HIDE DEF found
  <2> QED
    BY <2>1, <2>2, <2>3, Zenon
<1>3. found # {} => brace \in found /\ \A x \in found : brace <= x
  <2> HIDE DEF found
  <2> QED
    BY <1>1, <1>2, MinOfNumbers
<1>4. ASSUME NEW i \in 1 .. Len(text), text[i] = "{", \A j \in 1 .. i - 1 : text[j] # "{"
      PROVE  brace = i
  <2>1. i \in found
    BY <1>4
  <2>2. brace \in found /\ brace <= i
    BY <1>3, <2>1
  <2>3. brace \in 1 .. Len(text) /\ text[brace] = "{"
    BY <2>2
  <2>4. brace \notin 1 .. i - 1
    BY <1>4, <2>3
  <2>5. brace \in 1 .. Len(text)
    BY <2>3
  <2> HIDE DEF found
  <2> QED
    BY <1>2, <2>2, <2>4, <2>5
<1>5. (\A i \in 1 .. Len(text) : text[i] # "{") => found = {}
  OBVIOUS
<1> HIDE DEF found
<1> QED
  BY <1>1, <1>4, <1>5 DEF brace

-----------------------------------------------------------------------------
(* The heads at the beginning of a line.                                   *)

HasStacks(n) == {"stack", "pp_stack"} \subseteq DOMAIN n

\* The blocks whose braces were seen, and the rest of the text, come to the depth that
\* the line comes to; a block more waits for its brace only if that stands further on.
Stands(text, target, stack, p) ==
    \E below :
        /\ AllSeen(below) /\ Depth(Len(below), From(text, p)) = target
        /\ \/ stack = below
           \/ \E b, l : stack = Append(below, b) /\ IsWaiting(b) /\ HeadWaits(text, p, l)
HeadState(q, s) ==
    /\ {"nesting", "text"} \subseteq DOMAIN s
    /\ HasStacks(s.nesting) /\ s.nesting.pp_stack = q.pp_stack
    /\ \E p \in 1 .. Len(q.text) + 1 :
            /\ s.text = From(q.text, p) /\ StartsFresh(q.text, p)
            /\ Stands(q.text, q.target, s.nesting.stack, p)

LEMMA PushBlockStacks ==
    ASSUME NEW n, HasStacks(n), NEW b
    PROVE  /\ HasStacks(PushBlock(n, b)) /\ PushBlock(n, b).stack = Append(n.stack, b)
           /\ PushBlock(n, b).pp_stack = n.pp_stack
BY DEF HasStacks, PushBlock

\* Where no head stands a head may wait, and none waits in front of a head.
LEMMA NoneWaits ==
    ASSUME NEW text, NEW p \in Nat, NEW l, HeadWaits(text, p, l), Len(text) \in Nat,
           NEW k \in p .. Len(text), IsHead(text, k), \A j \in p .. k : ~IsEnd(text[j])
    PROVE  FALSE
<1>1. l \in p .. Len(text) /\ IsEnd(text[l]) /\ \A j \in p .. l - 1 : ~IsHead(text, j)
  BY DEF HeadWaits, Waits, IsEnd
<1>2. l \notin p .. k
  BY <1>1
<1>3. k \in p .. l - 1
  BY <1>1, <1>2
<1> QED
  BY <1>1, <1>3

\* What waits from p on waits from every position up to it.
LEMMA WaitsFurther ==
    ASSUME NEW text, NEW p \in Nat, NEW l, HeadWaits(text, p, l), Len(text) \in Nat, NEW r \in p .. l
    PROVE  HeadWaits(text, r, l)
<1>1. l \in p .. Len(text)
  BY DEF HeadWaits, Waits
<1>2. l \in r .. Len(text) /\ r .. l - 1 \subseteq p .. l - 1 /\ r .. Len(text) \subseteq p .. Len(text)
  BY <1>1
<1> QED
  BY <1>2 DEF HeadWaits, Waits

\* An opening brace behind tokens that are no braces.
LEMMA DepthOfOpening ==
    ASSUME NEW d, NEW text, IsSequence(text), NEW p \in 1 .. Len(text), NEW l \in p .. Len(text),
           \A j \in p .. l - 1 : ~IsBrace(text[j])
    PROVE  Depth(d, From(text, p)) = Depth(TokenTurn(d, text[l]), From(text, l + 1))
<1>1. Len(text) \in Nat
  BY SequenceFacts
<1>2. p \in 1 .. Len(text) + 1 /\ l \in p .. Len(text) + 1 /\ l \in 1 .. Len(text)
  BY <1>1
<1>3. Depth(d, From(text, p)) = Depth(d, From(text, l))
  BY <1>2, DepthBetween
<1>4. Depth(d, From(text, l)) = Depth(TokenTurn(d, text[l]), From(text, l + 1))
  BY <1>2, DepthOfFirst
<1> QED
  BY <1>3, <1>4

\* The tokens of a head do not count; the brace that it waits for does.
LEMMA HeadDoesNotCount ==
    ASSUME NEW text, IsSequence(text), NEW d, NEW p \in 1 .. Len(text),
           NEW r \in p .. Len(text) + 1, \A j \in p .. r - 1 : ~IsBrace(text[j])
    PROVE  Depth(d, From(text, r)) = Depth(d, From(text, p))
<1>1. Len(text) \in Nat
  BY SequenceFacts
<1>2. p \in 1 .. Len(text) + 1
  BY <1>1
<1> QED
  BY <1>2, DepthBetween

LEMMA BraceCounts ==
    ASSUME NEW text, IsSequence(text), NEW d, NEW r \in 1 .. Len(text), NEW l \in r .. Len(text),
           \A j \in r .. l - 1 : ~IsEnd(text[j]), text[l] = "{"
    PROVE  Depth(d + 1, From(text, l + 1)) = Depth(d, From(text, r))
<1>1. \A j \in r .. l - 1 : ~IsBrace(text[j])
  BY DEF IsEnd, IsBrace
<1>2. Depth(d, From(text, r)) = Depth(TokenTurn(d, text[l]), From(text, l + 1))
  BY ONLY IsSequence(text), r \in 1 .. Len(text), l \in r .. Len(text), <1>1, DepthOfOpening
<1>3. TokenTurn(d, text[l]) = d + 1
  BY TurnsOfDepth
<1> QED
  BY <1>2, <1>3

\* Where a token of a rest stands in the text.
IsToken(token) == token # ""
LEMMA FirstOfRest ==
    ASSUME NEW text, IsSequence(text), NEW p \in 1 .. Len(text) + 1, NEW rest, rest = From(text, p),
           NEW i \in Nat \ {0}, NEW token, At(rest, i) = token, IsToken(token)
    PROVE  i \in 1 .. Len(rest) /\ p + i - 1 \in p .. Len(text) /\ text[p + i - 1] = token
           /\ rest[i] = token
<1>1. IsRest(rest, text, p)
  BY FromFacts
<1>2. i \in DOMAIN rest /\ rest[i] = token
  BY Zenon DEF At, IsToken
<1>3. i \in 1 .. Len(rest) /\ Len(rest) = Len(text) + 1 - p /\ Len(text) \in Nat
      /\ rest[i] = text[p + i - 1]
  BY <1>1, <1>2 DEF IsRest
<1>4. p + i - 1 \in p .. Len(text)
  BY <1>3
<1> QED
  BY <1>2, <1>3, <1>4, Zenon

\* A namespace at the beginning of the rest.
LEMMA NamespaceHead ==
    ASSUME NEW text, IsSequence(text), HeadsEnd(text), NEW p \in 1 .. Len(text) + 1,
           StartsFresh(text, p), NEW rest, rest = From(text, p), At(rest, 1) = "namespace",
           NEW target, NEW stack, Stands(text, target, stack, p),
           NEW r, r = IF IsWord(At(rest, 2)) THEN p + 2 ELSE p + 1
    PROVE  /\ AllSeen(stack) /\ Depth(Len(stack), From(text, p)) = target
           /\ p \in 1 .. Len(text) /\ r \in p + 1 .. Len(text) + 1
           /\ StartsFresh(text, r)
           /\ \A j \in p .. r - 1 : ~IsBrace(text[j])
           /\ \E l : HeadWaits(text, r, l)
<1>1. Len(text) \in Nat
  BY SequenceFacts
<1>2. p \in 1 .. Len(text) /\ text[p] = "namespace"
  <2>1. IsToken("namespace")
    BY Zenon DEF IsToken
  <2>2. p + 1 - 1 \in p .. Len(text) /\ text[p + 1 - 1] = "namespace"
    BY <2>1, FirstOfRest
  <2>3. p + 1 - 1 = p
    BY <1>1
  <2> QED
    BY <2>2, <2>3
<1>3. IsHead(text, p) /\ ~IsEnd(text[p]) /\ ~IsBrace(text[p]) /\ ~Separates(text[p])
  BY <1>2, HeadHere, KeywordFacts
<1>4. AllSeen(stack) /\ Depth(Len(stack), From(text, p)) = target
  <2>1. ASSUME NEW l, HeadWaits(text, p, l) PROVE FALSE
    <3>1. p \in Nat /\ p \in p .. Len(text) /\ \A j \in p .. p : ~IsEnd(text[j])
      BY <1>1, <1>2, <1>3
    <3> QED
      BY <1>1, <1>3, <2>1, <3>1, NoneWaits
  <2> QED
    BY <2>1 DEF Stands
<1>5. PICK l : HeadWaits(text, p + 1, l)
  BY <1>2, <1>3, HeadFinds
<1>6. l \in p + 1 .. Len(text) /\ IsEnd(text[l])
  BY <1>5 DEF HeadWaits, Waits, IsEnd
<1>7. CASE ~IsWord(At(rest, 2))
  <2>1. r = p + 1 /\ r \in p + 1 .. Len(text) + 1
    BY <1>1, <1>2, <1>7
  <2>2. \A j \in p .. r - 1 : j = p
    BY <1>1, <1>2, <2>1
  <2>3. StartsFresh(text, r)
    BY <1>2, <1>3, <2>1, FreshAfter
  <2> QED
    BY <1>2, <1>3, <1>4, <1>5, <2>1, <2>2, <2>3
<1>8. CASE IsWord(At(rest, 2))
  <2>1. PICK token : token = At(rest, 2)
    OBVIOUS
  <2>2. IsToken(token) /\ ~IsBrace(token) /\ ~IsEnd(token) /\ ~Separates(token)
    BY <1>8, <2>1, WordFacts, Zenon DEF IsToken
  <2>3. p + 2 - 1 \in p .. Len(text) /\ text[p + 2 - 1] = token
    BY <2>1, <2>2, FirstOfRest
  <2>4. p + 2 - 1 = p + 1 /\ r = (p + 1) + 1 /\ r \in p + 1 .. Len(text) + 1 /\ p + 1 \in 1 .. Len(text)
    <3>1. p + 2 - 1 = p + 1 /\ r = (p + 1) + 1
      BY <1>1, <1>2, <1>8
    <3>2. p + 1 \in p .. Len(text)
      BY <2>3, <3>1
    <3> QED
      BY <1>1, <1>2, <3>1, <3>2
  <2>5. text[p + 1] = token
    BY <2>3, <2>4
  <2>6. \A j \in p .. r - 1 : j = p \/ j = p + 1
    BY <1>1, <1>2, <2>4
  <2>7. StartsFresh(text, r)
    BY <2>2, <2>4, <2>5, FreshAfter
  <2>8. l # p + 1
    BY <1>6, <2>2, <2>5
  <2>9. r \in p + 1 .. l /\ p + 1 \in Nat
    BY <1>1, <1>6, <2>4, <2>8
  <2>10. HeadWaits(text, r, l)
    BY <1>1, <1>5, <2>9, WaitsFurther
  <2> QED
    BY <1>2, <1>3, <1>4, <2>2, <2>4, <2>5, <2>6, <2>7, <2>10
<1> QED
  BY <1>7, <1>8

LEMMA HeadStateAt ==
    ASSUME NEW q, NEW n, HasStacks(n), n.pp_stack = q.pp_stack, NEW p \in 1 .. Len(q.text) + 1,
           NEW rest, rest = From(q.text, p), StartsFresh(q.text, p),
           Stands(q.text, q.target, n.stack, p)
    PROVE  HeadState(q, [nesting |-> n, text |-> rest])
BY DEF HeadState

\* A namespace taken off the line.
LEMMA ConsumeNamespaceStands ==
    ASSUME NEW q, IsSequence(q.text), HeadsEnd(q.text), NEW s, HeadState(q, s), NEW ln
    PROVE  HeadState(q, ConsumeNamespace(s, ln))
<1>1. PICK text, target : text = q.text /\ target = q.target
  OBVIOUS
<1>2. PICK p \in 1 .. Len(text) + 1 :
        s.text = From(text, p) /\ StartsFresh(text, p) /\ Stands(text, target, s.nesting.stack, p)
  BY <1>1 DEF HeadState
<1>3. Len(text) \in Nat /\ IsSequence(text) /\ HeadsEnd(text)
  BY <1>1, SequenceFacts
<1> DEFINE named == IsWord(At(s.text, 2))
           rest == From(s.text, IF named THEN 3 ELSE 2)
           brace == FirstBrace(rest)
           namespace == [NamespaceInfo(ln, IF named THEN s.text[2] ELSE "")
                           EXCEPT !.seen_open_brace = brace # 0]
           left == IF brace = 0 THEN rest ELSE From(rest, brace + 1)
<1>4. ConsumeNamespace(s, ln) =
        IF At(s.text, 1) # "namespace" THEN s
        ELSE [nesting |-> PushBlock(s.nesting, namespace), text |-> left]
  BY Zenon DEF ConsumeNamespace, FirstBrace
<1>5. CASE At(s.text, 1) # "namespace"
  BY <1>4, <1>5
<1>6. CASE At(s.text, 1) = "namespace"
  <2>1. PICK stack, r : stack = s.nesting.stack /\ r = IF named THEN p + 2 ELSE p + 1
    OBVIOUS
  <2>2. /\ AllSeen(stack) /\ Depth(Len(stack), From(text, p)) = target
        /\ p \in 1 .. Len(text) /\ r \in p + 1 .. Len(text) + 1
        /\ StartsFresh(text, r)
        /\ \A j \in p .. r - 1 : ~IsBrace(text[j])
        /\ \E l : HeadWaits(text, r, l)
    BY <1>2, <1>3, <1>6, <2>1, NamespaceHead
  <2>3. PICK l : HeadWaits(text, r, l)
    BY <2>2
  <2>4. rest = From(text, r)
    <3>1. PICK i : i = IF named THEN 3 ELSE 2
      OBVIOUS
    <3>2. Len(s.text) = Len(text) + 1 - p
      BY <1>2, <1>3, FromFacts DEF IsRest
    <3>3. i \in 1 .. Len(s.text) + 1 /\ r = p + i - 1
      BY <1>3, <2>1, <2>2, <3>1, <3>2
    <3> QED
      BY <1>2, <1>3, <3>1, <3>3, FromFrom
  <2> HIDE DEF rest, brace, named
  <2>5. /\ IsRest(rest, text, r) /\ r \in 1 .. Len(text) + 1 /\ r \in p .. Len(text) + 1
    <3>1. r \in 1 .. Len(text) + 1 /\ r \in p .. Len(text) + 1
      BY <1>3, <2>2
    <3> QED
      BY <1>3, <2>4, <3>1, FromFacts
  <2>15. l \in r .. Len(text) /\ l \in Nat /\ r \in Nat /\ p \in Nat
    <3>1. l \in r .. Len(text)
      BY <2>3 DEF HeadWaits, Waits
    <3> QED
      BY <1>3, <2>5, <3>1
  <2>6. /\ Depth(Len(stack), From(text, r)) = target
        /\ text[l] = "{" => Depth(Len(stack) + 1, From(text, l + 1)) = target
    <3>1. Depth(Len(stack), From(text, r)) = Depth(Len(stack), From(text, p))
      BY <1>3, <2>2, <2>5, HeadDoesNotCount
    <3>2. r \in 1 .. Len(text) /\ \A j \in r .. l - 1 : ~IsEnd(text[j])
      <4>1. r \in 1 .. Len(text)
        BY <1>3, <2>5, <2>15
      <4> QED
        BY <2>3, <4>1 DEF HeadWaits, Waits
    <3>3. ASSUME text[l] = "{"
          PROVE  Depth(Len(stack) + 1, From(text, l + 1)) = Depth(Len(stack), From(text, r))
      BY <1>3, <2>15, <3>2, <3>3, BraceCounts
    <3> QED
      BY <2>2, <3>1, <3>3
  <2>7. PICK block : block = namespace
    OBVIOUS
  <2>8. IF brace = 0 THEN IsWaiting(block) ELSE IsOpen(block)
    BY <2>7 DEF IsWaiting, IsOpen, NamespaceInfo, Block
  <2> HIDE DEF namespace
  <2>9. PICK n, pushed : n = PushBlock(s.nesting, block) /\ pushed = [nesting |-> n, text |-> left]
    OBVIOUS
  <2>10. ConsumeNamespace(s, ln) = pushed
    BY <1>4, <1>6, <2>7, <2>9
  <2>11. HasStacks(n) /\ n.stack = Append(stack, block) /\ n.pp_stack = q.pp_stack
    BY <2>1, <2>9, PushBlockStacks DEF HeadState
  <2> HIDE DEF left
  <2>12. CASE text[l] = "{"
    <3>1. PICK i : i = l - r + 1
      OBVIOUS
    <3>2. i \in 1 .. Len(rest) /\ rest[i] = text[l]
      <4>1. i \in 1 .. Len(text) + 1 - r /\ r + i - 1 = l
        BY <1>3, <2>15, <3>1
      <4> QED
        BY <2>5, <4>1 DEF IsRest
    <3>3. ASSUME NEW j \in 1 .. i - 1 PROVE rest[j] # "{"
      <4>1. j \in 1 .. Len(rest) /\ r + j - 1 \in r .. l - 1
        <5>1. i \in 1 .. Len(text) + 1 - r /\ Len(rest) = Len(text) + 1 - r
          BY <2>5, <3>2 DEF IsRest
        <5> QED
          BY <1>3, <2>15, <3>1, <5>1
      <4>2. rest[j] = text[r + j - 1]
        BY <2>5, <4>1 DEF IsRest
      <4>3. ~IsEnd(text[r + j - 1])
        BY <2>3, <4>1 DEF HeadWaits, Waits
      <4> QED
        BY <4>2, <4>3 DEF IsEnd
    <3>4. brace = i /\ brace # 0
      <4>1. IsSequence(rest)
        BY <2>5 DEF IsRest
      <4>2. FirstBrace(rest) = i
        BY <2>12, <3>2, <3>3, <4>1, BracePosition
      <4>3. i # 0
        BY <3>2
      <4> QED
        BY <4>2, <4>3 DEF brace
    <3>5. left = From(text, l + 1) /\ l + 1 \in 1 .. Len(text) + 1
      <4>1. i + 1 \in 1 .. Len(rest) + 1 /\ r + (i + 1) - 1 = l + 1
        <5>1. Len(rest) \in Nat
          BY <1>3, <2>5 DEF IsRest
        <5>2. i \in 1 .. Len(rest)
          BY <3>2
        <5> QED
          BY <2>15, <3>1, <5>1, <5>2
      <4>2. From(rest, i + 1) = From(text, l + 1) /\ l + 1 \in 1 .. Len(text) + 1
        BY <1>3, <2>4, <2>5, <4>1, FromFrom
      <4> QED
        BY <3>4, <4>2 DEF left
    <3>6. StartsFresh(text, l + 1)
      <4>1. l \in 1 .. Len(text)
        BY <1>3, <2>5, <2>15
      <4>2. ~Separates(text[l])
        BY <2>12 DEF Separates
      <4> QED
        BY <1>3, <4>1, <4>2, FreshAfter
    <3>7. AllSeen(n.stack) /\ Len(n.stack) = Len(stack) + 1
      BY <2>2, <2>8, <2>11, <3>4, SeenAppend, TopOfAppend DEF AllSeen
    <3>8. Stands(text, target, n.stack, l + 1)
      BY <2>6, <2>12, <3>7 DEF Stands
    <3> QED
      BY <1>1, <2>9, <2>10, <2>11, <3>5, <3>6, <3>8, HeadStateAt
  <2>13. CASE text[l] = ";"
    <3>1. ASSUME NEW j \in 1 .. Len(rest) PROVE rest[j] # "{"
      <4>1. r + j - 1 \in r .. Len(text) /\ rest[j] = text[r + j - 1]
        <5>1. Len(rest) = Len(text) + 1 - r /\ rest[j] = text[r + j - 1]
          BY <2>5 DEF IsRest
        <5> QED
          BY <1>3, <2>2, <5>1
      <4> QED
        BY <2>3, <2>13, <4>1 DEF HeadWaits
    <3>2. brace = 0
      <4>1. IsSequence(rest)
        BY <2>5 DEF IsRest
      <4> QED
        BY <3>1, <4>1, BracePosition DEF brace
    <3>3. left = From(text, r)
      BY <2>4, <3>2 DEF left
    <3>4. Stands(text, target, n.stack, r)
      BY <2>2, <2>3, <2>6, <2>8, <2>11, <3>2 DEF Stands
    <3> QED
      BY <1>1, <2>2, <2>5, <2>9, <2>10, <2>11, <3>3, <3>4, HeadStateAt
  <2>14. text[l] = "{" \/ text[l] = ";"
    BY <2>3 DEF HeadWaits, Waits
  <2> QED
    BY <2>12, <2>13, <2>14
<1> QED
  BY <1>5, <1>6

\* All namespaces at the beginning of a line.
HeadLoop == INSTANCE SequenceLemmas WITH
    Step <- LAMBDA ln, q, s, k : NamespaceTurn(ln, s),
    Holds <- LAMBDA ln, q, s, k : HeadState(q, s)

LEMMA ConsumeNamespacesStands ==
    ASSUME NEW q, IsSequence(q.text), HeadsEnd(q.text), NEW n, NEW line,
           Len(line.text) \in Nat, HeadState(q, [nesting |-> n, text |-> line.text]), NEW ln
    PROVE  HeadState(q, ConsumeNamespaces(n, line, ln))
<1> DEFINE start == [nesting |-> n, text |-> line.text]
           turns == [k \in 1 .. Len(line.text) |-> k]
<1>1. turns \in [1 .. Len(line.text) -> Nat]
  OBVIOUS
<1>2. Len(turns) \in Nat /\ DOMAIN turns = 1 .. Len(turns)
  BY <1>1, SequenceFromFunction, SequenceFacts
<1>3. ASSUME NEW s, HeadState(q, s) PROVE HeadState(q, NamespaceTurn(ln, s))
  <2>1. NamespaceTurn(ln, s) = ConsumeNamespace(s, ln)
    BY DEF NamespaceTurn, OfValue
  <2> QED
    BY <1>3, <2>1, ConsumeNamespaceStands
<1>4. ConsumeNamespaces(n, line, ln) = HeadLoop!Loop(ln, q, start, turns)
  <2>1. ConsumeNamespaces(n, line, ln)
          = ForEach(LAMBDA x, k : ConsumeNamespace(x, ln), start, turns)
    BY DEF ConsumeNamespaces, Iterate
  <2>2. ForEach(LAMBDA x, k : ConsumeNamespace(x, ln), start, turns)
          = HeadLoop!Loop(ln, q, start, turns)
    <3> HIDE DEF start, turns
    <3> QED
      BY ZenonT(60) DEF ForEach, OfValue, NamespaceTurn, HeadLoop!Loop,
                   HeadLoop!Largest, FoldLeft, MapThenFoldSet, Max
  <2> QED
    BY <2>1, <2>2, Zenon
<1>5. HeadState(q, start)
  OBVIOUS
<1> HIDE DEF start, turns
<1>6. HeadState(q, HeadLoop!Loop(ln, q, start, turns))
  BY <1>2, <1>3, <1>5, HeadLoop!LoopHolds
<1> QED
  BY <1>4, <1>6

-----------------------------------------------------------------------------
(* The head of a class.                                                    *)

\* The words of a template's list and of macros are no ends.
LEMMA OtherFacts ==
    ASSUME NEW token, token \in {"template", "<", ">", ",", ":", "MACRO", "class", "struct"}
    PROVE  ~IsEnd(token) /\ IsToken(token)
<1>1. ~IsEnd(token)
  BY DEF IsEnd
<1>2. IsToken(token)
  BY Zenon DEF IsToken
<1> QED
  BY <1>1, <1>2

\* What stands up to the name of a class.
LEMMA ClassHeadFacts ==
    ASSUME NEW rest, NEW h \in ClassHeads(rest), NEW n, n = Len(rest), IsSequence(rest)
    PROVE  /\ h[1] \in 1 .. n /\ h[2] \in h[1] + 1 .. n
           /\ rest[h[1]] \in {"class", "struct"}
           /\ h[1] = 1 \/ (h[1] > 3 /\ rest[h[1] - 1] = ">")
           /\ \A i \in 1 .. h[2] : ~IsEnd(rest[i])
<1> DEFINE IsKeyword(k) ==
               /\ rest[k] \in {"class", "struct"}
               /\ \/ k = 1
                  \/ /\ At(rest, 1) = "template" /\ At(rest, 2) = "<"
                     /\ k > 3 /\ rest[k - 1] = ">"
                     /\ \A i \in 3 .. k - 1 :
                           IsWord(rest[i]) \/ rest[i] \in {"<", ">", ",", ":"}
           keywords == {k \in DOMAIN rest : IsKeyword(k)}
           HeadsClass(g) ==
               /\ g[2] > g[1] /\ IsWord(rest[g[2]])
               /\ \A i \in g[1] + 1 .. g[2] - 1 : rest[i] = "MACRO"
<1>1. ClassHeads(rest) = {g \in keywords \X DOMAIN rest : HeadsClass(g)}
  BY Zenon DEF ClassHeads
<1>2. n \in Nat /\ DOMAIN rest = 1 .. n
  BY SequenceFacts
<1>3. HeadsClass(h) /\ h[1] \in keywords /\ h[2] \in DOMAIN rest
  <2> HIDE DEF HeadsClass, keywords
  <2> QED
    BY <1>1
<1>4. PICK k, m : k = h[1] /\ m = h[2]
  OBVIOUS
<1>5. k \in 1 .. n /\ m \in 1 .. n
  <2> HIDE DEF HeadsClass, IsKeyword
  <2> QED
    BY <1>2, <1>3, <1>4
<1>6. /\ rest[k] \in {"class", "struct"} /\ IsWord(rest[m])
      /\ \A i \in k + 1 .. m - 1 : rest[i] = "MACRO"
  BY <1>3, <1>4
<1>7. m > k
  BY <1>3, <1>4
<1>8. \/ k = 1
      \/ /\ At(rest, 1) = "template" /\ At(rest, 2) = "<"
         /\ k > 3 /\ rest[k - 1] = ">"
         /\ \A i \in 3 .. k - 1 : IsWord(rest[i]) \/ rest[i] \in {"<", ">", ",", ":"}
  BY <1>3, <1>4
<1> HIDE DEF HeadsClass, IsKeyword, keywords
<1>9. ~IsEnd(rest[k]) /\ ~IsEnd(rest[m]) /\ \A i \in k + 1 .. m - 1 : ~IsEnd(rest[i])
  <2>1. ASSUME NEW i \in k + 1 .. m - 1 PROVE ~IsEnd(rest[i])
    BY <1>6, OtherFacts
  <2> QED
    BY <1>6, <2>1, OtherFacts, WordFacts
<1>10. ASSUME NEW i \in 1 .. k - 1 PROVE ~IsEnd(rest[i])
  <2>1. k # 1
    BY <1>5
  <2>2. CASE i \in 3 .. k - 1
    BY <1>8, <2>1, <2>2, OtherFacts, WordFacts
  <2>3. CASE i = 1 \/ i = 2
    <3>3. k > 3
      BY <1>8, <2>1
    <3>1. 1 \in DOMAIN rest /\ 2 \in DOMAIN rest
      BY <1>2, <1>5, <3>3
    <3>2. At(rest, 1) = rest[1] /\ At(rest, 2) = rest[2]
      BY <3>1, Zenon DEF At
    <3> QED
      BY <1>8, <2>1, <2>3, <3>2, OtherFacts
  <2>4. i \in 3 .. k - 1 \/ i = 1 \/ i = 2
    BY <1>5
  <2> QED
    BY <2>2, <2>3, <2>4
<1>11. ASSUME NEW i \in 1 .. m PROVE i \in 1 .. k - 1 \/ i = k \/ i \in k + 1 .. m - 1 \/ i = m
  BY <1>5, <1>7
<1>12. \A i \in 1 .. m : ~IsEnd(rest[i])
  BY <1>9, <1>10, <1>11
<1>13. k \in 1 .. n /\ m \in k + 1 .. n
  BY <1>2, <1>5, <1>7
<1> QED
  BY <1>4, <1>6, <1>8, <1>12, <1>13

\* The same once no more heads can come.
BracesStand(text, target, stack, p) ==
    \E below :
        /\ AllSeen(below) /\ Depth(Len(below), From(text, p)) = target
        /\ \/ stack = below
           \/ \E b, l : stack = Append(below, b) /\ IsWaiting(b) /\ Waits(text, p, l)
BraceState(q, s) ==
    /\ {"nesting", "text"} \subseteq DOMAIN s
    /\ HasStacks(s.nesting) /\ s.nesting.pp_stack = q.pp_stack
    /\ \E p \in 1 .. Len(q.text) + 1 :
            s.text = From(q.text, p) /\ BracesStand(q.text, q.target, s.nesting.stack, p)

LEMMA BraceStateAt ==
    ASSUME NEW q, NEW s, {"nesting", "text"} \subseteq DOMAIN s,
           HasStacks(s.nesting), s.nesting.pp_stack = q.pp_stack, NEW p \in 1 .. Len(q.text) + 1,
           s.text = From(q.text, p), BracesStand(q.text, q.target, s.nesting.stack, p)
    PROVE  BraceState(q, s)
BY DEF BraceState

LEMMA HeadsThenBraces ==
    ASSUME NEW q, NEW s, HeadState(q, s)
    PROVE  BraceState(q, s)
<1>1. ASSUME NEW text, NEW target, NEW stack, NEW p, Stands(text, target, stack, p)
      PROVE  BracesStand(text, target, stack, p)
  BY <1>1 DEF Stands, BracesStand, HeadWaits
<1> QED
  BY <1>1 DEF HeadState, BraceState

\* The class at the beginning of what is left waits for a brace or semicolon on its line.
LEMMA ConsumeClassStands ==
    ASSUME NEW q, IsSequence(q.text), HeadsEnd(q.text), NEW s, HeadState(q, s),
           NEW c, NEW ln
    PROVE  BraceState(q, ConsumeClass(s, c, ln))
<1>0. PICK text, target : text = q.text /\ target = q.target
  OBVIOUS
<1>1. PICK p \in 1 .. Len(text) + 1 :
        s.text = From(text, p) /\ StartsFresh(text, p) /\ Stands(text, target, s.nesting.stack, p)
  BY <1>0 DEF HeadState
<1>2. Len(text) \in Nat /\ IsSequence(text) /\ HeadsEnd(text) /\ p \in Nat
  BY <1>0, SequenceFacts
<1> DEFINE heads == ClassHeads(s.text)
           IsLast(h) == \A g \in heads : h[1] > g[1] \/ (h[1] = g[1] /\ h[2] >= g[2])
           head == CHOOSE h \in heads : IsLast(h)
           n == s.nesting
           class == ClassInfo(c, ln, s.text[head[1]], s.text[head[2]])
           inside == n.stack # <<>> /\ Top(n).open_parentheses # 0
           listed == InTemplateArgumentList(c.elided, ln, head[2] + 1)
           pushed == [nesting |-> PushBlock(n, class), text |-> From(s.text, head[2] + 1)]
<1>3. ConsumeClass(s, c, ln) =
        CASE heads = {} -> s
          [] heads # {} /\ inside -> s
          [] heads # {} /\ listed -> s
          [] OTHER -> pushed
  BY DEF ConsumeClass
<1>4. ConsumeClass(s, c, ln) = s \/ (heads # {} /\ ConsumeClass(s, c, ln) = pushed)
  <2> HIDE DEF heads, inside, listed, pushed
  <2> QED
    BY <1>3
<1>5. PICK rest : rest = s.text /\ IsRest(rest, text, p) /\ rest = From(text, p)
  BY <1>1, <1>2, FromFacts
<1>6. ASSUME heads # {} PROVE head \in heads
  <2>1. Len(rest) \in Nat /\ DOMAIN rest = 1 .. Len(rest)
    BY <1>5, SequenceFacts DEF IsRest
  <2>2. heads \in SUBSET ((1 .. Len(rest)) \X (1 .. Len(rest)))
    BY <1>5, <2>1, ClassHeadsType
  <2> HIDE DEF heads
  <2>3. \E h \in heads : IsLast(h)
    BY <1>6, <2>1, <2>2, LastPair
  <2> HIDE DEF IsLast
  <2> QED
    BY <2>3
<1>7. ASSUME heads # {} PROVE BraceState(q, pushed)
  <2>1. PICK h : h = head /\ h \in ClassHeads(rest)
    BY <1>5, <1>6, <1>7
  <2>22. PICK i, m : i = h[1] /\ m = h[2]
    OBVIOUS
  <2>2. PICK k, r : k = p + i - 1 /\ r = p + m
    OBVIOUS
  <2> HIDE DEF heads, IsLast, head
  <2>3. /\ i \in 1 .. Len(rest) /\ m \in i + 1 .. Len(rest)
        /\ rest[i] \in {"class", "struct"}
        /\ i = 1 \/ (i > 3 /\ rest[i - 1] = ">")
        /\ \A j \in 1 .. m : ~IsEnd(rest[j])
    <3>1. IsSequence(rest)
      BY <1>5 DEF IsRest
    <3> QED
      BY <2>1, <2>22, <3>1, ClassHeadFacts
  <2>4. i \in Nat /\ m \in Nat /\ Len(rest) = Len(text) + 1 - p
        /\ \A j \in 1 .. Len(rest) : rest[j] = text[p + j - 1]
    <3>1. Len(rest) = Len(text) + 1 - p /\ \A j \in 1 .. Len(rest) : rest[j] = text[p + j - 1]
      BY <1>5 DEF IsRest
    <3>2. i \in 1 .. Len(rest) /\ m \in i + 1 .. Len(rest)
      BY <2>3
    <3> QED
      BY <1>2, <3>1, <3>2
  <2>20. /\ i \in Nat /\ m \in Nat /\ Len(rest) = Len(text) + 1 - p /\ Len(rest) \in Nat
         /\ 1 <= i /\ i < m /\ m <= Len(rest) /\ 1 <= p
    <3>1. i \in 1 .. Len(rest) /\ m \in i + 1 .. Len(rest)
      BY <2>3
    <3>2. Len(rest) \in Nat
      BY <1>2, <2>4
    <3> QED
      BY <1>2, <2>4, <3>1, <3>2
  <2>5. /\ k \in p .. Len(text) /\ k \in 1 .. Len(text) /\ r \in k + 1 .. Len(text) + 1 /\ r \in Nat
        /\ r \in p .. Len(text) + 1 /\ r \in 1 .. Len(text) + 1 /\ p \in 1 .. Len(text)
    <3>1. PICK x, y : x = Len(text) /\ y = Len(rest) /\ x \in Nat /\ y \in Nat /\ y = x + 1 - p
      BY <1>2, <2>20
    <3>2. k \in Nat /\ r \in Nat /\ p <= k /\ k < r /\ r <= x + 1 /\ 1 <= p
      BY <1>2, <2>2, <2>20, <3>1
    <3>3. /\ k \in p .. x /\ k \in 1 .. x /\ r \in k + 1 .. x + 1
          /\ r \in p .. x + 1 /\ r \in 1 .. x + 1 /\ p \in 1 .. x
      BY <1>2, <3>1, <3>2
    <3> QED
      BY <3>1, <3>2, <3>3
  <2>6. ASSUME NEW j \in p .. r - 1 PROVE ~IsEnd(text[j])
    <3>1. PICK e : e = j - p + 1
      OBVIOUS
    <3>2. e \in 1 .. m /\ e \in 1 .. Len(rest) /\ p + e - 1 = j
      BY <1>2, <2>2, <2>20, <3>1
    <3>3. rest[e] = text[j]
      BY <2>4, <3>2
    <3> QED
      BY <2>3, <3>2, <3>3
  <2>7. IsHead(text, k)
    <3>1. text[k] \in {"class", "struct"}
      BY <2>2, <2>3, <2>4
    <3>2. CASE i = 1
      <4>1. k = p
        BY <1>2, <2>2, <3>2
      <4> QED
        BY <1>1, <3>1, <4>1, HeadHere
    <3>3. CASE i > 3 /\ rest[i - 1] = ">"
      <4>1. PICK e, f : e = i - 1 /\ f = k - 1
        OBVIOUS
      <4>2. e \in 1 .. Len(rest) /\ p + e - 1 = f /\ f \in 1 .. Len(text) /\ f + 1 = k
        <5>1. i > 3
          BY <3>3
        <5>2. PICK x, y : x = Len(text) /\ y = Len(rest) /\ x \in Nat /\ y \in Nat /\ y = x + 1 - p
          BY <1>2, <2>20
        <5>3. e \in 1 .. y /\ p + e - 1 = f /\ f + 1 = k
          BY <1>2, <2>2, <2>20, <4>1, <5>1, <5>2
        <5>4. f \in 1 .. x
          BY <1>2, <2>2, <2>20, <4>1, <5>1, <5>2
        <5> QED
          BY <5>2, <5>3, <5>4
      <4>3. text[f] = ">"
        BY <2>4, <3>3, <4>1, <4>2
      <4>4. ~Separates(text[f])
        BY <4>3 DEF Separates
      <4>5. StartsFresh(text, k)
        BY <1>2, <4>2, <4>4, FreshAfter
      <4> QED
        BY <3>1, <4>5, HeadHere
    <3> QED
      BY <2>3, <3>2, <3>3
  <2>8. AllSeen(n.stack) /\ Depth(Len(n.stack), From(text, p)) = target
    <3>1. ASSUME NEW l, HeadWaits(text, p, l) PROVE FALSE
      <4>1. \A j \in p .. k : j \in p .. r - 1
        BY <1>2, <2>5
      <4>2. \A j \in p .. k : ~IsEnd(text[j])
        BY <2>6, <4>1
      <4> QED
        BY <1>2, <2>5, <2>7, <3>1, <4>2, NoneWaits
    <3> QED
      BY <1>1, <3>1 DEF Stands
  <2>9. PICK l : HeadWaits(text, k + 1, l)
    BY <1>2, <2>5, <2>7, HeadFinds
  <2>10. Waits(text, r, l)
    <3>1. l \in k + 1 .. Len(text) /\ IsEnd(text[l])
      BY <2>9 DEF HeadWaits, Waits, IsEnd
    <3>2. l \notin p .. r - 1
      BY <2>6, <3>1
    <3>3. r \in k + 1 .. l /\ k + 1 \in Nat
      BY <1>2, <2>5, <3>1, <3>2
    <3>4. HeadWaits(text, r, l)
      BY <1>2, <2>9, <3>3, WaitsFurther
    <3> QED
      BY <3>4 DEF HeadWaits
  <2>11. Depth(Len(n.stack), From(text, r)) = target
    <3>1. \A j \in p .. r - 1 : ~IsBrace(text[j])
      BY <2>6 DEF IsEnd, IsBrace
    <3>2. Depth(Len(n.stack), From(text, r)) = Depth(Len(n.stack), From(text, p))
      BY <1>2, <2>5, <3>1, HeadDoesNotCount
    <3> QED
      BY <2>8, <3>2
  <2>12. PICK block, new, left : block = class /\ new = PushBlock(n, block) /\ left = From(rest, m + 1)
    OBVIOUS
  <2>13. IsWaiting(block)
    BY <2>12 DEF ClassInfo, Block, IsWaiting
  <2>14. pushed = [nesting |-> new, text |-> left]
    BY <1>5, <2>1, <2>22, <2>12
  <2>15. HasStacks(new) /\ new.stack = Append(n.stack, block) /\ new.pp_stack = q.pp_stack
    BY <2>12, PushBlockStacks DEF HeadState
  <2>16. left = From(text, r)
    <3>1. m + 1 \in 1 .. Len(rest) + 1 /\ p + (m + 1) - 1 = r
      BY <1>2, <2>2, <2>20
    <3> QED
      BY <1>2, <1>5, <2>12, <3>1, FromFrom
  <2>17. BracesStand(text, target, new.stack, r)
    BY <2>8, <2>10, <2>11, <2>13, <2>15 DEF BracesStand
  <2> HIDE DEF pushed
  <2>18. PICK u : u = pushed /\ {"nesting", "text"} \subseteq DOMAIN u /\ u.nesting = new /\ u.text = left
    BY <2>14
  <2>19. BraceState(q, u)
    BY <1>0, <2>5, <2>15, <2>16, <2>17, <2>18, BraceStateAt
  <2> QED
    BY <2>18, <2>19
<1> HIDE DEF heads, pushed
<1> QED
  BY <1>4, <1>7, HeadsThenBraces

-----------------------------------------------------------------------------
(* The top block of a stack.                                               *)

\* A block changed in anything but in whether its brace was seen.
SameFlag(b, c) == (IsOpen(b) => IsOpen(c)) /\ (IsWaiting(b) => IsWaiting(c))

LEMMA SetTopStacks ==
    ASSUME NEW n, HasStacks(n), NEW b
    PROVE  /\ HasStacks(SetTop(n, b)) /\ SetTop(n, b).pp_stack = n.pp_stack
           /\ SetTop(n, b).stack = [n.stack EXCEPT ![Len(n.stack)] = b]
<1>1. SetTop(n, b) = [n EXCEPT !.stack = [n.stack EXCEPT ![Len(n.stack)] = b]]
  BY DEF SetTop, HasStacks
<1> QED
  BY <1>1 DEF HasStacks

LEMMA StackStands ==
    ASSUME NEW text, NEW target, NEW stack, NEW p, BracesStand(text, target, stack, p)
    PROVE  IsSequence(stack)
BY TopOfAppend DEF BracesStand, AllSeen

LEMMA SetTopStands ==
    ASSUME NEW text, NEW target, NEW stack, NEW p, BracesStand(text, target, stack, p),
           stack # <<>>, NEW c, SameFlag(Last(stack), c)
    PROVE  BracesStand(text, target, [stack EXCEPT ![Len(stack)] = c], p)
<1>1. PICK below :
        /\ AllSeen(below) /\ Depth(Len(below), From(text, p)) = target
        /\ \/ stack = below
           \/ \E b, l : stack = Append(below, b) /\ IsWaiting(b) /\ Waits(text, p, l)
  BY SMTT(30) DEF BracesStand
<1>2. CASE stack = below
  <2>1. IsOpen(Last(stack))
    BY <1>1, <1>2, SeenFront
  <2>2. IsOpen(c)
    BY <2>1 DEF SameFlag
  <2>3. AllSeen([stack EXCEPT ![Len(stack)] = c]) /\ Len([stack EXCEPT ![Len(stack)] = c]) = Len(stack)
    BY <1>1, <1>2, <2>2, SeenExcept
  <2> QED
    BY <1>1, <1>2, <2>3 DEF BracesStand
<1>3. CASE \E b, l : stack = Append(below, b) /\ IsWaiting(b) /\ Waits(text, p, l)
  <2>1. PICK b, l : stack = Append(below, b) /\ IsWaiting(b) /\ Waits(text, p, l)
    BY <1>3
  <2>2. Last(stack) = b /\ [stack EXCEPT ![Len(stack)] = c] = Append(below, c)
    BY <1>1, <2>1, TopOfAppend DEF AllSeen
  <2>3. IsWaiting(c)
    BY <2>1, <2>2 DEF SameFlag
  <2> QED
    BY <1>1, <2>1, <2>2, <2>3 DEF BracesStand
<1> QED
  BY <1>1, <1>2, <1>3

\* An access keyword changes the access of the top block.
LEMMA UpdateAccessStands ==
    ASSUME NEW q, NEW s, BraceState(q, s), NEW line, NEW ln
    PROVE  BraceState(q, UpdateAccess(s, line, ln)) /\ UpdateAccess(s, line, ln).text = s.text
<1> DEFINE n == s.nesting
           at == SelectLastInSeq([i \in DOMAIN s.text |-> i], LAMBDA i :
                    /\ s.text[i] \in AccessWords /\ At(s.text, i + 1) = ":")
           first == at = 1 /\ s.text = line.text
           misplaced == first /\ line.indent # Top(n).indent + 1
           changed == [n EXCEPT !.stack[Len(n.stack)].access = s.text[at]]
           errors == IF misplaced THEN <<Err(ln, <<"whitespace", "indent">>, 3)>> ELSE <<>>
<1>1. UpdateAccess(s, line, ln)
        = IF ~TopIs(n, "class") \/ at = 0
          THEN [nesting |-> n, text |-> s.text, errors |-> <<>>]
          ELSE [nesting |-> changed, text |-> s.text, errors |-> errors]
  BY Zenon DEF UpdateAccess
<1>2. PICK text, target : text = q.text /\ target = q.target
  OBVIOUS
<1>3. PICK p \in 1 .. Len(text) + 1 :
        s.text = From(text, p) /\ BracesStand(text, target, n.stack, p)
  BY <1>2 DEF BraceState
<1>4. HasStacks(n) /\ n.pp_stack = q.pp_stack
  BY DEF BraceState
<1>5. ASSUME NEW m, HasStacks(m), m.pp_stack = q.pp_stack, BracesStand(text, target, m.stack, p),
             NEW es, NEW u, u = [nesting |-> m, text |-> s.text, errors |-> es]
      PROVE  BraceState(q, u) /\ u.text = s.text
  BY <1>2, <1>3, <1>5 DEF BraceState
<1>6. ASSUME TopIs(n, "class")
      PROVE  /\ HasStacks(changed) /\ changed.pp_stack = q.pp_stack
             /\ BracesStand(text, target, changed.stack, p)
  <2> HIDE DEF at
  <2>1. n.stack # <<>>
    BY <1>6 DEF TopIs
  <2> DEFINE block == [Top(n) EXCEPT !.access = s.text[at]]
  <2>2. SameFlag(Last(n.stack), block)
    BY DEF SameFlag, IsOpen, IsWaiting, Top
  <2>3. changed = SetTop(n, block)
    <3>1. IsSequence(n.stack)
      BY <1>3, StackStands
    <3>2. Len(n.stack) \in DOMAIN n.stack
      BY <2>1, <3>1, SequenceFront
    <3> QED
      BY <1>4, <3>2 DEF SetTop, Top, Last, HasStacks
  <2> HIDE DEF block, changed
  <2>4. /\ HasStacks(changed) /\ changed.pp_stack = n.pp_stack
        /\ changed.stack = [n.stack EXCEPT ![Len(n.stack)] = block]
    BY <1>4, <2>3, SetTopStacks
  <2>5. BracesStand(text, target, changed.stack, p)
    BY <1>3, <2>1, <2>2, <2>4, SetTopStands
  <2> QED
    BY <1>4, <2>4, <2>5
<1> HIDE DEF n, at, changed, errors
<1> QED
  BY <1>1, <1>3, <1>4, <1>5, <1>6

-----------------------------------------------------------------------------
(* The braces, semicolons and parentheses of a line.                       *)

IsBreak(token) == token \in {"{", ";", ")", "}"}
FirstBreak(text) == SelectInSeq(text, LAMBDA t : t \in {"{", ";", ")", "}"})
NoBreaks(text) == \A i \in 1 .. Len(text) : ~IsBreak(text[i])

LEMMA BreakPosition ==
    ASSUME NEW text, IsSequence(text)
    PROVE  \/ FirstBreak(text) = 0 /\ NoBreaks(text)
           \/ /\ FirstBreak(text) \in 1 .. Len(text) /\ IsBreak(text[FirstBreak(text)])
              /\ \A j \in 1 .. FirstBreak(text) - 1 : ~IsBreak(text[j])
<1> DEFINE found == {i \in 1 .. Len(text) : IsBreak(text[i])}
           mark == FirstBreak(text)
<1>1. mark = IF found # {} THEN Min(found) ELSE 0
  BY Zenon DEF SelectInSeq, FirstBreak, IsBreak
<1> HIDE DEF mark
<1>2. Len(text) \in Nat /\ found \in SUBSET Nat
  <2>1. Len(text) \in Nat
    BY SequenceFacts
  <2>2. 1 .. Len(text) \subseteq Nat
    BY <2>1
  <2>3. found \subseteq 1 .. Len(text)
    BY Zenon
  <2> HIDE DEF found
  <2> QED
    BY <2>1, <2>2, <2>3, Zenon
<1>3. found # {} => mark \in found /\ \A x \in found : mark <= x
  <2> HIDE DEF found
  <2> QED
    BY <1>1, <1>2, MinOfNumbers
<1>4. CASE found = {}
  <2>1. NoBreaks(text)
    BY <1>4 DEF NoBreaks
  <2> QED
    BY <1>1, <1>4, <2>1 DEF mark
<1>5. CASE found # {}
  <2>1. mark \in 1 .. Len(text) /\ IsBreak(text[mark])
    BY <1>3, <1>5
  <2>2. ASSUME NEW j \in 1 .. mark - 1 PROVE ~IsBreak(text[j])
    <3>1. j \in 1 .. Len(text) /\ ~(mark <= j)
      BY <1>2, <2>1
    <3>2. j \notin found
      BY <1>3, <1>5, <3>1
    <3> QED
      BY <3>1, <3>2
  <2> QED
    BY <2>1, <2>2 DEF mark
<1> QED
  BY <1>4, <1>5

\* What a mark makes of a stack.
AfterBreak(token, stack, new) ==
    LET seen == stack = <<>> \/ IsOpen(Last(stack))
    IN  /\ token = "{" =>
            \E b : IsOpen(b) /\ new = IF seen THEN Append(stack, b)
                                      ELSE [stack EXCEPT ![Len(stack)] = b]
        /\ token \in {";", ")"} => new = IF seen THEN stack ELSE Front(stack)
        /\ token = "}" => new = IF stack = <<>> THEN stack ELSE Front(stack)

LEMMA BreakStands ==
    ASSUME NEW text, IsSequence(text), NEW target, NEW stack, NEW p \in 1 .. Len(text),
           BracesStand(text, target, stack, p),
           NEW l \in p .. Len(text), IsBreak(text[l]), \A j \in p .. l - 1 : ~IsBreak(text[j]),
           NEW new, AfterBreak(text[l], stack, new)
    PROVE  BracesStand(text, target, new, l + 1)
<1>1. PICK below :
        /\ AllSeen(below) /\ Depth(Len(below), From(text, p)) = target
        /\ \/ stack = below
           \/ \E b, w : stack = Append(below, b) /\ IsWaiting(b) /\ Waits(text, p, w)
  BY DEF BracesStand
<1>2. PICK d, token : d = Len(below) /\ token = text[l]
  OBVIOUS
<1>3. Depth(TokenTurn(d, token), From(text, l + 1)) = target
  <2>1. \A j \in p .. l - 1 : ~IsBrace(text[j])
    BY DEF IsBreak, IsBrace
  <2>2. Depth(d, From(text, p)) = Depth(TokenTurn(d, token), From(text, l + 1))
    BY <1>2, <2>1, DepthOfOpening
  <2> QED
    BY <1>1, <1>2, <2>2
<1>4. ASSUME NEW s, AllSeen(s), Len(s) = TokenTurn(d, token) PROVE BracesStand(text, target, s, l + 1)
  BY <1>3, <1>4 DEF BracesStand
<1>5. d \in Nat /\ IsSequence(below)
  BY <1>1, <1>2, SequenceFacts DEF AllSeen
<1>6. token \in {"{", ";", ")", "}"} /\ AfterBreak(token, stack, new)
  BY <1>2 DEF IsBreak
<1>7. CASE stack = below
  <2>1. stack = <<>> \/ IsOpen(Last(stack))
    BY <1>1, <1>7, SeenFront
  <2>2. CASE token = "{"
    <3>1. PICK b : IsOpen(b) /\ new = Append(stack, b)
      BY <1>6, <2>1, <2>2 DEF AfterBreak
    <3>2. AllSeen(new) /\ Len(new) = d + 1
      BY <1>1, <1>2, <1>5, <1>7, <3>1, SeenAppend, TopOfAppend
    <3>3. TokenTurn(d, token) = d + 1
      BY <2>2, TurnsOfDepth
    <3> QED
      BY <1>4, <3>2, <3>3
  <2>3. CASE token \in {";", ")"}
    <3>1. new = stack
      BY <1>6, <2>1, <2>3 DEF AfterBreak
    <3>2. ~IsBrace(token)
      BY <2>3 DEF IsBrace
    <3>3. TokenTurn(d, token) = d
      BY <3>2, TurnsOfDepth
    <3> QED
      BY <1>1, <1>2, <1>4, <1>7, <3>1, <3>3
  <2>4. CASE token = "}" /\ stack = <<>>
    <3>1. new = stack
      BY <1>6, <2>4 DEF AfterBreak
    <3>2. d = 0
      BY <1>2, <1>7, <2>4, ShortSequences
    <3>3. TokenTurn(d, token) = d
      <4>1. ~(d > 0)
        BY <3>2
      <4> QED
        BY <2>4, <4>1, TurnsOfDepth
    <3> QED
      BY <1>1, <1>2, <1>4, <1>7, <3>1, <3>3
  <2>5. CASE token = "}" /\ stack # <<>>
    <3>1. new = Front(stack)
      BY <1>6, <2>5 DEF AfterBreak
    <3>2. AllSeen(new) /\ Len(new) = d - 1 /\ d > 0
      BY <1>1, <1>2, <1>7, <2>5, <3>1, SeenFront
    <3>3. TokenTurn(d, token) = d - 1
      BY <2>5, <3>2, TurnsOfDepth
    <3> QED
      BY <1>4, <3>2, <3>3
  <2> QED
    BY <1>6, <2>2, <2>3, <2>4, <2>5
<1>8. CASE \E b, w : stack = Append(below, b) /\ IsWaiting(b) /\ Waits(text, p, w)
  <2>1. PICK b, w : stack = Append(below, b) /\ IsWaiting(b) /\ Waits(text, p, w)
    BY <1>8
  <2>2. /\ stack # <<>> /\ Front(stack) = below /\ Last(stack) = b
        /\ \A c : [stack EXCEPT ![Len(stack)] = c] = Append(below, c)
    BY <1>5, <2>1, TopOfAppend
  <2>3. ~(stack = <<>> \/ IsOpen(Last(stack)))
    BY <2>1, <2>2 DEF IsOpen, IsWaiting
  <2>4. Len(text) \in Nat /\ l \in Nat /\ p \in Nat /\ w \in p .. Len(text) /\ w \notin p .. l - 1
    <3>1. Len(text) \in Nat
      BY SequenceFacts
    <3>2. w \in p .. Len(text) /\ IsBreak(text[w])
      BY <2>1 DEF Waits, IsBreak
    <3> QED
      BY <3>1, <3>2
  <2>5. CASE token = "{"
    <3>1. PICK c : IsOpen(c) /\ new = Append(below, c)
      BY <1>6, <2>2, <2>3, <2>5 DEF AfterBreak
    <3>2. AllSeen(new) /\ Len(new) = d + 1
      BY <1>1, <1>2, <1>5, <3>1, SeenAppend, TopOfAppend
    <3>3. TokenTurn(d, token) = d + 1
      BY <2>5, TurnsOfDepth
    <3> QED
      BY <1>4, <3>2, <3>3
  <2>6. CASE token \in {";", ")"}
    <3>1. new = below
      BY ZenonT(60), <1>6, <2>2, <2>3, <2>6 DEF AfterBreak
    <3>2. ~IsBrace(token)
      BY <2>6 DEF IsBrace
    <3>3. TokenTurn(d, token) = d
      BY <3>2, TurnsOfDepth
    <3> QED
      BY <1>1, <1>2, <1>4, <3>1, <3>3
  <2>7. CASE token = "}"
    <3>1. l \notin p .. w - 1
      <4>1. IsEnd(text[l])
        BY <1>2, <2>7 DEF IsEnd
      <4> QED
        BY <2>1, <4>1 DEF Waits
    <3>2. w = l
      BY <2>4, <3>1
    <3>3. text[w] \in {"{", ";"}
      BY <2>1 DEF Waits
    <3> QED
      BY <1>2, <2>7, <3>2, <3>3
  <2> QED
    BY <1>6, <2>5, <2>6, <2>7
<1> QED
  BY <1>1, <1>7, <1>8

\* The loop over the marks takes off at least one token in every turn.
BraceProgress(q, s, k) ==
    /\ BraceState(q, s)
    /\ NoBreaks(s.text) \/ Len(s.text) + k <= q.turns
BreakLoop == INSTANCE SequenceLemmas WITH
    Step <- LAMBDA c, q, s, k : BraceTurn(c, q.ln, s),
    Holds <- LAMBDA c, q, s, k : BraceProgress(q, s, k)

\* What ConsumeBrace does at the first mark.
LEMMA ConsumeBraceBreaks ==
    ASSUME NEW s, IsSequence(s.text), HasStacks(s.nesting), NEW c, NEW ln,
           NEW l, l = FirstBreak(s.text), NEW t, t = ConsumeBrace(s, c, ln),
           s.nesting.stack # <<>> =>
                IsOpen(Last(s.nesting.stack)) \/ IsWaiting(Last(s.nesting.stack))
    PROVE  \/ NoBreaks(s.text) /\ t = s
           \/ /\ l \in 1 .. Len(s.text) /\ IsBreak(s.text[l])
              /\ \A j \in 1 .. l - 1 : ~IsBreak(s.text[j])
              /\ {"nesting", "text"} \subseteq DOMAIN t /\ t.text = From(s.text, l + 1)
              /\ HasStacks(t.nesting) /\ t.nesting.pp_stack = s.nesting.pp_stack
              /\ AfterBreak(s.text[l], s.nesting.stack, t.nesting.stack)
<1> DEFINE at == FirstBreak(s.text)
           n == s.nesting
           Done(m, errors) == [nesting |-> m, text |-> From(s.text, at + 1),
                               errors |-> s.errors \o errors]
<1>1. t = CASE at = 0 -> s
            [] At(s.text, at) = "{" -> Done(OpenBrace(n, s.text, ln), <<>>)
            [] At(s.text, at) \in {";", ")"} ->
                  Done(IF SeenOpenBrace(n) THEN n ELSE PopBlock(n), <<>>)
            [] At(s.text, at) = "}" /\ n.stack = <<>> -> Done(n, <<>>)
            [] OTHER -> Done(PopBlock(n), CheckEnd(Top(n), c, ln))
  BY DEF ConsumeBrace, FirstBreak
<1>2. \/ at = 0 /\ NoBreaks(s.text)
      \/ /\ at \in 1 .. Len(s.text) /\ IsBreak(s.text[at])
         /\ \A j \in 1 .. at - 1 : ~IsBreak(s.text[j])
  BY BreakPosition
<1> HIDE DEF at, Done
<1>3. CASE at = 0 /\ NoBreaks(s.text)
  <2>1. t = s
    <3>1. 0 \notin DOMAIN s.text
      BY SequenceFacts
    <3>2. At(s.text, at) = ""
      BY <1>3, <3>1, Zenon DEF At
    <3>3. At(s.text, at) \notin {"{", ";", ")", "}"}
      BY <3>2, Zenon
    <3> QED
      BY <1>1, <1>3, <3>3
  <2> QED
    BY <1>3, <2>1
<1>4. CASE /\ at \in 1 .. Len(s.text) /\ IsBreak(s.text[at])
           /\ \A j \in 1 .. at - 1 : ~IsBreak(s.text[j])
  <2>1. at # 0
    BY <1>4, SequenceFacts
  <2>2. PICK token : token = s.text[at] /\ token \in {"{", ";", ")", "}"}
    BY <1>4 DEF IsBreak
  <2>3. At(s.text, at) = token
    <3>1. at \in DOMAIN s.text
      BY <1>4, SequenceFacts
    <3> QED
      BY <2>2, <3>1, Zenon DEF At
  <2>4. PICK m, errors :
          /\ t = Done(m, errors)
          /\ token = "{" => m = OpenBrace(n, s.text, ln)
          /\ token \in {";", ")"} => m = IF SeenOpenBrace(n) THEN n ELSE PopBlock(n)
          /\ token = "}" => m = IF n.stack = <<>> THEN n ELSE PopBlock(n)
    <3>1. CASE token = "{"
      BY <1>1, <2>1, <2>3, <3>1
    <3>2. CASE token \in {";", ")"}
      BY <1>1, <2>1, <2>3, <3>2
    <3>3. CASE token = "}"
      BY <1>1, <2>1, <2>3, <3>3
    <3> QED
      BY <2>2, <3>1, <3>2, <3>3
  <2>5. {"nesting", "text"} \subseteq DOMAIN t /\ t.nesting = m /\ t.text = From(s.text, at + 1)
    <3> DEFINE left == From(s.text, at + 1)
               found == s.errors \o errors
    <3>1. t = [nesting |-> m, text |-> left, errors |-> found]
      BY <2>4 DEF Done
    <3> HIDE DEF left, found
    <3>2. {"nesting", "text"} \subseteq DOMAIN t /\ t.nesting = m /\ t.text = left
      BY <3>1
    <3> QED
      BY <3>2 DEF left
  <2>6. SeenOpenBrace(n) <=> (n.stack = <<>> \/ IsOpen(Last(n.stack)))
    BY DEF SeenOpenBrace, Top, IsOpen, IsWaiting
  <2>7. /\ HasStacks(PopBlock(n)) /\ PopBlock(n).stack = Front(n.stack)
        /\ PopBlock(n).pp_stack = n.pp_stack
    BY DEF PopBlock, HasStacks
  <2>8. CASE token = "{"
    <3>1. \E b : /\ IsOpen(b)
                 /\ m = IF SeenOpenBrace(n) THEN PushBlock(n, b) ELSE SetTop(n, b)
      <4> DEFINE seen == [Top(n) EXCEPT !.seen_open_brace = TRUE]
                 block == [BlockInfo(ln) EXCEPT
                              !.inline_asm = IF MatchAsm(s.text) THEN "BLOCK_ASM" ELSE @]
      <4>1. \/ ~SeenOpenBrace(n) /\ m = SetTop(n, seen)
            \/ SeenOpenBrace(n) /\ m = PushBlock(n, ExternCInfo(ln))
            \/ SeenOpenBrace(n) /\ m = PushBlock(n, block)
        BY <2>4, <2>8 DEF OpenBrace
      <4>2. ~SeenOpenBrace(n) => IsOpen(seen)
        BY <2>6 DEF IsOpen, IsWaiting, Top, SeenOpenBrace
      <4>3. IsOpen(ExternCInfo(ln)) /\ IsOpen(block)
        BY DEF IsOpen, ExternCInfo, BlockInfo, Block
      <4> HIDE DEF seen, block
      <4> QED
        BY <4>1, <4>2, <4>3
    <3>2. PICK b : /\ IsOpen(b)
                   /\ m = IF SeenOpenBrace(n) THEN PushBlock(n, b) ELSE SetTop(n, b)
      BY <3>1
    <3>3. /\ HasStacks(m) /\ m.pp_stack = n.pp_stack
          /\ m.stack = IF SeenOpenBrace(n) THEN Append(n.stack, b)
                       ELSE [n.stack EXCEPT ![Len(n.stack)] = b]
      BY <3>2, PushBlockStacks, SetTopStacks
    <3>4. AfterBreak(token, n.stack, m.stack)
      BY <2>6, <2>8, <3>2, <3>3 DEF AfterBreak
    <3> QED
      BY <1>4, <2>2, <2>5, <3>3, <3>4 DEF at
  <2>9. CASE token \in {";", ")"}
    <3>1. /\ HasStacks(m) /\ m.pp_stack = n.pp_stack
          /\ m.stack = IF SeenOpenBrace(n) THEN n.stack ELSE Front(n.stack)
      BY <2>4, <2>7, <2>9
    <3>2. AfterBreak(token, n.stack, m.stack)
      BY <2>6, <2>9, <3>1 DEF AfterBreak
    <3> QED
      BY <1>4, <2>2, <2>5, <3>1, <3>2 DEF at
  <2>10. CASE token = "}"
    <3>1. /\ HasStacks(m) /\ m.pp_stack = n.pp_stack
          /\ m.stack = IF n.stack = <<>> THEN n.stack ELSE Front(n.stack)
      BY <2>4, <2>7, <2>10
    <3>2. AfterBreak(token, n.stack, m.stack)
      BY <2>10, <3>1 DEF AfterBreak
    <3> QED
      BY <1>4, <2>2, <2>5, <3>1, <3>2 DEF at
  <2> QED
    BY <2>2, <2>8, <2>9, <2>10
<1> QED
  BY <1>2, <1>3, <1>4

\* The top of such a stack was seen or waits.
LEMMA TopStands ==
    ASSUME NEW text, NEW target, NEW stack, NEW p, BracesStand(text, target, stack, p),
           stack # <<>>
    PROVE  IsOpen(Last(stack)) \/ IsWaiting(Last(stack))
BY SeenFront, TopOfAppend DEF BracesStand, AllSeen

\* One turn.
LEMMA ConsumeBraceStands ==
    ASSUME NEW q, IsSequence(q.text), NEW s, BraceState(q, s), NEW c, NEW ln,
           NEW t, t = ConsumeBrace(s, c, ln)
    PROVE  /\ BraceState(q, t)
           /\ \/ NoBreaks(s.text) /\ t = s
              \/ /\ ~NoBreaks(s.text)
                 /\ Len(s.text) \in Nat /\ Len(t.text) \in Nat /\ Len(t.text) + 1 <= Len(s.text)
<1>1. PICK text, target, stack : text = q.text /\ target = q.target /\ stack = s.nesting.stack
  OBVIOUS
<1>2. PICK p \in 1 .. Len(text) + 1 : s.text = From(text, p) /\ BracesStand(text, target, stack, p)
  BY <1>1 DEF BraceState
<1>3. HasStacks(s.nesting) /\ s.nesting.pp_stack = q.pp_stack
  BY DEF BraceState
<1>4. PICK rest, i : rest = s.text /\ i = FirstBreak(s.text)
  OBVIOUS
<1>5. IsRest(rest, text, p) /\ IsSequence(rest) /\ IsSequence(text)
  <2>1. IsSequence(text) /\ IsRest(From(text, p), text, p)
    BY <1>1, <1>2, FromFacts
  <2> QED
    BY <1>2, <1>4, <2>1 DEF IsRest
<1>6. \/ NoBreaks(rest) /\ t = s
      \/ /\ i \in 1 .. Len(rest) /\ IsBreak(rest[i])
         /\ \A j \in 1 .. i - 1 : ~IsBreak(rest[j])
         /\ {"nesting", "text"} \subseteq DOMAIN t /\ t.text = From(rest, i + 1)
         /\ HasStacks(t.nesting) /\ t.nesting.pp_stack = q.pp_stack
         /\ AfterBreak(rest[i], stack, t.nesting.stack)
  <2>1. stack # <<>> => IsOpen(Last(stack)) \/ IsWaiting(Last(stack))
    BY <1>2, TopStands
  <2> QED
    BY <1>1, <1>3, <1>4, <1>5, <2>1, ConsumeBraceBreaks
<1>7. CASE NoBreaks(rest) /\ t = s
  BY <1>4, <1>7
<1>8. CASE /\ i \in 1 .. Len(rest) /\ IsBreak(rest[i])
           /\ \A j \in 1 .. i - 1 : ~IsBreak(rest[j])
           /\ {"nesting", "text"} \subseteq DOMAIN t /\ t.text = From(rest, i + 1)
           /\ HasStacks(t.nesting) /\ t.nesting.pp_stack = q.pp_stack
           /\ AfterBreak(rest[i], stack, t.nesting.stack)
  <2>1. PICK l : l = p + i - 1
    OBVIOUS
  <2>2. Len(text) \in Nat /\ Len(rest) \in Nat /\ Len(rest) = Len(text) + 1 - p
        /\ \A k \in 1 .. Len(rest) : rest[k] = text[p + k - 1]
    BY <1>5, SequenceFacts DEF IsRest
  <2>3. i \in 1 .. Len(rest)
    BY <1>8
  <2>4. /\ p \in 1 .. Len(text) /\ l \in p .. Len(text) /\ l + 1 \in 1 .. Len(text) + 1
        /\ i + 1 \in 1 .. Len(rest) + 1 /\ p + (i + 1) - 1 = l + 1
    BY <2>1, <2>2, <2>3
  <2>5. text[l] = rest[i]
    BY <2>1, <2>2, <2>3
  <2>6. ASSUME NEW j \in p .. l - 1 PROVE ~IsBreak(text[j])
    <3>1. PICK e : e = j - p + 1
      OBVIOUS
    <3>2. e \in 1 .. i - 1 /\ e \in 1 .. Len(rest) /\ p + e - 1 = j
      BY <2>1, <2>2, <2>3, <2>4, <3>1
    <3>3. rest[e] = text[j]
      BY <2>2, <3>2
    <3> QED
      BY <1>8, <3>2, <3>3
  <2>7. BracesStand(text, target, t.nesting.stack, l + 1)
    BY <1>2, <1>5, <1>8, <2>4, <2>5, <2>6, BreakStands
  <2>8. t.text = From(text, l + 1)
    BY SMTT(30), <1>2, <1>4, <1>5, <1>8, <2>4, FromFrom
  <2>9. BraceState(q, t)
    BY <1>1, <1>8, <2>4, <2>7, <2>8 DEF BraceState
  <2>10. Len(t.text) \in Nat /\ Len(t.text) = Len(text) + 1 - (l + 1)
    <3>1. IsRest(t.text, text, l + 1)
      BY <1>5, <2>4, <2>8, FromFacts
    <3>2. Len(t.text) = Len(text) + 1 - (l + 1)
      BY <3>1 DEF IsRest
    <3>3. IsSequence(t.text)
      BY <3>1 DEF IsRest
    <3> QED
      BY <3>2, <3>3, SequenceFacts
  <2>11. PICK x, y, z : x = Len(text) /\ y = Len(rest) /\ z = Len(t.text)
    OBVIOUS
  <2>12. z + 1 <= y
    BY SMTT(30), <2>1, <2>2, <2>4, <2>10, <2>11
  <2>13. ~NoBreaks(s.text)
    BY <1>4, <1>8 DEF NoBreaks
  <2> QED
    BY <1>4, <2>2, <2>9, <2>10, <2>11, <2>12, <2>13
<1> QED
  BY <1>6, <1>7, <1>8

\* Behind the last mark nothing waits, and nothing counts.
LEMMA NothingLeft ==
    ASSUME NEW q, IsSequence(q.text), NEW s, BraceState(q, s), NoBreaks(s.text)
    PROVE  AllSeen(s.nesting.stack) /\ Len(s.nesting.stack) = q.target
<1>1. PICK text, target, stack : text = q.text /\ target = q.target /\ stack = s.nesting.stack
  OBVIOUS
<1>2. PICK p \in 1 .. Len(text) + 1 : s.text = From(text, p) /\ BracesStand(text, target, stack, p)
  BY <1>1 DEF BraceState
<1>3. PICK rest : rest = s.text /\ IsRest(rest, text, p) /\ NoBreaks(rest)
  BY <1>1, <1>2, FromFacts
<1>4. Len(text) \in Nat /\ p \in Nat /\ Len(rest) = Len(text) + 1 - p
      /\ \A k \in 1 .. Len(rest) : rest[k] = text[p + k - 1]
  <2>1. Len(text) \in Nat /\ Len(rest) = Len(text) + 1 - p
        /\ \A k \in 1 .. Len(rest) : rest[k] = text[p + k - 1]
    BY <1>3 DEF IsRest
  <2> QED
    BY <2>1
<1>5. ASSUME NEW j \in p .. Len(text) PROVE ~IsBreak(text[j])
  <2>1. PICK e : e = j - p + 1
    OBVIOUS
  <2>2. e \in 1 .. Len(rest) /\ p + e - 1 = j
    BY <1>4, <2>1
  <2> QED
    BY <1>3, <1>4, <2>2 DEF NoBreaks
<1>6. PICK below :
        /\ AllSeen(below) /\ Depth(Len(below), From(text, p)) = target
        /\ \/ stack = below
           \/ \E b, l : stack = Append(below, b) /\ IsWaiting(b) /\ Waits(text, p, l)
  BY <1>2 DEF BracesStand
<1>7. stack = below
  <2>1. ASSUME NEW l, Waits(text, p, l) PROVE FALSE
    BY <1>5, <2>1 DEF Waits, IsBreak
  <2> QED
    BY <1>6, <2>1
<1>8. Depth(Len(below), From(text, p)) = Len(below)
  <2>1. PICK r, d : r = Len(text) + 1 /\ d = Len(below)
    OBVIOUS
  <2>2. r \in p .. Len(text) + 1 /\ r \in 1 .. Len(text) + 1 /\ p .. r - 1 = p .. Len(text)
        /\ Len(text) + 1 - r = 0
    BY <1>4, <2>1
  <2>3. \A j \in p .. r - 1 : ~IsBrace(text[j])
    BY <1>5, <2>2 DEF IsBreak, IsBrace
  <2>4. Depth(d, From(text, p)) = Depth(d, From(text, r))
    BY <1>1, <2>2, <2>3, DepthBetween
  <2>5. From(text, r) = <<>>
    <3>1. PICK u : u = From(text, r)
      OBVIOUS
    <3>2. IsRest(u, text, r)
      BY <1>1, <2>2, <3>1, FromFacts
    <3>3. IsSequence(u) /\ Len(u) = 0
      BY <2>2, <3>2 DEF IsRest
    <3>4. \A k \in 1 .. Len(u) : u[k] = <<>>[k]
      BY <3>3
    <3> QED
      BY <3>1, <3>3, <3>4, ShortSequences, SameSequence
  <2> QED
    BY <2>1, <2>4, <2>5, DepthOfNothing
<1> QED
  BY <1>1, <1>6, <1>7, <1>8

\* All marks of a line.
LEMMA ConsumeBracesStands ==
    ASSUME NEW q, IsSequence(q.text), NEW s, BraceState(q, s), q.turns = Len(s.text),
           Len(s.text) \in Nat, NEW c, NEW end, end = ConsumeBraces(s, c, q.ln)
    PROVE  /\ AllSeen(end.nesting.stack) /\ Len(end.nesting.stack) = q.target
           /\ HasStacks(end.nesting) /\ end.nesting.pp_stack = q.pp_stack
<1> DEFINE turns == [k \in 1 .. Len(s.text) |-> k]
<1>1. turns \in [1 .. Len(s.text) -> Nat]
  OBVIOUS
<1>2. Len(turns) = Len(s.text) /\ DOMAIN turns = 1 .. Len(turns)
  BY <1>1, SequenceFromFunction, SequenceFacts
<1>3. ConsumeBraces(s, c, q.ln) = BreakLoop!Loop(c, q, s, turns)
  <2>1. ConsumeBraces(s, c, q.ln) = ForEach(LAMBDA x, k : ConsumeBrace(x, c, q.ln), s, turns)
    BY DEF ConsumeBraces, Iterate
  <2>2. ForEach(LAMBDA x, k : ConsumeBrace(x, c, q.ln), s, turns)
          = BreakLoop!Loop(c, q, s, turns)
    <3> HIDE DEF turns
    <3> QED
      BY ZenonT(60) DEF ForEach, OfValue, BraceTurn, BreakLoop!Loop,
                        BreakLoop!Largest, FoldLeft, MapThenFoldSet, Max
  <2> QED
    BY <2>1, <2>2, Zenon
<1> HIDE DEF turns
<1>4. BraceProgress(q, s, 0)
  BY DEF BraceProgress
<1>5. ASSUME NEW t, NEW k \in 1 .. Len(turns), BraceProgress(q, t, k - 1)
      PROVE  BraceProgress(q, BraceTurn(c, q.ln, t), k)
  <2>1. PICK u : u = ConsumeBrace(t, c, q.ln)
    OBVIOUS
  <2>2. BraceTurn(c, q.ln, t) = u
    BY <2>1 DEF BraceTurn, OfValue
  <2>3. /\ BraceState(q, u)
        /\ \/ NoBreaks(t.text) /\ u = t
           \/ /\ ~NoBreaks(t.text)
              /\ Len(t.text) \in Nat /\ Len(u.text) \in Nat /\ Len(u.text) + 1 <= Len(t.text)
    BY <1>5, <2>1, ConsumeBraceStands DEF BraceProgress
  <2>4. NoBreaks(u.text) \/ Len(u.text) + k <= q.turns
    <3>1. CASE NoBreaks(t.text) /\ u = t
      BY <3>1
    <3>2. CASE /\ Len(t.text) \in Nat /\ Len(u.text) \in Nat /\ Len(u.text) + 1 <= Len(t.text)
               /\ Len(t.text) + (k - 1) <= q.turns
      BY <3>2
    <3> QED
      BY <1>5, <2>3, <3>1, <3>2 DEF BraceProgress
  <2> QED
    BY <2>2, <2>3, <2>4 DEF BraceProgress
<1>6. BraceProgress(q, BreakLoop!Loop(c, q, s, turns), Len(turns))
  BY <1>2, <1>4, <1>5, BreakLoop!LoopHolds
<1>7. BraceProgress(q, end, Len(turns))
  BY <1>3, <1>6
<1>8. BraceState(q, end)
  BY <1>7 DEF BraceProgress
<1>9. NoBreaks(end.text)
  <2>1. IsSequence(end.text)
    BY <1>8, FromFacts DEF BraceState, IsRest
  <2>2. CASE Len(end.text) + Len(turns) <= q.turns
    <3>1. Len(end.text) \in Nat
      BY <2>1, SequenceFacts
    <3>2. PICK x, y : x = Len(end.text) /\ y = Len(turns)
      OBVIOUS
    <3>3. x + y <= y /\ x \in Nat /\ y \in Nat
      BY <1>2, <2>2, <3>1, <3>2
    <3>4. x = 0
      BY <3>3
    <3>5. Len(end.text) = 0
      BY <3>2, <3>4
    <3> QED
      BY <3>5 DEF NoBreaks
  <2> QED
    BY <1>7, <2>2 DEF BraceProgress
<1> QED
  BY <1>8, <1>9, NothingLeft DEF BraceState

-----------------------------------------------------------------------------
(* A whole line.                                                           *)

\* Parentheses change no flag.
LEMMA CountParenthesesStands ==
    ASSUME NEW n, HasStacks(n), AllSeen(n.stack), NEW text,
           NEW m, m = CountParentheses(n, text)
    PROVE  /\ HasStacks(m) /\ m.pp_stack = n.pp_stack
           /\ AllSeen(m.stack) /\ Len(m.stack) = Len(n.stack)
<1>1. CASE n.stack = <<>>
  BY <1>1 DEF CountParentheses
<1>2. CASE n.stack # <<>>
  <2>1. IsOpen(Top(n))
    BY <1>2, SeenFront DEF Top
  <2>2. \E x, y : m = SetTop(n, [[Top(n) EXCEPT !.open_parentheses = x] EXCEPT !.inline_asm = y])
    <3> DEFINE change == CountOf("(", text) - CountOf(")", text)
               block == [Top(n) EXCEPT !.open_parentheses = @ + change]
               starts == change # 0 /\ block.open_parentheses = 1 /\ MatchAsm(text)
               asm == CASE block.inline_asm \in {"NO_ASM", "END_ASM"} /\ starts -> "INSIDE_ASM"
                        [] block.inline_asm \in {"NO_ASM", "END_ASM"} /\ ~starts -> "NO_ASM"
                        [] block.inline_asm = "INSIDE_ASM" /\ block.open_parentheses = 0
                              -> "END_ASM"
                        [] OTHER -> block.inline_asm
    <3>1. m = SetTop(n, [block EXCEPT !.inline_asm = asm])
      BY <1>2, Zenon DEF CountParentheses
    <3> HIDE DEF change
    <3>2. PICK x : x = Top(n).open_parentheses + change
      OBVIOUS
    <3>3. block = [Top(n) EXCEPT !.open_parentheses = x]
      BY <3>2
    <3> HIDE DEF block, asm
    <3> QED
      BY <3>1, <3>3
  <2>3. PICK b : m = SetTop(n, b) /\ IsOpen(b)
    <3>1. \A x, y : IsOpen([[Top(n) EXCEPT !.open_parentheses = x] EXCEPT !.inline_asm = y])
      BY <2>1 DEF IsOpen
    <3> QED
      BY <2>2, <3>1
  <2>4. /\ HasStacks(m) /\ m.pp_stack = n.pp_stack
        /\ m.stack = [n.stack EXCEPT ![Len(n.stack)] = b]
    BY <2>3, SetTopStacks
  <2> QED
    BY <2>3, <2>4, SeenExcept
<1> QED
  BY <1>1, <1>2

\* NestingState.Update: a stack whose braces were seen becomes one whose braces were
\* seen, of the depth that the braces of the line come to.
LEMMA UpdateStands ==
    ASSUME NEW n, NEW c, NEW ln, NEW text, text = c.elided[ln].text,
           IsSequence(text), HeadsEnd(text),
           NEW changed, changed = UpdatePreprocessor(n, text),
           HasStacks(changed), AllSeen(changed.stack),
           NEW new, new = Update(n, c, ln).nesting
    PROVE  /\ HasStacks(new) /\ new.pp_stack = changed.pp_stack
           /\ AllSeen(new.stack) /\ Len(new.stack) = Depth(Len(changed.stack), text)
<1> DEFINE line == c.elided[ln]
           top == IF changed.stack # n.stack THEN 0 ELSE Len(n.stack)
           preprocessed == [changed EXCEPT !.previous_stack_top = top]
           counted == CountParentheses(preprocessed, text)
           names == ConsumeNamespaces(counted, line, ln)
           class == ConsumeClass(names, c, ln)
           scanned == UpdateAccess(class, line, ln)
           end == ConsumeBraces(scanned, c, ln)
           q == [text |-> text, target |-> Depth(Len(changed.stack), text),
                 pp_stack |-> changed.pp_stack, turns |-> Len(class.text), ln |-> ln]
<1>1. Update(n, c, ln) = [nesting |-> end.nesting, errors |-> end.errors]
  BY DEF Update
<1>2. new = end.nesting
  <2> HIDE DEF end
  <2> QED
    BY <1>1
<1> HIDE DEF line
<1>3. /\ HasStacks(preprocessed) /\ preprocessed.stack = changed.stack
      /\ preprocessed.pp_stack = changed.pp_stack
  <2> HIDE DEF top
  <2> QED
    BY DEF HasStacks
<1> HIDE DEF preprocessed
<1>4. /\ HasStacks(counted) /\ counted.pp_stack = changed.pp_stack
      /\ AllSeen(counted.stack) /\ Len(counted.stack) = Len(changed.stack)
  BY <1>3, CountParenthesesStands
<1> HIDE DEF counted, names, class
<1>5. /\ q.text = text /\ q.target = Depth(Len(changed.stack), text)
      /\ q.pp_stack = changed.pp_stack /\ q.turns = Len(class.text) /\ q.ln = ln
  OBVIOUS
<1> HIDE DEF q
<1>6. HeadState(q, [nesting |-> counted, text |-> text])
  <2>1. 1 \in 1 .. Len(text) + 1
    BY SequenceFacts
  <2>2. From(text, 1) = text /\ StartsFresh(text, 1)
    BY WholeText, FreshFirst
  <2>3. Stands(text, q.target, counted.stack, 1)
    BY <1>4, <1>5, <2>2 DEF Stands
  <2> QED
    BY <1>4, <1>5, <2>1, <2>2, <2>3, HeadStateAt
<1>7. IsSequence(q.text) /\ HeadsEnd(q.text) /\ Len(line.text) \in Nat /\ line.text = text
  BY <1>5, SequenceFacts DEF line
<1>8. HeadState(q, names)
  BY <1>6, <1>7, ConsumeNamespacesStands DEF names
<1>9. BraceState(q, class)
  BY <1>7, <1>8, ConsumeClassStands DEF class
<1> HIDE DEF scanned
<1>10. BraceState(q, scanned) /\ scanned.text = class.text
  BY <1>9, UpdateAccessStands DEF scanned
<1>11. Len(scanned.text) \in Nat
  <2>1. PICK p \in 1 .. Len(q.text) + 1 : scanned.text = From(q.text, p)
    BY <1>10 DEF BraceState
  <2>2. IsRest(From(q.text, p), q.text, p)
    BY <1>7, FromFacts
  <2>3. IsSequence(scanned.text)
    BY <2>1, <2>2 DEF IsRest
  <2> QED
    BY <2>3, SequenceFacts
<1>12. end = ConsumeBraces(scanned, c, q.ln)
  BY <1>5
<1> HIDE DEF end
<1>13. /\ AllSeen(end.nesting.stack) /\ Len(end.nesting.stack) = q.target
       /\ HasStacks(end.nesting) /\ end.nesting.pp_stack = q.pp_stack
  BY SMTT(30), <1>5, <1>7, <1>10, <1>11, <1>12, ConsumeBracesStands
<1> QED
  BY <1>2, <1>5, <1>13

-----------------------------------------------------------------------------
(* The events of the checks.                                               *)

\* Dividing by the trigger and multiplying by it agree.
LEMMA OverTrigger ==
    ASSUME NEW b \in Nat \ {0}, NEW n \in Nat, NEW k \in Nat, n > b * k
    PROVE  k <= n \div b
<1>1. PICK q : q = n \div b
  OBVIOUS
<1>2. q \in Int /\ n < b * (q + 1)
  <2>1. q \in Int /\ n % b \in 0 .. b - 1 /\ n = b * q + (n % b)
    BY <1>1
  <2>2. b * (q + 1) = b * q + b
    BY <2>1
  <2> QED
    BY <2>1, <2>2
<1>3. ASSUME q < k PROVE FALSE
  <2>1. q + 1 <= k
    BY <1>2, <1>3
  <2>2. b * (q + 1) <= b * k
    BY <1>2, <2>1
  <2> QED
    BY <1>2, <2>2
<1> QED
  BY <1>1, <1>2, <1>3

\* A function over the limit of verbosity v has the confidence v (_FunctionState.Check):
\* the limit multiplies, the confidence divides, and 2 ^ v times the trigger fits.
LEMMA ErrorLevelIsHigh ==
    ASSUME NEW f, IsFunction(f), NEW v \in 0 .. 5, f.lines > BaseTrigger(f) * 2 ^ v
    PROVE  ErrorLevel(f) >= v
<1> DEFINE b == BaseTrigger(f)
           levels == {k \in 0 .. 5 : 2 ^ k <= f.lines \div b}
<1>1. b \in Nat \ {0}
  BY TriggersAssumption DEF BaseTrigger
<1>2. 2 ^ v \in Nat
  <2>1. v = 0 \/ v = 1 \/ v = 2 \/ v = 3 \/ v = 4 \/ v = 5
    OBVIOUS
  <2>2. 2 ^ 0 = 1 /\ 2 ^ 1 = 2 /\ 2 ^ 2 = 4 /\ 2 ^ 3 = 8 /\ 2 ^ 4 = 16 /\ 2 ^ 5 = 32
    OBVIOUS
  <2>3. ASSUME v = 0 PROVE 2 ^ v \in Nat
    BY <2>2, <2>3
  <2>4. ASSUME v = 1 PROVE 2 ^ v \in Nat
    BY <2>2, <2>4
  <2>5. ASSUME v = 2 PROVE 2 ^ v \in Nat
    BY <2>2, <2>5
  <2>6. ASSUME v = 3 PROVE 2 ^ v \in Nat
    BY <2>2, <2>6
  <2>7. ASSUME v = 4 PROVE 2 ^ v \in Nat
    BY <2>2, <2>7
  <2>8. ASSUME v = 5 PROVE 2 ^ v \in Nat
    BY <2>2, <2>8
  <2> QED
    BY <2>1, <2>3, <2>4, <2>5, <2>6, <2>7, <2>8
<1>3. v \in levels
  <2> HIDE DEF b
  <2>1. 2 ^ v <= f.lines \div b
    BY <1>1, <1>2, OverTrigger DEF IsFunction, b
  <2> QED
    BY <2>1
<1>4. Max(levels) \in levels /\ \A k \in levels : k <= Max(levels)
  <2> DEFINE shifted == {k + 1 : k \in levels}
  <2>1. levels \subseteq 0 .. 5 /\ levels # {}
    BY <1>3
  <2> HIDE DEF levels
  <2>2. shifted \in SUBSET (1 .. 6) /\ shifted # {}
    <3>1. \A k \in levels : k + 1 \in 1 .. 6
      BY <2>1
    <3> QED
      BY <2>1, <3>1
  <2>3. Max(shifted) \in shifted /\ \A x \in shifted : x <= Max(shifted)
    <3> HIDE DEF shifted
    <3> QED
      BY <2>2, MaxOfInterval
  <2>4. PICK k \in levels : Max(shifted) = k + 1
    BY <2>3
  <2>5. ASSUME NEW x \in levels PROVE k >= x
    <3>1. x + 1 \in shifted
      OBVIOUS
    <3>2. x + 1 <= k + 1
      <4> HIDE DEF shifted
      <4> QED
        BY <2>3, <2>4, <3>1
    <3>3. x \in Int /\ k \in Int
      BY <2>1
    <3> QED
      BY <3>2, <3>3
  <2>6. Max(levels) \in levels /\ \A x \in levels : Max(levels) >= x
    BY <2>4, <2>5 DEF Max
  <2> QED
    BY <2>1, <2>6
<1>5. ErrorLevel(f) = Max(levels)
  BY DEF ErrorLevel
<1> HIDE DEF levels
<1> QED
  BY <1>3, <1>4, <1>5

\* The checks of a line, one after the other, give events that are known by then.
LEMMA FunctionLengthEvents ==
    ASSUME NEW f, IsFunction(f), NEW c, NEW ln \in Nat, NEW v \in Nat
    PROVE  /\ IsFunction(CheckForFunctionLengths(f, c, ln, v).function)
           /\ LineEvents(CheckForFunctionLengths(f, c, ln, v).errors, c, ln, v)
<1> DEFINE r == CheckForFunctionLengths(f, c, ln, v)
           Keep(g, errors) == [function |-> g, errors |-> errors]
<1>1. \/ r = Keep(f, <<FunctionSizeError(ln, 5)>>)
      \/ \E test : r = Keep(Begin(test), <<>>)
      \/ r = Keep(f, <<>>) \/ r = Keep(Count(f), <<>>)
      \/ r = Keep(End(f), Check(f, ln, v))
  BY DEF CheckForFunctionLengths
<1>2. /\ \A test : IsFunction(Begin(test))
      /\ IsFunction(Count(f)) /\ IsFunction(End(f))
  BY DEF IsFunction, Begin, Count, End
<1>3. ASSUME NEW level, v <= 5 => level >= v
      PROVE  LineEvents(<<FunctionSizeError(ln, level)>>, c, ln, v)
  <2> DEFINE e == FunctionSizeError(ln, level)
  <2>1. e.kind = "error" /\ e.category = FnSize /\ e.line = ln /\ e.confidence = level
    BY DEF FunctionSizeError, Err, FnSize
  <2>2. FnSize \in ErrorCategories
    BY DEF FnSize, ErrorCategories
  <2>3. IsError(e, v)
    BY <1>3, <2>1, <2>2 DEF IsError
  <2> HIDE DEF e
  <2>4. LineEvents(<<e>>, c, ln, v)
    BY <2>1, <2>3, OneError
  <2> QED
    BY <2>4 DEF e
<1>4. LineEvents(<<FunctionSizeError(ln, 5)>>, c, ln, v)
  BY <1>3
<1>5. LineEvents(Check(f, ln, v), c, ln, v)
  <2>1. CASE f.in_a_function /\ f.lines > BaseTrigger(f) * 2 ^ v
    <3>1. Check(f, ln, v) = <<FunctionSizeError(ln, ErrorLevel(f))>>
      BY <2>1 DEF Check
    <3>2. ASSUME v <= 5 PROVE ErrorLevel(f) >= v
      <4>1. v \in 0 .. 5
        BY <3>2
      <4> QED
        BY <2>1, <4>1, ErrorLevelIsHigh
    <3> QED
      BY <1>3, <3>1, <3>2
  <2>2. CASE ~(f.in_a_function /\ f.lines > BaseTrigger(f) * 2 ^ v)
    BY <2>2, NoEvents DEF Check
  <2> QED
    BY <2>1, <2>2
<1>6. ASSUME NEW g, IsFunction(g), NEW errors, LineEvents(errors, c, ln, v)
      PROVE  IsFunction(Keep(g, errors).function) /\ LineEvents(Keep(g, errors).errors, c, ln, v)
  BY <1>6
<1> HIDE DEF r, Keep
<1>7. IsFunction(r.function) /\ LineEvents(r.errors, c, ln, v)
  BY <1>1, <1>2, <1>4, <1>5, <1>6, NoEvents
<1> QED
  BY <1>7 DEF r

\* See FunctionLengthEvents: the includes.
LEMMA IncludeEvents ==
    ASSUME NEW s, NEW c, NEW ln \in Nat, NEW f, NEW v
    PROVE  LineEvents(CheckLanguageIncludes(s, c, ln, f).errors, c, ln, v)
<1>1. /\ LineEvents(<<IncludeError(ln)>>, c, ln, v) /\ LineEvents(<<OrderError(ln)>>, c, ln, v)
      /\ LineEvents(<<AlphaError(ln)>>, c, ln, v) /\ LineEvents(<<>>, c, ln, v)
  <2>1. /\ <<"build", "include">> \in PlainCategories
        /\ <<"build", "include", "_order">> \in PlainCategories
        /\ <<"build", "include", "_alpha">> \in PlainCategories
    BY PlainCategory DEF IncludeAlpha
  <2> QED
    BY <2>1, ErrEvent, NoEvents DEF IncludeError, OrderError, AlphaError
<1>2. ASSUME NEW include, NEW is_system
      PROVE  LineEvents(AcceptInclude(s, c, ln, f, include, is_system).errors, c, ln, v)
  <2> DEFINE listed == [s EXCEPT !.list[Len(s.list)] = @ \cup {[header |-> include, line |-> ln]}]
             next == CheckNextIncludeOrder(listed, ClassifyInclude(f, include, is_system))
             rank == Headers[include].rank
             late == IF next.late THEN <<OrderError(ln)>> ELSE <<>>
             alpha == IF IsInAlphabeticalOrder(next.includes, c.elided, ln, rank)
                      THEN <<>> ELSE <<AlphaError(ln)>>
  <2>1. AcceptInclude(s, c, ln, f, include, is_system).errors = late \o alpha
    BY DEF AcceptInclude
  <2>2. LineEvents(late, c, ln, v) /\ LineEvents(alpha, c, ln, v)
    <3> HIDE DEF next, rank
    <3> QED
      BY <1>1
  <2> HIDE DEF late, alpha
  <2> QED
    BY <2>1, <2>2, ConcatEvents
<1>3. LineEvents(CheckIncludeLine(s, c, ln, f).errors, c, ln, v)
  <2> DEFINE line == c.lines[ln]
             include == line.text[3]
             header == Headers[include]
             is_system == line.text[2] = "<"
             bare == /\ ~is_system /\ line.indent = 0
                     /\ header.dotH /\ header.dir = <<>> /\ ~header.thirdParty
             first == IF bare THEN <<IncludeError(ln)>> ELSE <<>>
             known == FindHeader(s, include)
             foreign == header.dotCc /\ header.dir # f.dir
             Rest == CASE known -> [includes |-> s, errors |-> <<IncludeError(ln)>>]
                       [] ~known /\ header.dotCc /\ header.dir # f.dir ->
                            [includes |-> s, errors |-> <<IncludeError(ln)>>]
                       [] ~known /\ ~(header.dotCc /\ header.dir # f.dir)
                          /\ header.thirdParty -> [includes |-> s, errors |-> <<>>]
                       [] OTHER -> AcceptInclude(s, c, ln, f, include, is_system)
  <2>1. CheckIncludeLine(s, c, ln, f) = [Rest EXCEPT !.errors = first \o @]
    BY DEF CheckIncludeLine
  <2>2. LineEvents(first, c, ln, v)
    <3> HIDE DEF bare
    <3> QED
      BY <1>1
  <2>3. "errors" \in DOMAIN Rest /\ LineEvents(Rest.errors, c, ln, v)
    <3>1. "errors" \in DOMAIN AcceptInclude(s, c, ln, f, include, is_system)
      BY DEF AcceptInclude
    <3>2. LineEvents(AcceptInclude(s, c, ln, f, include, is_system).errors, c, ln, v)
      BY <1>2
    <3>3. \/ Rest = [includes |-> s, errors |-> <<IncludeError(ln)>>]
          \/ Rest = [includes |-> s, errors |-> <<>>]
          \/ Rest = AcceptInclude(s, c, ln, f, include, is_system)
      <4> HIDE DEF known, header
      <4> QED
        OBVIOUS
    <3> HIDE DEF Rest
    <3>4. CASE Rest = [includes |-> s, errors |-> <<IncludeError(ln)>>]
      BY <1>1, <3>4
    <3>5. CASE Rest = [includes |-> s, errors |-> <<>>]
      BY <1>1, <3>5
    <3> QED
      BY <3>1, <3>2, <3>3, <3>4, <3>5, Zenon
  <2> HIDE DEF first, Rest
  <2>4. CheckIncludeLine(s, c, ln, f).errors = first \o Rest.errors
    BY <2>1, <2>3
  <2> QED
    BY <2>2, <2>3, <2>4, ConcatEvents
<1>4. \/ CheckLanguageIncludes(s, c, ln, f) = CheckIncludeLine(s, c, ln, f)
      \/ CheckLanguageIncludes(s, c, ln, f).errors = <<>>
  BY DEF CheckLanguageIncludes
<1> QED
  BY <1>1, <1>3, <1>4

\* The indentation in a namespace.
LEMMA NamespaceIndentationEvents ==
    ASSUME NEW n, NEW c, NEW ln \in Nat, NEW v
    PROVE  LineEvents(CheckForNamespaceIndentation(n, c, ln), c, ln, v)
<1>1. <<"runtime", "indentation_namespace">> \in PlainCategories
  BY PlainCategory
<1>2. \E x : CheckForNamespaceIndentation(n, c, ln)
                = When(x, Err(ln, <<"runtime", "indentation_namespace">>, 4))
  BY Zenon DEF CheckForNamespaceIndentation
<1> QED
  BY <1>1, <1>2, WhenErr

\* Comments and strings that do not end on their line.
LEMMA MultilineEvents ==
    ASSUME NEW c, NEW ln \in Nat, NEW v
    PROVE  LineEvents(CheckForMultilineCommentsAndStrings(c, ln), c, ln, v)
<1>1. /\ <<"readability", "multiline_comment">> \in PlainCategories
      /\ <<"readability", "multiline_string">> \in PlainCategories
  BY PlainCategory
<1>2. \E x, y : CheckForMultilineCommentsAndStrings(c, ln)
                  = When(x, Err(ln, <<"readability", "multiline_comment">>, 5))
                    \o When(y, Err(ln, <<"readability", "multiline_string">>, 5))
  BY Zenon DEF CheckForMultilineCommentsAndStrings
<1> QED
  BY <1>1, <1>2, WhenErr, ConcatEvents

\* A semicolon after a block may stand further down: the marks that may silence the error
\* are read before it.
LEMMA TrailingSemicolonEvents ==
    ASSUME NEW c, NEW end, NEW ln, NEW v
    PROVE  LineEvents(TrailingSemicolon(c, end), c, ln, v)
<1> DEFINE before == NolintEvents(c.raw_lines, end.line - 1)
           here == NolintEvents(c.raw_lines, end.line)
           e == Err(end.line, <<"readability", "braces">>, 4)
           marks == before \o here
           s == marks \o <<e>>
<1>1. /\ IsError(e, v) /\ e.line = end.line
  <2>1. <<"readability", "braces">> \in PlainCategories
    BY PlainCategory
  <2> QED
    BY <2>1 DEF IsError, Err, PlainCategories
<1> HIDE DEF e
<1>2. LineEvents(before, c, ln, v) /\ LineEvents(here, c, ln, v)
  BY MarkEvents
<1>3. LineEvents(marks, c, ln, v)
  BY <1>2, ConcatEvents
<1>4. \A k \in DOMAIN before : IsBefore(before[k], s, Len(marks) + 1)
  <2> SUFFICES ASSUME NEW k \in DOMAIN before PROVE IsBefore(before[k], s, Len(marks) + 1)
    OBVIOUS
  <2>1. k \in 1 .. Len(before) /\ Len(before) \in Nat /\ Len(here) \in Nat
    BY <1>2, SequenceFacts DEF LineEvents
  <2>2. Len(marks) = Len(before) + Len(here) /\ marks[k] = before[k]
    BY <1>2, <2>1, SequenceConcat DEF LineEvents
  <2> HIDE DEF marks, before, here
  <2>3. k \in 1 .. Len(marks) /\ Len(marks) \in Nat
    BY <2>1, <2>2
  <2>4. s[k] = before[k] /\ k \in 1 .. (Len(marks) + 1) - 1
    <3>1. s[k] = marks[k]
      BY <1>3, <2>3, ShortSequences, SequenceConcat DEF LineEvents
    <3> QED
      BY <2>2, <2>3, <3>1
  <2> QED
    BY <2>4 DEF IsBefore
<1>5. \A k \in DOMAIN here : IsBefore(here[k], s, Len(marks) + 1)
  <2> SUFFICES ASSUME NEW k \in DOMAIN here PROVE IsBefore(here[k], s, Len(marks) + 1)
    OBVIOUS
  <2>1. k \in 1 .. Len(here) /\ Len(before) \in Nat /\ Len(here) \in Nat
    BY <1>2, SequenceFacts DEF LineEvents
  <2>2. Len(marks) = Len(before) + Len(here) /\ marks[Len(before) + k] = here[k]
    BY <1>2, <2>1, SequenceConcat DEF LineEvents
  <2>3. PICK j : j = Len(before) + k
    OBVIOUS
  <2> HIDE DEF marks, before, here
  <2>4. j \in 1 .. Len(marks) /\ Len(marks) \in Nat /\ marks[j] = here[k]
    BY <2>1, <2>2, <2>3
  <2>5. s[j] = here[k] /\ j \in 1 .. (Len(marks) + 1) - 1
    <3>1. s[j] = marks[j]
      BY <1>3, <2>4, ShortSequences, SequenceConcat DEF LineEvents
    <3> QED
      BY <2>4, <3>1
  <2> QED
    BY <2>5 DEF IsBefore
<1>6. LineEvents(s, c, ln, v)
  <2>1. PICK m : m = Len(marks) + 1
    OBVIOUS
  <2>2. IsSequence(marks) /\ IsSequence(<<e>>) /\ DOMAIN <<e>> = {1} /\ <<e>>[1] = e
    BY <1>3, ShortSequences DEF LineEvents
  <2>3. IsSequence(s)
    BY <2>2, SequenceConcat
  <2>4. ASSUME NEW i \in DOMAIN s
        PROVE  (i \in DOMAIN marks /\ s[i] = marks[i]) \/ (i = m /\ s[i] = e)
    <3>1. (i \in DOMAIN marks /\ s[i] = marks[i])
          \/ \E k \in DOMAIN <<e>> : i = Len(marks) + k /\ s[i] = <<e>>[k]
      BY <2>2, ConcatPositions
    <3> QED
      BY <2>1, <2>2, <3>1
  <2> HIDE DEF s
  <2>5. ASSUME NEW i \in DOMAIN s, i = m, s[i] = e PROVE IsLineEvent(s, i, c, ln, v)
    <3>1. MarksAreBefore(s, i, c)
      BY <1>1, <1>4, <1>5, <2>1, <2>5 DEF MarksAreBefore
    <3> QED
      BY <1>1, <2>5, <3>1 DEF IsLineEvent
  <2>6. ASSUME NEW i \in DOMAIN s, i \in DOMAIN marks, s[i] = marks[i]
        PROVE  IsMark(s[i], c)
    <3>1. /\ before = <<>> \/ \E x : before = <<x>> /\ IsMark(x, c)
          /\ here = <<>> \/ \E x : here = <<x>> /\ IsMark(x, c)
      BY NolintEventsType DEF IsMark
    <3> HIDE DEF before, here
    <3>2. \/ i \in DOMAIN before /\ marks[i] = before[i]
          \/ \E k \in DOMAIN here : marks[i] = here[k]
      BY <1>2, <2>6, ConcatPositions DEF LineEvents
    <3>3. \A k \in DOMAIN before : IsMark(before[k], c)
      BY <3>1, ShortSequences
    <3>4. \A k \in DOMAIN here : IsMark(here[k], c)
      BY <3>1, ShortSequences
    <3> QED
      BY <2>6, <3>2, <3>3, <3>4
  <2>7. ASSUME NEW i \in DOMAIN s PROVE IsLineEvent(s, i, c, ln, v)
    BY <2>4, <2>5, <2>6 DEF IsLineEvent
  <2> QED
    BY <2>3, <2>7 DEF LineEvents, s
<1>7. TrailingSemicolon(c, end) = s \/ TrailingSemicolon(c, end) = <<>>
  BY DEF TrailingSemicolon, e
<1> HIDE DEF s
<1> QED
  BY <1>6, <1>7, NoEvents

\* An empty body may end further down, and is found early.
LEMMA EmptyBlockBodyEvents ==
    ASSUME NEW c, NEW ln, NEW v
    PROVE  LineEvents(CheckEmptyBlockBody(c, ln), c, ln, v)
<1> DEFINE text == c.elided[ln].text
           body == IF text[1] = "if" THEN "empty_conditional_body" ELSE "empty_loop_body"
           end == CloseExpression(c.elided, ln, 2)
           first == When(TokenAt(c.elided, end) = ";", Err(end.line, <<"whitespace", body>>, 5))
           second == When(end # Nowhere /\ text[1] = "if" /\ IsEmptyIf(c, end),
                          Err(end.line, <<"whitespace", "empty_if_body">>, 4))
<1>1. CheckEmptyBlockBody(c, ln) = first \o second \/ CheckEmptyBlockBody(c, ln) = <<>>
  BY Zenon DEF CheckEmptyBlockBody
<1>2. /\ <<"whitespace", body>> \in PlainCategories \cap FoundEarly
      /\ <<"whitespace", "empty_if_body">> \in PlainCategories \cap FoundEarly
  <2>1. body = "empty_conditional_body" \/ body = "empty_loop_body"
    OBVIOUS
  <2> HIDE DEF body
  <2> QED
    BY <2>1, PlainCategory DEF FoundEarly
<1>3. LineEvents(first, c, ln, v) /\ LineEvents(second, c, ln, v)
  <2> HIDE DEF body, end, text
  <2> QED
    BY <1>2, WhenErr
<1> HIDE DEF first, second
<1> QED
  BY <1>1, <1>3, ConcatEvents, NoEvents

\* CheckStyle and the checks it calls.
LEMMA StyleEvents ==
    ASSUME NEW n, NEW c, NEW ln \in Nat, NEW f, NEW cppvar, NEW length, NEW v
    PROVE  LineEvents(CheckStyle(n, c, ln, f, cppvar, length), c, ln, v)
<1> DEFINE Ok(s) == LineEvents(s, c, ln, v)
           line == c.lines_without_raw_strings[ln]
           class == InnermostClass(n)
           tab == When(Has("TAB", line.text), Err(ln, <<"whitespace", "tab">>, 1))
           indent == When(IsWeirdIndent(c, ln), Err(ln, <<"whitespace", "indent">>, 3))
           width == When(~MayBeLong(line, f, cppvar) /\ GetLineWidth(line) > length,
                         Err(ln, <<"whitespace", "line_length">>, 2))
           commands == When(HasManyCommands(c, ln), Err(ln, <<"whitespace", "newline">>, 0))
           semicolon == CheckTrailingSemicolon(c, ln)
           body == CheckEmptyBlockBody(c, ln)
           access == CheckAccess(n, c, ln)
           spacing == IF class = <<>> THEN <<>> ELSE CheckSectionSpacing(class[1], c, ln)
<1>1. CheckStyle(n, c, ln, f, cppvar, length)
        = tab \o indent \o width \o commands \o semicolon \o body \o access \o spacing
  BY DEF CheckStyle
<1>2. Ok(tab) /\ Ok(indent) /\ Ok(width) /\ Ok(commands)
  <2>1. /\ <<"whitespace", "tab">> \in PlainCategories
        /\ <<"whitespace", "indent">> \in PlainCategories
        /\ <<"whitespace", "line_length">> \in PlainCategories
        /\ <<"whitespace", "newline">> \in PlainCategories
    BY PlainCategory
  <2> QED
    BY <2>1, WhenErr
<1>3. Ok(semicolon) /\ Ok(body)
  BY TrailingSemicolonEvents, EmptyBlockBodyEvents DEF CheckTrailingSemicolon
<1>4. Ok(access)
  <2>1. <<"readability", "constructors">> \in PlainCategories
    BY PlainCategory
  <2>2. \E x : access = When(x, Err(ln, <<"readability", "constructors">>, 3))
    BY Zenon DEF CheckAccess
  <2> QED
    BY <2>1, <2>2, WhenErr
<1>5. Ok(spacing)
  <2>1. <<"whitespace", "blank_line">> \in PlainCategories
    BY PlainCategory
  <2>2. \E x : CheckSectionSpacing(class[1], c, ln)
                 = When(x, Err(ln, <<"whitespace", "blank_line">>, 3))
    BY Zenon DEF CheckSectionSpacing
  <2>3. Ok(CheckSectionSpacing(class[1], c, ln)) /\ Ok(<<>>)
    BY <2>1, <2>2, WhenErr, NoEvents
  <2> QED
    BY <2>3
<1> HIDE DEF tab, indent, width, commands, semicolon, body, access, spacing
<1>6. \A s, t : Ok(s) /\ Ok(t) => Ok(s \o t)
  BY ConcatEvents
<1> HIDE DEF Ok
<1>7. Ok(tab \o indent \o width \o commands \o semicolon \o body \o access \o spacing)
  BY <1>2, <1>3, <1>4, <1>5, <1>6
<1> QED
  BY <1>1, <1>7 DEF Ok

\* s is what t starts with.
StartsWith(t, s) == \A k \in DOMAIN s : k \in DOMAIN t /\ t[k] = s[k]

\* A beginning stays one when more is added at the end.
LEMMA StartStays ==
    ASSUME NEW s, NEW t, NEW u, IsSequence(t), IsSequence(u), StartsWith(t, s)
    PROVE  StartsWith(t \o u, s)
<1>1. PICK w, m, n : w = t \o u /\ m = Len(t) /\ n = Len(u)
  OBVIOUS
<1>2. /\ m \in Nat /\ n \in Nat /\ DOMAIN t = 1 .. m /\ DOMAIN w = 1 .. m + n
      /\ \A k \in 1 .. m : w[k] = t[k]
  BY <1>1, SequenceFacts, SequenceConcat
<1>3. StartsWith(w, s)
  BY <1>2 DEF StartsWith
<1> QED
  BY <1>1, <1>3

\* What a line gives: its own mark, then what its checks find.
LEMMA FinishLineEvents ==
    ASSUME NEW words, NEW updated, NEW measured, NEW included, NEW ln \in 1 .. Len(clean.raw_lines), NEW v,
           FinishLine(ln, updated, measured, included),
           IsNesting(updated.nesting, words), LineEvents(updated.errors, clean, ln, v),
           IsFunction(function), IsFunction(measured.function),
           LineEvents(measured.errors, clean, ln, v), LineEvents(included.errors, clean, ln, v)
    PROVE  /\ IsNesting(nesting', words) /\ IsFunction(function')
           /\ LineEvents(pending', clean, ln, v)
           /\ StartsWith(pending', NolintEvents(clean.raw_lines, ln))
<1> DEFINE Ok(s) == LineEvents(s, clean, ln, v)
           inAsm == InAsmBlock(updated.nesting)
           mark == NolintEvents(clean.raw_lines, ln)
           indented == CheckForNamespaceIndentation(nesting', clean, ln)
           several == CheckForMultilineCommentsAndStrings(clean, ln)
           style == CheckStyle(nesting', clean, ln, File, Cppvar, lineLength)
           checks == IF inAsm THEN <<>>
                     ELSE measured.errors \o several \o style \o included.errors
<1>1. ln \in Nat /\ IsNesting(nesting', words) /\ IsFunction(function')
  <2>1. /\ nesting' = updated.nesting
        /\ function' = function \/ function' = measured.function
    BY Zenon DEF FinishLine
  <2> QED
    BY <2>1
<1>2. pending' = mark \o updated.errors \o indented \o checks
  BY ZenonT(60) DEF FinishLine
<1>3. Ok(mark) /\ Ok(updated.errors) /\ Ok(measured.errors) /\ Ok(included.errors) /\ Ok(<<>>)
  BY MarkEvents, NoEvents
<1>4. Ok(indented) /\ Ok(several) /\ Ok(style)
  BY <1>1, NamespaceIndentationEvents, MultilineEvents, StyleEvents
<1>5. \A s, t : Ok(s) /\ Ok(t) => Ok(s \o t)
  BY ConcatEvents
<1>6. \A s : Ok(s) => IsSequence(s)
  BY DEF LineEvents
<1>7. \A s, t : Ok(s) /\ Ok(t) /\ StartsWith(s, mark) => StartsWith(s \o t, mark)
  BY <1>6, StartStays
<1> HIDE DEF Ok, indented, several, style, mark, inAsm
<1>8. Ok(checks)
  <2>1. Ok(measured.errors \o several \o style \o included.errors)
    BY <1>3, <1>4, <1>5
  <2> QED
    BY <1>3, <2>1
<1> HIDE DEF checks
<1>9. StartsWith(mark, mark)
  BY DEF StartsWith
<1>10. Ok(pending') /\ StartsWith(pending', mark)
  <2>1. PICK s : s = mark \o updated.errors
    OBVIOUS
  <2>2. PICK t : t = s \o indented
    OBVIOUS
  <2>3. Ok(s) /\ StartsWith(s, mark)
    BY <1>3, <1>5, <1>7, <1>9, <2>1
  <2>4. Ok(t) /\ StartsWith(t, mark)
    BY <1>4, <1>5, <1>7, <2>2, <2>3
  <2> QED
    BY <1>2, <1>5, <1>7, <1>8, <2>1, <2>2, <2>4
<1> QED
  BY <1>1, <1>10 DEF Ok, mark

LEMMA WordsOfLine ==
    ASSUME NEW c, IsClean(c), NEW ln \in 1 .. Len(c.raw_lines)
    PROVE  c.elided[ln].text \in Seq(Words(c))
<1>1. PICK text : text = c.elided[ln].text
  OBVIOUS
<1>2. ln \in DOMAIN c.elided /\ IsSequence(text)
  <2>1. ln \in DOMAIN c.elided
    BY SequenceFacts DEF IsClean, AreLines
  <2> QED
    BY <1>1, <2>1 DEF IsClean, AreLines
<1>3. Range(text) \subseteq Words(c)
  BY <1>1, <1>2 DEF Words
<1> QED
  BY <1>1, <1>2, <1>3, SeqMonotonic DEF IsSequence

\* ProcessLine: the checks of one line.
LEMMA ProcessLineEvents ==
    ASSUME ProcessLine, IsClean(clean), IsNesting(nesting, Words(clean)), IsFunction(function),
           position \in Nat \ {0}, verboseLevel \in Nat
    PROVE  /\ position \in 1 .. Len(clean.raw_lines)
           /\ IsNesting(nesting', Words(clean)) /\ IsFunction(function')
           /\ LineEvents(pending', clean, position, verboseLevel)
           /\ StartsWith(pending', NolintEvents(clean.raw_lines, position))
<1>1. position \in 1 .. Len(clean.raw_lines) /\ position \in Nat
  <2>1. Len(clean.raw_lines) \in Nat
    BY SequenceFacts DEF IsClean, AreLines
  <2> QED
    BY <2>1 DEF ProcessLine
<1> DEFINE updated == Update(nesting, clean, position)
           measured == CheckForFunctionLengths(function, clean, position, verboseLevel)
           included == CheckLanguageIncludes(includes, clean, position, File)
<1>2. IsNesting(updated.nesting, Words(clean)) /\ LineEvents(updated.errors, clean, position, verboseLevel)
  BY <1>1, WordsOfLine, UpdateKeeps
<1>3. /\ IsFunction(measured.function)
      /\ LineEvents(measured.errors, clean, position, verboseLevel)
  BY <1>1, FunctionLengthEvents
<1>4. LineEvents(included.errors, clean, position, verboseLevel)
  BY <1>1, IncludeEvents
<1>5. FinishLine(position, updated, measured, included)
  BY DEF ProcessLine
<1> HIDE DEF updated, measured, included
<1>6. /\ IsNesting(nesting', Words(clean)) /\ IsFunction(function')
      /\ LineEvents(pending', clean, position, verboseLevel)
      /\ StartsWith(pending', NolintEvents(clean.raw_lines, position))
  BY <1>1, <1>2, <1>3, <1>4, <1>5, FinishLineEvents
<1> QED
  BY <1>1, <1>6

-----------------------------------------------------------------------------
(* The beginning of a file.                                                *)

\* The marker put before a file is a line.
LEMMA MarkerIsLine == IsSequence(Marker.text)
<1>1. \A a, b : IsSequence(<<a, b>>)
  <2>1. \A a, b : <<a, b>> \in Seq({a, b}) /\ Range(<<a, b>>) = {a, b}
    BY DEF Range
  <2> QED
    BY <2>1 DEF IsSequence
<1>2. \E a, b : Marker.text = <<a, b>>
  BY DEF Marker, Line
<1> QED
  BY <1>1, <1>2

\* The lines of a file between its markers.
LEMMA MarkedLinesType ==
    ASSUME NEW f, AreLines(f.lines)
    PROVE  AreLines(MarkedLines(f)) /\ MarkedLines(f) # <<>> /\ MarkedLines(f)[1] = Marker
<1>1. PICK m, s, t, u : m = <<Marker>> /\ s = f.lines /\ t = m \o s /\ u = t \o m
  OBVIOUS
<1>2. MarkedLines(f) = u
  BY <1>1, Zenon DEF MarkedLines
<1>3. IsSequence(Marker.text)
  BY MarkerIsLine
<1>4. IsSequence(m) /\ Len(m) = 1 /\ m[1] = Marker /\ DOMAIN m = {1}
  BY <1>1, ShortSequences
<1>5. AreLines(m)
  BY <1>3, <1>4 DEF AreLines
<1>6. \A a, b : AreLines(a) /\ AreLines(b) => AreLines(a \o b)
  <2> SUFFICES ASSUME NEW a, NEW b, AreLines(a), AreLines(b) PROVE AreLines(a \o b)
    OBVIOUS
  <2>1. IsSequence(a) /\ IsSequence(b) /\ IsSequence(a \o b)
    BY SequenceConcat DEF AreLines
  <2>2. ASSUME NEW i \in DOMAIN (a \o b) PROVE IsSequence((a \o b)[i].text)
    BY <2>1, ConcatPositions DEF AreLines
  <2> QED
    BY <2>1, <2>2 DEF AreLines
<1>7. AreLines(t) /\ AreLines(u)
  BY <1>1, <1>5, <1>6
<1>8. StartsWith(u, m)
  <2>1. StartsWith(m, m)
    BY DEF StartsWith
  <2>2. StartsWith(t, m)
    BY <1>1, <1>4, <2>1, StartStays DEF AreLines
  <2> QED
    BY <1>1, <1>4, <1>7, <2>2, StartStays DEF AreLines
<1>9. 1 \in DOMAIN u /\ u[1] = Marker
  BY <1>4, <1>8 DEF StartsWith
<1>10. u # <<>>
  BY <1>9, ShortSequences
<1> QED
  BY <1>2, <1>7, <1>9, <1>10

\* The marker put before a file is no NOLINT mark.
LEMMA MarkerHasNoMark ==
    ASSUME NEW lines, IsSequence(lines), lines[1] = Marker, NEW ln \in Int, ln <= 1
    PROVE  NolintEvents(lines, ln) = <<>>
<1>1. CASE ln \in DOMAIN lines
  <2>1. ln = 1
    BY <1>1, SequenceFacts
  <2>2. TextAt(lines, ln) = Marker.text
    BY <1>1, <2>1 DEF TextAt
  <2> DEFINE I == {i \in 1 .. Len(Marker.text) : Marker.text[i] \in DOMAIN Nolints}
  <2>3. I = {}
    <3>1. DOMAIN Marker.text = 1 .. Len(Marker.text)
      BY MarkerIsLine, SequenceFacts
    <3> QED
      BY <3>1, NolintsAssumption DEF Range
  <2>4. SelectInSeq(Marker.text, LAMBDA t : t \in DOMAIN Nolints) = 0
    <3>1. SelectInSeq(Marker.text, LAMBDA t : t \in DOMAIN Nolints) = IF I # {} THEN Min(I) ELSE 0
      BY Zenon DEF SelectInSeq
    <3> HIDE DEF I
    <3> QED
      BY <2>3, <3>1
  <2> QED
    BY <2>2, <2>4 DEF NolintEvents
<1>2. CASE ln \notin DOMAIN lines
  BY <1>2, NolintEventsType
<1> QED
  BY <1>1, <1>2

\* A comment that does not end is found early (RemoveMultiLineComments).
LEMMA UnclosedAreEvents ==
    ASSUME NEW removed, IsSequence(removed.unclosed), NEW c, NEW ln, NEW v
    PROVE  LineEvents(UnclosedEvents(removed), c, ln, v)
<1> DEFINE category == <<"readability", "multiline_comment">>
           E(x) == Err(x + 1, category, 5)
<1>1. category \in ErrorCategories /\ category \in FoundEarly /\ category # FnSize
  BY PlainCategory DEF PlainCategories, FoundEarly
<1> HIDE DEF category
<1>2. \A x : E(x).kind = "error" /\ E(x).category = category
  BY DEF Err
<1>3. PICK s, n : s = UnclosedEvents(removed) /\ n = Len(removed.unclosed)
  OBVIOUS
<1>4. s = [i \in DOMAIN removed.unclosed |-> E(removed.unclosed[i])]
  BY <1>3 DEF UnclosedEvents, category
<1> HIDE DEF E
<1>5. n \in Nat /\ DOMAIN removed.unclosed = 1 .. n
  BY <1>3, SequenceFacts
<1>6. s \in [1 .. n -> {E(removed.unclosed[i]) : i \in 1 .. n}]
  BY <1>4, <1>5
<1>7. IsSequence(s)
  BY <1>5, <1>6, SequenceFromFunction
<1>8. ASSUME NEW i \in DOMAIN s PROVE IsLineEvent(s, i, c, ln, v)
  <2>1. s[i] = E(removed.unclosed[i])
    BY <1>4
  <2>2. s[i].kind = "error" /\ s[i].category = category
    BY <1>2, <2>1
  <2> QED
    BY <1>1, <2>2 DEF IsLineEvent, IsError
<1> QED
  BY <1>3, <1>7, <1>8 DEF LineEvents

\* A missing copyright is reported at the marker.
LEMMA CopyrightEvents ==
    ASSUME NEW lines, NEW c, NEW v
    PROVE  LineEvents(CheckForCopyright(lines), c, 1, v)
<1>1. <<"legal", "copyright">> \in PlainCategories
  BY PlainCategory
<1>2. \E x : CheckForCopyright(lines) = When(x, Err(1, <<"legal", "copyright">>, 5))
  BY Zenon DEF CheckForCopyright
<1> QED
  BY <1>1, <1>2, WhenErr

\* An error about the header guard, after the mark of its line.
LEMMA GuardEvents ==
    ASSUME NEW c, NEW m, NEW confidence, NEW ln, NEW v
    PROVE  LineEvents(NolintEvents(c.lines_without_raw_strings, m)
                        \o <<GuardError(m, confidence)>>, c, ln, v)
<1> DEFINE category == <<"build", "header_guard">>
<1>1. category \in ErrorCategories /\ category \in FoundBeforeTheLines /\ category # FnSize
  BY PlainCategory DEF PlainCategories, FoundBeforeTheLines
<1> HIDE DEF category
<1>2. PICK marks, e, s : /\ marks = NolintEvents(c.lines_without_raw_strings, m)
                         /\ e = GuardError(m, confidence) /\ s = marks \o <<e>>
  OBVIOUS
<1>3. e.kind = "error" /\ e.category = category /\ e.line = m
  BY <1>2 DEF GuardError, Err, category
<1>4. LineEvents(marks, c, ln, v)
  BY <1>2, MarkEvents
<1>5. PICK n : n = Len(marks)
  OBVIOUS
<1>6. /\ IsSequence(s) /\ n \in Nat /\ DOMAIN marks = 1 .. n /\ DOMAIN s = 1 .. n + 1
      /\ \A k \in 1 .. n : s[k] = marks[k]
      /\ s[n + 1] = e
  <2>1. IsSequence(marks) /\ IsSequence(<<e>>) /\ Len(<<e>>) = 1 /\ <<e>>[1] = e
    BY <1>4, ShortSequences DEF LineEvents
  <2> QED
    BY <1>2, <1>5, <2>1, SequenceFacts, SequenceConcat
<1>7. ASSUME NEW i \in 1 .. n PROVE IsLineEvent(s, i, c, ln, v)
  <2>1. i \in DOMAIN marks /\ s[i] = marks[i] /\ IsLineEvent(marks, i, c, ln, v)
    BY <1>4, <1>6 DEF LineEvents
  <2>2. s[i].kind = "nolint"
    <3>1. \/ marks = <<>>
          \/ \E f : marks = <<f>> /\ f.kind = "nolint"
      BY <1>2, NolintEventsType
    <3> QED
      BY <2>1, <3>1, ShortSequences
  <2> QED
    BY <2>1, <2>2 DEF IsLineEvent, IsError
<1>8. ASSUME NEW i, i = n + 1 PROVE IsLineEvent(s, i, c, ln, v)
  <2>1. \A k \in DOMAIN marks : IsBefore(marks[k], s, i)
    BY <1>6, <1>8 DEF IsBefore
  <2>2. OwnMarkIsBefore(s, i, c)
    BY <1>2, <1>3, <1>6, <1>8, <2>1 DEF OwnMarkIsBefore
  <2> QED
    BY <1>1, <1>3, <1>6, <1>8, <2>2 DEF IsLineEvent, IsError
<1>9. \A i \in DOMAIN s : IsLineEvent(s, i, c, ln, v)
  BY <1>6, <1>7, <1>8
<1> QED
  BY <1>2, <1>6, <1>9 DEF LineEvents

\* The header guard: at the marker, or after the mark of its own line (CheckForHeaderGuard).
LEMMA HeaderGuardEvents ==
    ASSUME NEW c, NEW cppvar, NEW v
    PROVE  LineEvents(CheckForHeaderGuard(c, cppvar), c, 1, v)
<1> DEFINE Ok(s) == LineEvents(s, c, 1, v)
           raw == c.lines_without_raw_strings
           ifndef == FirstArgument(raw, "#ifndef")
           endifs == {i \in DOMAIN raw : At(raw[i].text, 1) = "#endif" /\ raw[i].indent = 0}
           endifLine == IF endifs = {} THEN 1 ELSE Max(endifs)
           style == IF ifndef.name = cppvar.name THEN <<>>
                    ELSE Append(NolintEvents(raw, ifndef.line),
                                GuardError(ifndef.line,
                                           IF ifndef.name = cppvar.doubled THEN 0 ELSE 5))
           r == CheckForHeaderGuard(c, cppvar)
<1>1. /\ \A s, t : Ok(s) /\ Ok(t) => Ok(s \o t)
      /\ Ok(<<>>) /\ \A m : Ok(NolintEvents(raw, m))
      /\ \A m, k : Ok(NolintEvents(raw, m) \o <<GuardError(m, k)>>)
  BY ConcatEvents, NoEvents, MarkEvents, GuardEvents
<1>2. Ok(<<GuardError(1, 5)>>)
  BY PlainCategory, ErrEvent DEF GuardError
<1>3. \A s : Ok(s) => IsSequence(s)
  BY DEF LineEvents
<1>4. \/ r = <<>> \/ r = <<GuardError(1, 5)>>
      \/ \E endif, mark : r = style \o NolintEvents(raw, endifLine)
                                    \o EndifEvents(endif, endifLine, cppvar, mark)
  BY Zenon DEF CheckForHeaderGuard
<1> HIDE DEF Ok, endifs, endifLine, r
<1>5. Ok(style)
  <2>1. CASE ifndef.name = cppvar.name
    BY <1>1, <2>1
  <2>2. CASE ifndef.name # cppvar.name
    <3>1. PICK s, e, k : /\ s = NolintEvents(raw, ifndef.line)
                         /\ k = IF ifndef.name = cppvar.doubled THEN 0 ELSE 5
                         /\ e = GuardError(ifndef.line, k)
      OBVIOUS
    <3>2. style = Append(s, e)
      BY <2>2, <3>1
    <3>3. Ok(s) /\ Ok(s \o <<e>>)
      BY <1>1, <3>1
    <3> HIDE DEF style
    <3>4. Append(s, e) = s \o <<e>>
      <4>1. IsSequence(s)
        BY <1>3, <3>3
      <4>2. s \in Seq(Range(s) \cup {e}) /\ e \in Range(s) \cup {e}
        BY <4>1, SeqMonotonic DEF IsSequence
      <4> QED
        BY <4>2, AppendIsConcat
    <3> QED
      BY <3>2, <3>3, <3>4
  <2> QED
    BY <2>1, <2>2
<1> HIDE DEF style, ifndef
<1>6. ASSUME NEW endif, NEW mark
      PROVE  Ok(style \o NolintEvents(raw, endifLine)
                      \o EndifEvents(endif, endifLine, cppvar, mark))
  <2>1. \/ EndifEvents(endif, endifLine, cppvar, mark) = <<>>
        \/ \E k : EndifEvents(endif, endifLine, cppvar, mark) = <<GuardError(endifLine, k)>>
    <3> DEFINE closed == At(endif, 2) = mark /\ (mark = "/*" => At(endif, 4) = "*/")
               named == closed /\ At(endif, 3) = cppvar.name
               doubled == closed /\ At(endif, 3) = cppvar.doubled
               E(k) == <<GuardError(endifLine, k)>>
    <3>1. EndifEvents(endif, endifLine, cppvar, mark)
            = CASE named -> <<>> [] doubled -> E(0) [] OTHER -> E(5)
      BY Zenon DEF EndifEvents
    <3> HIDE DEF named, doubled, E
    <3>2. \/ EndifEvents(endif, endifLine, cppvar, mark) = <<>>
          \/ \E k : EndifEvents(endif, endifLine, cppvar, mark) = E(k)
      BY <3>1
    <3> QED
      BY <3>2 DEF E
  <2>2. PICK marks, e : /\ marks = NolintEvents(raw, endifLine)
                        /\ e = EndifEvents(endif, endifLine, cppvar, mark)
    OBVIOUS
  <2>3. Ok(marks \o e)
    <3>1. CASE e = <<>>
      BY <1>1, <2>2, <3>1
    <3>2. ASSUME NEW k, e = <<GuardError(endifLine, k)>> PROVE Ok(marks \o e)
      BY <1>1, <2>2, <3>2
    <3> QED
      BY <2>1, <2>2, <3>1, <3>2
  <2>4. Ok(style \o (marks \o e))
    BY <1>1, <1>5, <2>3
  <2>5. (style \o marks) \o e = style \o (marks \o e)
    <3>1. IsSequence(e)
      BY <2>1, <2>2, ShortSequences
    <3>2. IsSequence(style) /\ IsSequence(marks)
      BY <1>1, <1>3, <1>5, <2>2
    <3> DEFINE S == Range(style) \cup Range(marks) \cup Range(e)
    <3>3. style \in Seq(S) /\ marks \in Seq(S) /\ e \in Seq(S)
      BY <3>1, <3>2, SeqMonotonic DEF IsSequence
    <3> QED
      BY <3>3, ConcatAssociative
  <2> QED
    BY <2>2, <2>4, <2>5
<1>7. Ok(r)
  BY <1>1, <1>2, <1>4, <1>6
<1> QED
  BY <1>7 DEF Ok, r

\* OpenFile: the copies of the lines, and what is found before the first of them.
LEMMA OpenFileEvents ==
    ASSUME OpenFile, AreLines(File.lines), verboseLevel \in Nat
    PROVE  /\ IsClean(clean') /\ clean'.raw_lines[1] = Marker
           /\ position' \in 1 .. Len(clean'.raw_lines) + 1
           /\ IsNesting(nesting', Words(clean')) /\ IsFunction(function')
           /\ LineEvents(pending', clean', 1, verboseLevel)
<1> DEFINE lines == MarkedLines(File)
           removed == RemoveMultiLineComments(lines)
           guard == IF File.extension = "h" THEN CheckForHeaderGuard(clean', Cppvar) ELSE <<>>
           copyright == CheckForCopyright(lines)
           unclosed == UnclosedEvents(removed)
           Ok(s) == LineEvents(s, clean', 1, verboseLevel)
<1>1. /\ clean' = CleansedLines(removed.lines) /\ position' = 1
      /\ nesting' = InitialNesting /\ function' = InitialFunction
      /\ pending' = copyright \o unclosed \o guard
  BY ZenonT(60) DEF OpenFile
<1>2. AreLines(lines) /\ lines # <<>> /\ lines[1] = Marker
  BY MarkedLinesType
<1> HIDE DEF lines
<1>3. AreLines(removed.lines) /\ removed.lines[1] = Marker /\ IsSequence(removed.unclosed)
  BY <1>2, RemoveMultiLineCommentsType
<1> HIDE DEF removed
<1>4. IsClean(clean') /\ clean'.raw_lines = removed.lines
  BY <1>1, <1>3, CleansedLinesType
<1>5. position' \in 1 .. Len(clean'.raw_lines) + 1
  <2>1. Len(clean'.raw_lines) \in Nat
    BY <1>3, <1>4, SequenceFacts DEF AreLines
  <2> QED
    BY <1>1, <2>1
<1>6. IsNesting(nesting', Words(clean')) /\ IsFunction(function')
  <2>1. IsStack(<<>>, Words(clean')) /\ IsSequence(<<>>) /\ DOMAIN <<>> = {}
    BY ShortSequences DEF IsStack
  <2> QED
    BY <1>1, <2>1 DEF IsNesting, InitialNesting, IsFunction, InitialFunction
<1>7. Ok(copyright) /\ Ok(unclosed) /\ Ok(guard)
  BY <1>3, CopyrightEvents, UnclosedAreEvents, HeaderGuardEvents, NoEvents
<1>8. \A s, t : Ok(s) /\ Ok(t) => Ok(s \o t)
  BY ConcatEvents
<1> HIDE DEF Ok, copyright, unclosed, guard
<1>9. Ok(pending')
  BY <1>1, <1>7, <1>8
<1> QED
  BY <1>3, <1>4, <1>5, <1>6, <1>9 DEF Ok

-----------------------------------------------------------------------------
(* The end of a file: nothing but errors.                                  *)

AreErrors(s, v) == IsSequence(s) /\ \A i \in DOMAIN s : IsError(s[i], v)

\* The shapes of what the last checks give.
LEMMA SomeErrors ==
    ASSUME NEW v
    PROVE  /\ AreErrors(<<>>, v)
           /\ \A line, confidence : \A category \in PlainCategories :
                    /\ IsError(Err(line, category, confidence), v)
                    /\ AreErrors(<<Err(line, category, confidence)>>, v)
           /\ \A s, t : AreErrors(s, v) /\ AreErrors(t, v) => AreErrors(s \o t, v)
<1>1. AreErrors(<<>>, v)
  BY ShortSequences DEF AreErrors
<1>2. ASSUME NEW line, NEW confidence, NEW category \in PlainCategories
      PROVE  /\ IsError(Err(line, category, confidence), v)
             /\ AreErrors(<<Err(line, category, confidence)>>, v)
  <2>1. IsError(Err(line, category, confidence), v)
    BY DEF IsError, Err, PlainCategories
  <2> QED
    BY <2>1, ShortSequences DEF AreErrors
<1>3. ASSUME NEW s, NEW t, AreErrors(s, v), AreErrors(t, v) PROVE AreErrors(s \o t, v)
  <2>1. IsSequence(s) /\ IsSequence(t) /\ IsSequence(s \o t)
    BY <1>3, SequenceConcat DEF AreErrors
  <2>2. ASSUME NEW i \in DOMAIN (s \o t) PROVE IsError((s \o t)[i], v)
    BY <1>3, <2>1, ConcatPositions DEF AreErrors
  <2> QED
    BY <2>1, <2>2 DEF AreErrors
<1> QED
  BY <1>1, <1>2, <1>3

\* Sequences of errors of a set, one after the other.
LEMMA FlattenedErrors ==
    ASSUME NEW n \in Nat, NEW S, NEW seqs \in [1 .. n -> Seq(S)], NEW v,
           \A e \in S : IsError(e, v)
    PROVE  AreErrors(FlattenSeq(seqs), v)
<1>1. PICK s : s = FlattenSeq(seqs)
  OBVIOUS
<1>2. s \in Seq(S)
  <2>1. DOMAIN seqs = 1 .. n
    OBVIOUS
  <2> QED
    BY <1>1, <2>1, FlattenSeqKeeps
<1>3. AreErrors(s, v)
  BY <1>2, SequenceOver DEF AreErrors
<1> QED
  BY <1>1, <1>3

\* Blocks that are still open (CheckCompletedBlocks).
LEMMA CompletedBlocksEvents ==
    ASSUME NEW words, NEW n, IsNesting(n, words), NEW v
    PROVE  AreErrors(CheckCompletedBlocks(n), v)
<1> DEFINE ofClass(b) == Err(b.start, <<"build", "class">>, 5)
           ofNamespace(b) == Err(b.start, <<"build", "namespaces">>, 5)
           Unfinished(b) == CASE b.kind = "class" -> <<ofClass(b)>>
                              [] b.kind = "namespace" -> <<ofNamespace(b)>>
                              [] OTHER -> <<>>
           S == {ofClass(n.stack[i]) : i \in DOMAIN n.stack}
                    \cup {ofNamespace(n.stack[i]) : i \in DOMAIN n.stack}
           seqs == [i \in DOMAIN n.stack |-> Unfinished(n.stack[i])]
<1>1. CheckCompletedBlocks(n) = FlattenSeq(seqs)
  BY DEF CheckCompletedBlocks
<1>2. \A b : IsError(ofClass(b), v) /\ IsError(ofNamespace(b), v)
  BY PlainCategory, SomeErrors
<1>3. Len(n.stack) \in Nat /\ DOMAIN n.stack = 1 .. Len(n.stack)
  BY SequenceFacts DEF IsNesting, IsStack
<1>4. \A b : Unfinished(b) = <<ofClass(b)>> \/ Unfinished(b) = <<ofNamespace(b)>>
             \/ Unfinished(b) = <<>>
  <2> HIDE DEF ofClass, ofNamespace
  <2> QED
    OBVIOUS
<1> HIDE DEF ofClass, ofNamespace, Unfinished
<1>5. \A e \in S : IsError(e, v)
  BY <1>2
<1>6. \A i \in DOMAIN n.stack : Unfinished(n.stack[i]) \in Seq(S)
  <2> SUFFICES ASSUME NEW i \in DOMAIN n.stack PROVE Unfinished(n.stack[i]) \in Seq(S)
    OBVIOUS
  <2>1. ofClass(n.stack[i]) \in S /\ ofNamespace(n.stack[i]) \in S
    OBVIOUS
  <2> HIDE DEF S
  <2>2. <<>> \in Seq(S) /\ \A e \in S : <<e>> \in Seq(S)
    OBVIOUS
  <2> QED
    BY <1>4, <2>1, <2>2
<1> HIDE DEF S
<1>7. seqs \in [1 .. Len(n.stack) -> Seq(S)]
  BY <1>3, <1>6
<1> HIDE DEF seqs
<1>8. AreErrors(FlattenSeq(seqs), v)
  BY <1>3, <1>5, <1>7, FlattenedErrors
<1> QED
  BY <1>1, <1>8

\* Lines that end in CR LF when others do not.
LEMMA LineEndErrors ==
    ASSUME NEW f, IsSequence(f.lines), NEW v
    PROVE  AreErrors(LineEndEvents(f), v)
<1> DEFINE E(i) == Err(i + 1, <<"whitespace", "newline">>, 1)
           S == {E(i) : i \in DOMAIN f.lines}
           seqs == [i \in DOMAIN f.lines |-> When(i \in f.crlf, E(i))]
<1>1. LineEndEvents(f) = <<>> \/ LineEndEvents(f) = FlattenSeq(seqs)
  BY DEF LineEndEvents
<1>2. \A i : IsError(E(i), v)
  BY PlainCategory, SomeErrors
<1>3. Len(f.lines) \in Nat /\ DOMAIN f.lines = 1 .. Len(f.lines)
  BY SequenceFacts
<1> HIDE DEF E
<1>4. \A e \in S : IsError(e, v)
  BY <1>2
<1>5. \A i \in DOMAIN f.lines : When(i \in f.crlf, E(i)) \in Seq(S)
  <2> SUFFICES ASSUME NEW i \in DOMAIN f.lines PROVE When(i \in f.crlf, E(i)) \in Seq(S)
    OBVIOUS
  <2>1. E(i) \in S
    OBVIOUS
  <2> HIDE DEF S
  <2>2. <<>> \in Seq(S) /\ <<E(i)>> \in Seq(S)
    BY <2>1
  <2> QED
    BY <2>2 DEF When
<1> HIDE DEF S
<1>6. seqs \in [1 .. Len(f.lines) -> Seq(S)]
  BY <1>3, <1>5
<1> HIDE DEF seqs
<1>7. AreErrors(FlattenSeq(seqs), v)
  BY <1>3, <1>4, <1>6, FlattenedErrors
<1> QED
  BY <1>1, <1>7, SomeErrors

\* FinishLines: what is left of the nesting, the includes and the line ends.
LEMMA FinishLinesEvents ==
    ASSUME FinishLines, IsNesting(nesting, Words(clean)), AreLines(File.lines), NEW v
    PROVE  AreErrors(pending', v)
<1> DEFINE blocks == CheckCompletedBlocks(nesting)
           header == IF File.extension \in {"c", "cc", "cpp", "cxx"}
                     THEN CheckHeaderFileIncluded(includes, File) ELSE <<>>
           newline == CheckForNewlineAtEOF(clean.raw_lines)
           ends == LineEndEvents(File)
           Ok(s) == AreErrors(s, v)
<1>1. pending' = blocks \o header \o newline \o ends
  BY ZenonT(60) DEF FinishLines
<1>2. Ok(blocks) /\ Ok(ends)
  BY CompletedBlocksEvents, LineEndErrors DEF AreLines
<1>3. Ok(header)
  <2>1. \/ CheckHeaderFileIncluded(includes, File) = <<>>
        \/ \E ln : CheckHeaderFileIncluded(includes, File)
                        = <<Err(ln, <<"build", "include">>, 5)>>
    BY Zenon DEF CheckHeaderFileIncluded
  <2>2. Ok(<<>>) /\ \A ln : Ok(<<Err(ln, <<"build", "include">>, 5)>>)
    BY PlainCategory, SomeErrors
  <2> HIDE DEF Ok
  <2>3. Ok(CheckHeaderFileIncluded(includes, File))
    BY <2>1, <2>2
  <2> QED
    BY <2>2, <2>3
<1>4. Ok(newline)
  <2>1. \E x, ln : newline = When(x, Err(ln, <<"whitespace", "ending_newline">>, 5))
    BY Zenon DEF CheckForNewlineAtEOF
  <2>2. \A ln : Ok(<<Err(ln, <<"whitespace", "ending_newline">>, 5)>>) /\ Ok(<<>>)
    BY PlainCategory, SomeErrors
  <2>3. \A x, ln : Ok(When(x, Err(ln, <<"whitespace", "ending_newline">>, 5)))
    <3> HIDE DEF Ok
    <3> QED
      BY <2>2 DEF When
  <2> HIDE DEF Ok, newline
  <2> QED
    BY <2>1, <2>3
<1>5. \A s, t : Ok(s) /\ Ok(t) => Ok(s \o t)
  BY SomeErrors
<1> HIDE DEF Ok, blocks, header, newline, ends
<1>6. Ok(pending')
  BY <1>1, <1>2, <1>3, <1>4, <1>5
<1> QED
  BY <1>6 DEF Ok

-----------------------------------------------------------------------------
(* The types of a run.                                                     *)

\* Where the run stands: a file is at hand from its configuration to its end.
RunInv ==
    /\ \E family \in Jobs : job \in family
    /\ phase \in {"arguments", "start", "read", "lines", "restore", "done"}
    /\ exitCode \in {Running, 0, 1}
    /\ verboseLevel \in Nat
    /\ counting \in {"", "total", "toplevel", "detailed"}
    /\ ValidFilters(filtersBackup)
    /\ phase # "done" => ValidFilters(filters)
    /\ file \in 1 .. Len(job.files) + 1
    /\ phase \in {"read", "lines", "restore"} => file <= Len(job.files)

\* The copies of the file at hand and what is known of its lines so far.
FileInv ==
    /\ IsClean(clean) /\ IsNesting(nesting, Words(clean)) /\ IsFunction(function)
    /\ position \in 1 .. Len(clean.raw_lines) + 1

\* What is left to do, what is suppressed, what is reported.
EventsInv ==
    /\ IsSequence(pending)
    /\ \A i \in DOMAIN pending :
            IsMark(pending[i], clean) \/ IsError(pending[i], verboseLevel)
    /\ phase \notin {"lines", "restore"} => pending = <<>>
    /\ \A s \in suppressions : s[1] \in ErrorCategories \cup {AllCategories} /\ s[2] \in Nat
    /\ errorCount \in Nat /\ IsSequence(printed)
    /\ \A i \in DOMAIN printed :
            printed[i].category \in ErrorCategories /\ printed[i].file \in 1 .. file

LintInv == RunInv /\ FileInv /\ EventsInv

\* The file at hand is one of those of the run.
LEMMA JobType ==
    ASSUME RunInv
    PROVE  /\ IsSequence(job.files) /\ Len(job.files) \in Nat
           /\ file <= Len(job.files) => AreLines(File.lines)
<1>1. PICK family \in Jobs : job \in family
  BY DEF RunInv
<1>2. IsSequence(job.files) /\ \A i \in DOMAIN job.files : AreLines(job.files[i].lines)
  BY <1>1, JobsAssumption
<1>3. Len(job.files) \in Nat /\ DOMAIN job.files = 1 .. Len(job.files)
  BY <1>2, SequenceFacts
<1>4. file <= Len(job.files) => file \in DOMAIN job.files
  <2>1. file \in 1 .. Len(job.files) + 1
    BY DEF RunInv
  <2> QED
    BY <1>3, <2>1
<1> QED
  BY <1>2, <1>3, <1>4 DEF File

\* The files are counted from 1.
LEMMA FileType == ASSUME RunInv PROVE file \in Nat \ {0}
<1>1. file \in 1 .. Len(job.files) + 1 /\ Len(job.files) \in Nat
  BY JobType DEF RunInv
<1> QED
  BY <1>1

\* The invariant holds at the start, and every step keeps it.
LEMMA InitHasTypes ==
    ASSUME Init
    PROVE  LintInv
<1> USE DEF Init, InitReport
<1>1. ValidFilters(DefaultFilters)
  BY DEF ValidFilters, DefaultFilters
<1>2. RunInv
  <2>1. PICK family \in Jobs : job \in family
    OBVIOUS
  <2>2. Len(job.files) \in Nat
    BY <2>1, JobsAssumption, SequenceFacts
  <2> QED
    BY <1>1, <2>1, <2>2 DEF RunInv, Running
<1>3. FileInv
  <2>1. IsSequence(<<>>) /\ DOMAIN <<>> = {} /\ Len(<<>>) = 0
    BY ShortSequences
  <2>2. AreLines(<<>>) /\ IsStack(<<>>, Words(clean))
    BY <2>1 DEF AreLines, IsStack
  <2>3. IsClean(clean) /\ clean.raw_lines = <<>>
    BY <2>2, CleansedLinesType DEF NoLines
  <2>4. IsNesting(nesting, Words(clean)) /\ IsFunction(function)
    BY <2>1, <2>2 DEF IsNesting, InitialNesting, IsFunction, InitialFunction
  <2> QED
    BY <2>1, <2>3, <2>4 DEF FileInv
<1>4. EventsInv
  BY ShortSequences DEF EventsInv
<1> QED
  BY <1>2, <1>3, <1>4 DEF LintInv

\* What a check has found is a mark or an error.
LEMMA LineEventsType ==
    ASSUME NEW s, NEW c, NEW ln, NEW v, LineEvents(s, c, ln, v)
    PROVE  IsSequence(s) /\ \A i \in DOMAIN s : IsMark(s[i], c) \/ IsError(s[i], v)
BY DEF LineEvents, IsLineEvent

\* The filters of the command line have signs when the run goes on.
LEMMA ParseArgumentsKeepsTypes ==
    ASSUME LintInv, ParseArguments
    PROVE  LintInv'
<1> USE DEF LintInv, ParseArguments
<1>1. /\ pending = <<>> /\ pending' = <<>> /\ job' = job /\ file' = file
      /\ FileInv'
      /\ Arguments(job).outcome = "go" => ValidFilters(ArgumentFilters(job))
      /\ Arguments(job).verbosity \in Nat
      /\ Arguments(job).counting \in {"", "total", "toplevel", "detailed"}
  <2>1. PICK family \in Jobs : job \in family
    BY DEF RunInv
  <2>2. /\ Arguments(job).outcome = "go" => ValidFilters(ArgumentFilters(job))
        /\ Arguments(job).verbosity \in Nat
        /\ Arguments(job).counting \in {"", "total", "toplevel", "detailed"}
    BY <2>1, ArgumentsType
  <2>3. pending = <<>>
    BY DEF EventsInv
  <2>4. FileInv'
    BY DEF FileInv, fileVars
  <2> QED
    BY <2>2, <2>3, <2>4
<1>2. RunInv'
  BY <1>1 DEF RunInv, ValidFilters, Running
<1>3. EventsInv'
  BY <1>1, ShortSequences DEF EventsInv
<1> QED
  BY <1>1, <1>2, <1>3

\* The filters of a configuration file have signs when the file is opened.
LEMMA StartFileKeepsTypes ==
    ASSUME LintInv, StartFile
    PROVE  LintInv'
<1> USE DEF LintInv
<1>1. /\ file <= Len(job.files) /\ job' = job /\ file' = file /\ FileInv'
      /\ phase = "start" /\ phase' \in {"restore", "read", "done"} /\ filtersBackup' = filters
      /\ phase' # "done" => filters' = filters \/ ValidFilters(filters')
      /\ UNCHANGED <<fileVars, position, pending, verboseLevel, counting, errorCount,
                     suppressions, printed>>
      /\ exitCode' \in {exitCode, 1}
  BY DEF StartFile, BackupFilters, FileInv, fileVars, ValidFilters
<1>2. RunInv'
  BY <1>1 DEF RunInv, ValidFilters
<1>3. EventsInv'
  BY <1>1 DEF EventsInv, fileVars
<1> QED
  BY <1>1, <1>2, <1>3

\* A new file: nothing of the last one is left.
LEMMA OpenFileKeepsTypes ==
    ASSUME LintInv, OpenFile
    PROVE  LintInv'
<1> USE DEF LintInv
<1>1. AreLines(File.lines) /\ verboseLevel \in Nat
  BY JobType DEF OpenFile, RunInv
<1>2. /\ IsClean(clean') /\ position' \in 1 .. Len(clean'.raw_lines) + 1
      /\ IsNesting(nesting', Words(clean')) /\ IsFunction(function')
      /\ LineEvents(pending', clean', 1, verboseLevel)
  BY <1>1, OpenFileEvents
<1>3. RunInv'
  BY DEF RunInv, OpenFile, ValidFilters
<1>4. FileInv'
  BY <1>2 DEF FileInv
<1>5. EventsInv'
  <2>1. /\ IsSequence(pending')
        /\ \A i \in DOMAIN pending' :
                IsMark(pending'[i], clean') \/ IsError(pending'[i], verboseLevel')
    <3>1. verboseLevel' = verboseLevel
      BY DEF OpenFile
    <3> QED
      BY <1>2, <3>1, LineEventsType
  <2>2. /\ suppressions' = {} /\ errorCount' = errorCount /\ printed' = printed
        /\ file' = file /\ phase' = "lines"
    BY DEF OpenFile, ResetNolintSuppressions
  <2> QED
    BY <2>1, <2>2 DEF EventsInv
<1> QED
  BY <1>3, <1>4, <1>5

\* One line more.
LEMMA ProcessLineKeepsTypes ==
    ASSUME LintInv, ProcessLine
    PROVE  LintInv'
<1> USE DEF LintInv
<1>1. /\ position \in 1 .. Len(clean.raw_lines)
      /\ IsNesting(nesting', Words(clean)) /\ IsFunction(function')
      /\ LineEvents(pending', clean, position, verboseLevel)
  <2>1. position \in Nat \ {0}
    BY DEF FileInv
  <2> QED
    BY <2>1, ProcessLineEvents DEF FileInv, RunInv
<1>2. /\ position' = position + 1
      /\ UNCHANGED <<reportVars, globalVars, clean, job, phase, exitCode, file>>
      /\ phase = "lines"
  BY DEF ProcessLine
<1>3. RunInv'
  BY <1>2 DEF RunInv, reportVars, ValidFilters
<1>4. FileInv'
  <2>1. Len(clean.raw_lines) \in Nat
    BY SequenceFacts DEF FileInv, IsClean, AreLines
  <2> QED
    BY <1>1, <1>2, <2>1 DEF FileInv
<1>5. EventsInv'
  <2>1. /\ IsSequence(pending')
        /\ \A i \in DOMAIN pending' :
                IsMark(pending'[i], clean) \/ IsError(pending'[i], verboseLevel)
    BY <1>1, LineEventsType
  <2> QED
    BY <1>2, <2>1 DEF EventsInv, reportVars
<1> QED
  BY <1>3, <1>4, <1>5

\* After the last line.
LEMMA FinishLinesKeepsTypes ==
    ASSUME LintInv, FinishLines
    PROVE  LintInv'
<1> USE DEF LintInv
<1>1. AreLines(File.lines) /\ IsNesting(nesting, Words(clean))
  BY JobType DEF FinishLines, RunInv, FileInv
<1>2. AreErrors(pending', verboseLevel)
  BY <1>1, FinishLinesEvents
<1>3. /\ phase' = "restore" /\ phase = "lines"
      /\ UNCHANGED <<reportVars, globalVars, fileVars, job, exitCode, file, position>>
  BY DEF FinishLines
<1>4. RunInv' /\ FileInv'
  BY <1>3 DEF RunInv, FileInv, reportVars, fileVars, ValidFilters
<1>5. EventsInv'
  BY <1>2, <1>3 DEF EventsInv, AreErrors, reportVars, fileVars
<1> QED
  BY <1>4, <1>5

\* A mark stands on a line of the file.
LEMMA MarkLine ==
    ASSUME NEW c, IsClean(c), NEW e, IsMark(e, c)
    PROVE  e.line \in 1 .. Len(c.raw_lines)
<1>1. PICK lines : /\ lines = c.raw_lines \/ lines = c.lines_without_raw_strings
                   /\ NolintEvents(lines, e.line) = <<e>>
  BY DEF IsMark
<1>2. e.line \in DOMAIN lines
  <2>1. <<e>> # <<>>
    OBVIOUS
  <2> QED
    BY <1>1, <2>1, NolintEventsType
<1>3. DOMAIN lines = 1 .. Len(lines) /\ Len(lines) = Len(c.raw_lines)
  BY <1>1, SequenceFacts DEF IsClean, AreLines
<1> QED
  BY <1>2, <1>3

\* The messages an error adds to.
LEMMA LogErrorKeepsTypes ==
    ASSUME NEW f \in Nat \ {0}, NEW ln, NEW category \in ErrorCategories, NEW confidence,
           LogError(f, ln, category, confidence), errorCount \in Nat, IsSequence(printed),
           \A i \in DOMAIN printed :
                printed[i].category \in ErrorCategories /\ printed[i].file \in 1 .. f
    PROVE  /\ errorCount' \in Nat /\ IsSequence(printed')
           /\ \A i \in DOMAIN printed' :
                    printed'[i].category \in ErrorCategories /\ printed'[i].file \in 1 .. f
<1>1. CASE ShouldPrintError(category, confidence, ln)
  <2>1. PICK e : e = [file |-> f, line |-> ln, category |-> category, confidence |-> confidence]
    OBVIOUS
  <2>2. printed' = Append(printed, e) /\ errorCount' = errorCount + 1
    BY <1>1, <2>1 DEF LogError, IncrementErrorCount
  <2>3. e.category \in ErrorCategories /\ e.file \in 1 .. f
    BY <2>1
  <2>4. PICK n : n = Len(printed)
    OBVIOUS
  <2>5. /\ n \in Nat /\ DOMAIN printed = 1 .. n
        /\ IsSequence(printed') /\ DOMAIN printed' = 1 .. n + 1
        /\ \A i \in 1 .. n : printed'[i] = printed[i]
        /\ printed'[n + 1] = e
    BY <2>2, <2>4, SequenceFacts, SequenceAppend
  <2> QED
    BY <2>2, <2>3, <2>5
<1>2. CASE ~ShouldPrintError(category, confidence, ln)
  BY <1>2 DEF LogError
<1> QED
  BY <1>1, <1>2

\* One event less: a mark suppresses on a line of the file, an error is counted.
LEMMA ReportKeepsTypes ==
    ASSUME LintInv, Report
    PROVE  LintInv'
<1> USE DEF LintInv
<1>1. /\ pending # <<>> /\ pending' = Tail(pending) /\ Handle(file, Head(pending))
      /\ UNCHANGED <<globalVars, fileVars, job, phase, exitCode, file, position>>
      /\ UNCHANGED <<verboseLevel, filters, filtersBackup, counting>>
  BY DEF Report, Handle
<1>2. RunInv' /\ FileInv'
  BY <1>1 DEF RunInv, FileInv, fileVars, ValidFilters
<1>3. PICK e : e = Head(pending)
  OBVIOUS
<1>4. PICK n : n = Len(pending)
  OBVIOUS
<1>5. /\ IsSequence(pending') /\ n \in Nat \ {0} /\ DOMAIN pending = 1 .. n
      /\ DOMAIN pending' = 1 .. n - 1 /\ \A i \in 1 .. n - 1 : pending'[i] = pending[i + 1]
      /\ e = pending[1] /\ 1 \in DOMAIN pending
  BY <1>1, <1>3, <1>4, SequenceFacts, SequenceTail DEF EventsInv
<1>6. \A i \in DOMAIN pending' :
            IsMark(pending'[i], clean') \/ IsError(pending'[i], verboseLevel')
  <2>1. clean' = clean /\ verboseLevel' = verboseLevel
    BY <1>1 DEF fileVars
  <2>2. \A i \in 1 .. n - 1 : i + 1 \in DOMAIN pending
    BY <1>5
  <2> QED
    BY <1>5, <2>1, <2>2 DEF EventsInv
<1>7. /\ \A s \in suppressions' : s[1] \in ErrorCategories \cup {AllCategories} /\ s[2] \in Nat
      /\ errorCount' \in Nat /\ IsSequence(printed')
      /\ \A i \in DOMAIN printed' :
            printed'[i].category \in ErrorCategories /\ printed'[i].file \in 1 .. file
  <2>1. /\ file \in Nat \ {0} /\ errorCount \in Nat /\ IsSequence(printed)
        /\ \A i \in DOMAIN printed :
                printed[i].category \in ErrorCategories /\ printed[i].file \in 1 .. file
        /\ \A s \in suppressions : s[1] \in ErrorCategories \cup {AllCategories} /\ s[2] \in Nat
    BY FileType DEF EventsInv
  <2>2. CASE e.kind = "error"
    <3>1. LogError(file, e.line, e.category, e.confidence) /\ suppressions' = suppressions
      BY <1>1, <1>3, <2>2 DEF Handle
    <3>2. e.category \in ErrorCategories
      BY <1>5, <2>2 DEF EventsInv, IsMark, IsError
    <3> QED
      BY <2>1, <3>1, <3>2, LogErrorKeepsTypes
  <2>3. CASE e.kind = "nolint"
    <3>1. ParseNolintSuppressions(file, e)
      BY <1>1, <1>3, <2>3 DEF Handle
    <3>2. e.line \in Nat
      <4>1. IsMark(e, clean)
        BY <1>5, <2>3 DEF EventsInv, IsError
      <4>2. Len(clean.raw_lines) \in Nat
        BY SequenceFacts DEF FileInv, IsClean, AreLines
      <4> QED
        BY <4>1, <4>2, MarkLine DEF FileInv
    <3>3. CASE Nolints[e.mark].category \in ErrorCategories \cup {AllCategories}
      <4>1. /\ suppressions' = suppressions \cup {SuppressionOf(e)}
            /\ errorCount' = errorCount /\ printed' = printed
        BY <3>1, <3>3 DEF ParseNolintSuppressions
      <4>2. SuppressionOf(e)[1] \in ErrorCategories \cup {AllCategories} /\ SuppressionOf(e)[2] \in Nat
        BY <3>2, <3>3 DEF SuppressionOf
      <4> QED
        BY <2>1, <4>1, <4>2
    <3>4. CASE Nolints[e.mark].category \notin ErrorCategories \cup {AllCategories}
      <4>1. /\ suppressions' = suppressions
            /\ \/ errorCount' = errorCount /\ printed' = printed
               \/ LogError(file, e.line, UnknownNolint, 5)
        BY <3>1, <3>4 DEF ParseNolintSuppressions
      <4>2. UnknownNolint \in ErrorCategories
        BY PlainCategory DEF PlainCategories, UnknownNolint
      <4> QED
        BY <2>1, <4>1, <4>2, LogErrorKeepsTypes
    <3> QED
      BY <3>3, <3>4
  <2> QED
    BY <1>1, <1>3, <2>2, <2>3 DEF Handle
<1>8. EventsInv'
  <2>1. phase \in {"lines", "restore"}
    BY <1>1 DEF EventsInv
  <2> QED
    BY <1>1, <1>5, <1>6, <1>7, <2>1 DEF EventsInv
<1> QED
  BY <1>2, <1>8

\* Steps that change neither lines nor events; a new file only has the messages of those
\* before it.
LEMMA OtherStepsKeepTypes ==
    ASSUME LintInv, Exit \/ SkipFile \/ EndFile \/ UNCHANGED vars
    PROVE  LintInv'
<1> USE DEF LintInv
<1>1. CASE Exit
  BY <1>1 DEF Exit, RunInv, FileInv, EventsInv, reportVars, fileVars, ValidFilters, Running
<1>2. CASE SkipFile
  BY <1>2 DEF SkipFile, RunInv, FileInv, EventsInv, reportVars, fileVars, ValidFilters
<1>3. CASE EndFile
  <2>1. /\ phase = "restore" /\ pending = <<>> /\ pending' = <<>> /\ filters' = filtersBackup
        /\ phase' = "start" /\ file' = file + 1 /\ job' = job
        /\ UNCHANGED <<fileVars, exitCode, position, verboseLevel, filtersBackup, counting,
                       errorCount, suppressions, printed>>
    BY <1>3 DEF EndFile, RestoreFilters
  <2>2. file \in Nat /\ file' \in 1 .. Len(job'.files) + 1
    <3>1. file \in Nat /\ file <= Len(job.files) /\ Len(job.files) \in Nat
      BY <2>1, JobType, FileType DEF RunInv
    <3> QED
      BY <2>1, <3>1
  <2>3. RunInv' /\ FileInv'
    BY <2>1, <2>2 DEF RunInv, FileInv, fileVars, ValidFilters
  <2>4. \A i \in DOMAIN printed : printed[i].file \in 1 .. file'
    BY <2>1, <2>2 DEF EventsInv
  <2>5. EventsInv'
    BY <2>1, <2>4, ShortSequences DEF EventsInv
  <2> QED
    BY <2>3, <2>5
<1>4. CASE UNCHANGED vars
  BY <1>4 DEF vars, RunInv, FileInv, EventsInv, reportVars, fileVars, ValidFilters
<1> QED
  BY <1>1, <1>2, <1>3, <1>4

\* All steps.
LEMMA StepKeepsTypes ==
    ASSUME LintInv, [Next]_vars
    PROVE  LintInv'
BY ParseArgumentsKeepsTypes, StartFileKeepsTypes, OpenFileKeepsTypes, ProcessLineKeepsTypes,
   FinishLinesKeepsTypes, ReportKeepsTypes, OtherStepsKeepTypes DEF Next, Ended

\* The type invariant of a run holds for all arguments, configurations and files (main,
\* ProcessFile, ProcessFileData): its counters, its filters, the copies of the lines, the
\* blocks, what waits to be reported, what is suppressed and what was printed.
THEOREM RunHasTypes == Spec => []TypeOK
<1>1. LintInv => TypeOK
  BY DEF LintInv, RunInv, FileInv, EventsInv, TypeOK, IsError
<1> QED
  BY <1>1, InitHasTypes, StepKeepsTypes, PTL DEF Spec

\* A long function is reported at a confidence its verbosity lets through
\* (_FunctionState.Check): the invariant above says so of every error to be reported.
THEOREM LongFunctionsAlwaysReported == Spec => []LongFunctionsAreReported
<1>1. LintInv => LongFunctionsAreReported
  BY DEF LintInv, EventsInv, LongFunctionsAreReported, IsMark, IsError, FnSize
<1> QED
  BY <1>1, InitHasTypes, StepKeepsTypes, PTL DEF Spec

\* The place of every phase of a file among them.
LEMMA PhaseRanks ==
    /\ Rank("arguments") = 1 /\ Rank("start") = 2 /\ Rank("read") = 3
    /\ Rank("lines") = 4 /\ Rank("restore") = 5 /\ Rank("done") = 6
BY DEF Rank, Phases

\* Every step of every run goes forward: to the next file, a later phase, the next line
\* or the next event, so that ProcessFileData and the loop of main over the files end.
THEOREM StepsOfRunAreBounded == Spec => StepsAreBounded
<1> DEFINE Forward == \/ file' = file + 1 /\ file <= Len(job.files)
                      \/ file' = file /\ Rank(phase') > Rank(phase)
                      \/ file' = file /\ phase' = phase /\ position' = position + 1
                      \/ /\ file' = file /\ phase' = phase /\ position' = position
                         /\ Len(pending') < Len(pending)
<1>1. ASSUME LintInv, [Next]_vars PROVE [Forward]_vars
  <2>1. CASE ParseArguments \/ Exit \/ StartFile \/ SkipFile \/ OpenFile \/ FinishLines
    <3>1. /\ file' = file
          /\ \/ phase = "arguments" /\ phase' \in {"start", "done"}
             \/ phase = "start" /\ phase' \in {"restore", "read", "done"}
             \/ phase = "read" /\ phase' \in {"restore", "lines"}
             \/ phase = "lines" /\ phase' = "restore"
      BY <2>1 DEF ParseArguments, Exit, StartFile, SkipFile, OpenFile, FinishLines
    <3> QED
      BY <3>1, PhaseRanks
  <2>2. CASE Report
    <3>1. pending # <<>> /\ pending' = Tail(pending) /\ IsSequence(pending)
          /\ file' = file /\ phase' = phase /\ position' = position
      BY <1>1, <2>2 DEF Report, LintInv, EventsInv
    <3>2. Len(Tail(pending)) = Len(pending) - 1 /\ Len(pending) \in Nat
      BY <3>1, SequenceTail
    <3> QED
      BY <3>1, <3>2
  <2>3. CASE ProcessLine
    BY <2>3 DEF ProcessLine
  <2>4. CASE EndFile
    BY <1>1, <2>4 DEF EndFile, LintInv, RunInv
  <2>5. CASE Ended \/ UNCHANGED vars
    BY <2>5 DEF Ended
  <2> QED
    BY <1>1, <2>1, <2>2, <2>3, <2>4, <2>5 DEF Next
<1>2. StepsAreBounded <=> [][Forward]_vars
  BY DEF StepsAreBounded
<1> HIDE DEF Forward
<1> QED
  BY <1>1, <1>2, InitHasTypes, StepKeepsTypes, PTL DEF Spec
=============================================================================
