----------------------------- MODULE SessionProofs -----------------------------
(* Theorems about the warnings, the StorageManager and the operators of a      *)
(* client on one thread.                                                       *)
EXTENDS Session, SequenceTheorems, TLAPS

-----------------------------------------------------------------------------
(* Warnings.                                                                   *)

\* What the disablers of the client's scopes have put aside: only the outermost
\* found the warnings enabled.
ScopesInv ==
    /\ disabled \in BOOLEAN
    /\ scopes \in Seq(BOOLEAN)
    /\ \A i \in DOMAIN scopes : scopes[i] <=> i > 1
    /\ DisabledInScopesOnly

\* A warning that was shown is one of the constructed static objects.
ShownInv ==
    /\ shown \in [Types -> Nat]
    /\ ShownOncePerType
    /\ \A T \in Types : shown[T] > 0 => T \in warned

\* What a step can do to the warnings: nothing, begin or end a scope, or read.
LEMMA WarningSteps ==
    ASSUME [Next]_vars
    PROVE  \/ UNCHANGED warnings
           \/ EnterScope
           \/ LeaveScope
           \/ \E read : ReadSilently(read)
           \/ \E read : ReadLoudly(read)
<1>1. CASE Scope
  BY <1>1 DEF Scope
<1>2. CASE \E a \in Addresses :
             \/ \E types \in Schemas : NewTable(a, types)
             \/ ReleaseTable(a) \/ Fill(a) \/ Tear(a) \/ ReadRow(a)
             \/ \E n \in Names : AddTable(n, a)
  BY <1>2 DEF NewTable, ReleaseTable, Fill, Tear, ReadRow, AddTable
<1>3. CASE (\E n \in Names : DropTable(n) \/ GetTable(n)) \/ Reset
  BY <1>3 DEF DropTable, GetTable, Reset
<1>4. CASE \E a \in handles \cup Outputs \cup {NoTable} : NewTableWrapper(a) \/ PrintTable(a)
  <2>1. PICK a \in handles \cup Outputs \cup {NoTable} : NewTableWrapper(a) \/ PrintTable(a)
    BY <1>4
  <2>2. CASE NewTableWrapper(a)
    BY <2>2 DEF NewTableWrapper
  <2>3. CASE PrintTable(a)
    BY <2>3 DEF PrintTable
  <2> QED
    BY <2>1, <2>2, <2>3
<1>5. CASE \E input \in 0 .. Len(operators) : NewPrint(input)
  BY <1>5 DEF NewPrint
<1>6. CASE \E o \in DOMAIN operators :
             \/ ReleaseOperator(o) \/ ExecuteTableWrapper(o)
             \/ ExecutePrint(o) \/ ExecutePrintThrows(o) \/ ExecutePrintUndefined(o)
  BY <1>6 DEF ReleaseOperator, ExecuteTableWrapper, ExecutePrint, ExecutePrintThrows,
              ExecutePrintUndefined
<1>7. CASE UNCHANGED vars
  BY <1>7 DEF vars
<1> QED
  BY <1>1, <1>2, <1>3, <1>4, <1>5, <1>6, <1>7 DEF Next

\* A sequence without its last element.
LEMMA FrontFacts ==
    ASSUME NEW S, NEW s \in Seq(S), s # <<>>
    PROVE  /\ Len(s) \in Nat \ {0}
           /\ SubSeq(s, 1, Len(s) - 1) \in Seq(S)
           /\ Len(SubSeq(s, 1, Len(s) - 1)) = Len(s) - 1
           /\ \A i \in DOMAIN SubSeq(s, 1, Len(s) - 1) :
                i \in DOMAIN s /\ SubSeq(s, 1, Len(s) - 1)[i] = s[i]
<1> DEFINE n == Len(s) - 1
<1>1. Len(s) \in Nat \ {0} /\ n \in Nat
  OBVIOUS
<1>2. \A i \in 1 .. n : i \in DOMAIN s /\ s[i] \in S
  BY <1>1
<1> HIDE DEF n
<1>3. /\ SubSeq(s, 1, n) \in Seq(S)
      /\ Len(SubSeq(s, 1, n)) = IF 1 <= n THEN n - 1 + 1 ELSE 0
      /\ \A i \in 1 .. n - 1 + 1 : SubSeq(s, 1, n)[i] = s[1 + i - 1]
  BY <1>1, <1>2, SubSeqProperties
<1>4. Len(SubSeq(s, 1, n)) = n /\ DOMAIN SubSeq(s, 1, n) = 1 .. n
  BY <1>1, <1>3
<1>5. \A i \in 1 .. n : SubSeq(s, 1, n)[i] = s[i]
  BY <1>1, <1>3
<1> QED
  BY <1>1, <1>2, <1>3, <1>4, <1>5 DEF n

LEMMA ScopesStep ==
    ASSUME ScopesInv, [Next]_vars
    PROVE  ScopesInv'
<1> USE DEF ScopesInv, DisabledInScopesOnly
<1>1. CASE UNCHANGED warnings
  BY <1>1 DEF warnings
<1>2. CASE EnterScope
  <2>1. /\ disabled' = TRUE
        /\ scopes' = Append(scopes, disabled)
        /\ scopes' \in Seq(BOOLEAN)
        /\ Len(scopes') = Len(scopes) + 1
    BY <1>2 DEF EnterScope
  <2>2. scopes' # <<>>
    BY <2>1
  <2>3. ASSUME NEW i \in DOMAIN scopes' PROVE scopes'[i] <=> i > 1
    <3>1. CASE i \in DOMAIN scopes
      BY <2>1, <3>1
    <3>2. CASE i = Len(scopes) + 1
      <4>1. scopes'[i] = disabled
        BY <2>1, <3>2
      <4>2. disabled <=> Len(scopes) > 0
        OBVIOUS
      <4> QED
        BY <3>2, <4>1, <4>2
    <3> QED
      BY <2>1, <3>1, <3>2
  <2> QED
    BY <2>1, <2>2, <2>3
<1>3. CASE LeaveScope
  <2>1. /\ scopes # <<>>
        /\ scopes' = SubSeq(scopes, 1, Len(scopes) - 1)
        /\ disabled' = (scopes[Len(scopes)] /\ disabled)
    BY <1>3 DEF LeaveScope, Restored
  <2>2. Len(scopes) \in Nat \ {0} /\ Len(scopes) \in DOMAIN scopes
    BY <2>1
  <2>3. /\ scopes' \in Seq(BOOLEAN)
        /\ Len(scopes') = Len(scopes) - 1
        /\ \A i \in DOMAIN scopes' : i \in DOMAIN scopes /\ scopes'[i] = scopes[i]
    BY <2>1, FrontFacts
  <2>4. scopes' # <<>> <=> Len(scopes) > 1
    BY <2>2, <2>3
  <2>5. disabled' <=> Len(scopes) > 1
    BY <2>1, <2>2
  <2> QED
    BY <2>1, <2>3, <2>4, <2>5
<1>4. ASSUME NEW read, ReadSilently(read) PROVE ScopesInv'
  BY <1>4 DEF ReadSilently, Restored
<1>5. ASSUME NEW read, ReadLoudly(read) PROVE ScopesInv'
  BY <1>5 DEF ReadLoudly
<1> QED
  BY <1>1, <1>2, <1>3, <1>4, <1>5, WarningSteps

LEMMA ScopesAlways == Spec => []ScopesInv
<1>1. Init => ScopesInv
  <2> SUFFICES ASSUME Init PROVE ScopesInv
    OBVIOUS
  <2>1. scopes = <<>> /\ disabled = FALSE
    BY DEF Init, WarningsInit
  <2>2. scopes \in Seq(BOOLEAN) /\ DOMAIN scopes = {}
    BY <2>1
  <2> QED
    BY <2>1, <2>2 DEF ScopesInv, DisabledInScopesOnly
<1> QED
  BY <1>1, ScopesStep, PTL DEF Spec

\* Warnings are disabled exactly in the client's scopes, however deeply these are
\* nested and whatever runs, or throws, in them (PerformanceWarningDisabler).
THEOREM DisabledExactlyInScopes == Spec => []DisabledInScopesOnly
<1>1. ScopesInv => DisabledInScopesOnly
  BY DEF ScopesInv
<1> QED
  BY <1>1, ScopesAlways, PTL

LEMMA ShownStep ==
    ASSUME ShownInv, [Next]_vars
    PROVE  ShownInv'
<1> USE DEF ShownInv, ShownOncePerType
<1>1. CASE UNCHANGED warnings \/ EnterScope \/ LeaveScope
  BY <1>1 DEF warnings, EnterScope, LeaveScope
<1>2. ASSUME NEW read, NEW silent, Warn(read, silent) PROVE ShownInv'
  <2>1. /\ warned \subseteq warned'
        /\ \A T \in Types : T \in NewlyWarned(read) => shown[T] = 0 /\ T \in warned'
    BY <1>2 DEF Warn, NewlyWarned
  <2>2. \A T \in Types : \/ shown'[T] = shown[T]
                         \/ shown'[T] = shown[T] + 1 /\ T \in NewlyWarned(read)
    BY <1>2 DEF Warn
  <2>3. shown' \in [Types -> Nat]
    BY <1>2 DEF Warn
  <2> QED
    BY <2>1, <2>2, <2>3
<1> QED
  BY <1>1, <1>2, WarningSteps DEF ReadSilently, ReadLoudly

LEMMA ShownAlways == Spec => []ShownInv
<1>1. Init => ShownInv
  BY DEF Init, WarningsInit, ShownInv, ShownOncePerType
<1> QED
  BY <1>1, ShownStep, PTL DEF Spec

\* In every build, each static object has printed its warning at most once,
\* however often cells of its type are read (ValueSegment::operator[]).
THEOREM EachIsShownOnce == Spec => []ShownOncePerType
<1>1. ShownInv => ShownOncePerType
  BY DEF ShownInv
<1> QED
  BY <1>1, ShownAlways, PTL

\* Inside a scope no step prints a warning, whether it reads cells itself or has
\* a Print read them (PerformanceWarningClass).
THEOREM ScopesStaySilent == Spec => ScopesAreSilent
<1>1. ASSUME ScopesInv, ShownInv, [Next]_vars
      PROVE  [scopes # <<>> => shown' = shown]_warnings
  <2> SUFFICES ASSUME scopes # <<>>, ~UNCHANGED warnings PROVE shown' = shown
    OBVIOUS
  <2>1. disabled /\ shown \in [Types -> Nat]
    BY <1>1 DEF ScopesInv, DisabledInScopesOnly, ShownInv
  <2>2. CASE EnterScope \/ LeaveScope
    BY <2>2 DEF EnterScope, LeaveScope
  <2>3. ASSUME NEW read, Warn(read, TRUE) PROVE shown' = shown
    BY <2>1, <2>3 DEF Warn
  <2>4. ASSUME NEW read, ReadSilently(read) \/ ReadLoudly(read) PROVE shown' = shown
    <3>1. CASE ReadSilently(read)
      BY <2>3, <3>1 DEF ReadSilently
    <3>2. CASE ReadLoudly(read)
      <4>1. Warn(read, disabled)
        BY <3>2 DEF ReadLoudly
      <4> QED
        BY <2>1, <4>1 DEF Warn
    <3> QED
      BY <2>4, <3>1, <3>2
  <2> QED
    BY <1>1, <2>2, <2>4, WarningSteps
<1> QED
  BY <1>1, ScopesAlways, ShownAlways, PTL DEF Spec, ScopesAreSilent

-----------------------------------------------------------------------------
(* Tables, names and operators.                                                *)

\* An operator is made after the one it reads, and keeps it and itself; a Print that has put
\* out a table has one to read.
InputsAreKept ==
    \A o \in DOMAIN operators :
        /\ operators[o].input \in 0 .. o - 1
        /\ o \in operators[o].keeps
        /\ operators[o].input # 0 => operators[o].input \in operators[o].keeps
        /\ (operators[o].kind = "Print" /\ operators[o].output # NoTable)
                => operators[o].input # 0

SessionInv == TypeOK /\ InputsAreKept /\ OutputsPassOn

\* The next state of the operators: as they are, one more, or one that is
\* released or has put out what its chain starts with.
OperatorStep ==
    \/ operators' = operators
    \/ /\ NextOperator <= MaxOperators
       /\ \E a \in Addresses \cup {NoTable} :
            operators' = Append(operators, Operator("TableWrapper", a, 0, {NextOperator}))
    \/ /\ NextOperator <= MaxOperators
       /\ \E input \in 0 .. Len(operators) :
            operators' = Append(operators,
                Operator("Print", NoTable, input,
                         (IF input = 0 THEN {} ELSE operators[input].keeps) \cup {NextOperator}))
    \/ \E o \in DOMAIN operators : operators' = [operators EXCEPT ![o].held = FALSE]
    \/ \E o \in DOMAIN operators :
        /\ operators[o].kind = "TableWrapper"
        /\ operators' = [operators EXCEPT ![o].output = operators[o].table]
    \/ \E o \in DOMAIN operators :
        /\ operators[o].kind = "Print" /\ HasInputTable(o)
        /\ operators' = [operators EXCEPT ![o].output = InputTable(o)]

LEMMA NewTableKnown ==
    ASSUME TypeOK, NEW a \in handles \cup Outputs \cup {NoTable}
    PROVE  a \in Addresses \cup {NoTable}
<1>1. operators \in Seq(Operators) /\ handles \subseteq Addresses
  BY DEF TypeOK
<1>2. ASSUME NEW o \in DOMAIN operators PROVE operators[o].output \in Addresses \cup {NoTable}
  <2>1. operators[o] \in Operators
    BY <1>1
  <2> QED
    BY <2>1 DEF Operators
<1> QED
  BY <1>1, <1>2 DEF Outputs, HeldOperators

LEMMA OperatorSteps ==
    ASSUME TypeOK, [Next]_vars
    PROVE  OperatorStep
<1> USE DEF OperatorStep
<1>1. CASE Scope
  BY <1>1 DEF Scope
<1>2. CASE \E a \in Addresses :
             \/ \E types \in Schemas : NewTable(a, types)
             \/ ReleaseTable(a) \/ Fill(a) \/ Tear(a) \/ ReadRow(a)
             \/ \E n \in Names : AddTable(n, a)
  BY <1>2 DEF NewTable, ReleaseTable, Fill, Tear, ReadRow, AddTable
<1>3. CASE (\E n \in Names : DropTable(n) \/ GetTable(n)) \/ Reset
  BY <1>3 DEF DropTable, GetTable, Reset
<1>4. CASE \E a \in handles \cup Outputs \cup {NoTable} : NewTableWrapper(a) \/ PrintTable(a)
  BY <1>4, NewTableKnown DEF NewTableWrapper, PrintTable
<1>5. CASE \E input \in 0 .. Len(operators) : NewPrint(input)
  BY <1>5 DEF NewPrint
<1>6. CASE \E o \in DOMAIN operators :
             \/ ReleaseOperator(o) \/ ExecuteTableWrapper(o)
             \/ ExecutePrint(o) \/ ExecutePrintThrows(o) \/ ExecutePrintUndefined(o)
  BY <1>6 DEF ReleaseOperator, ExecuteTableWrapper, ExecutePrint, ExecutePrintThrows,
              ExecutePrintUndefined, CanPrint, Wrapped
<1>7. CASE UNCHANGED vars
  BY <1>7 DEF vars
<1> QED
  BY <1>1, <1>2, <1>3, <1>4, <1>5, <1>6, <1>7 DEF Next

\* One more operator.
LEMMA OperatorAppended ==
    ASSUME SessionInv, NextOperator <= MaxOperators,
           NEW new \in Operators, operators' = Append(operators, new),
           new.input \in 0 .. Len(operators), new.output = NoTable,
           NextOperator \in new.keeps,
           new.input # 0 => new.input \in new.keeps
    PROVE  /\ operators' \in Seq(Operators) /\ Len(operators') <= MaxOperators
           /\ InputsAreKept' /\ OutputsPassOn'
<1>1. /\ operators \in Seq(Operators) /\ Len(operators) + 1 <= MaxOperators
      /\ operators' \in Seq(Operators)
      /\ DOMAIN operators' = 1 .. Len(operators) + 1
      /\ Len(operators') = Len(operators) + 1
      /\ \A o \in DOMAIN operators : operators'[o] = operators[o]
      /\ operators'[Len(operators) + 1] = new
  BY DEF SessionInv, TypeOK, NextOperator
<1>2. ASSUME NEW o \in DOMAIN operators'
      PROVE  o \in DOMAIN operators \/ o = Len(operators) + 1
  BY <1>1
<1>3. InputsAreKept'
  <2>1. ASSUME NEW o \in DOMAIN operators'
        PROVE  /\ operators'[o].input \in 0 .. o - 1
               /\ o \in operators'[o].keeps
               /\ operators'[o].input # 0 => operators'[o].input \in operators'[o].keeps
               /\ (operators'[o].kind = "Print" /\ operators'[o].output # NoTable)
                     => operators'[o].input # 0
    BY <1>1, <1>2 DEF SessionInv, InputsAreKept, NextOperator
  <2> QED
    BY <2>1 DEF InputsAreKept
<1>4. OutputsPassOn'
  <2>1. ASSUME NEW o \in DOMAIN operators', operators'[o].output # NoTable
        PROVE  /\ o \in DOMAIN operators
               /\ operators'[o] = operators[o]
    BY <1>1, <1>2, <2>1
  <2>2. ASSUME NEW o \in DOMAIN operators, operators[o].output # NoTable,
               operators[o].kind = "Print"
        PROVE  InputTable(o)' = InputTable(o)
    <3>1. operators[o].input \in 1 .. o - 1
      BY <2>2 DEF SessionInv, InputsAreKept
    <3>2. operators[o].input \in DOMAIN operators
      BY <1>1, <3>1
    <3> QED
      BY <1>1, <3>2 DEF InputTable
  <2> QED
    BY <1>1, <2>1, <2>2 DEF SessionInv, OutputsPassOn
<1> QED
  BY <1>1, <1>3, <1>4
\* An operator that the client lets go of.
LEMMA OperatorReleased ==
    ASSUME SessionInv, NEW o \in DOMAIN operators,
           operators' = [operators EXCEPT ![o].held = FALSE]
    PROVE  /\ operators' \in Seq(Operators) /\ Len(operators') <= MaxOperators
           /\ InputsAreKept' /\ OutputsPassOn'
<1>1. /\ operators \in Seq(Operators) /\ Len(operators) <= MaxOperators
      /\ operators[o] \in Operators
  BY DEF SessionInv, TypeOK
<1>2. [operators[o] EXCEPT !.held = FALSE] \in Operators
  BY <1>1 DEF Operators
<1>3. /\ operators' \in Seq(Operators) /\ Len(operators') = Len(operators)
      /\ DOMAIN operators' = DOMAIN operators
  BY <1>1, <1>2
<1>4. ASSUME NEW p \in DOMAIN operators
      PROVE  /\ operators'[p].kind = operators[p].kind
             /\ operators'[p].table = operators[p].table
             /\ operators'[p].input = operators[p].input
             /\ operators'[p].output = operators[p].output
             /\ operators'[p].keeps = operators[p].keeps
  <2>1. operators[p] \in Operators
    BY <1>1
  <2> QED
    BY <1>1, <2>1 DEF Operators
<1>5. InputsAreKept'
  BY <1>3, <1>4 DEF SessionInv, InputsAreKept
<1>6. OutputsPassOn'
  <2> SUFFICES ASSUME NEW p \in DOMAIN operators, operators[p].output # NoTable,
                      operators[p].kind = "Print"
               PROVE  InputTable(p)' = InputTable(p)
    BY <1>3, <1>4 DEF SessionInv, OutputsPassOn
  <2>1. operators[p].input \in 1 .. p - 1
    BY DEF SessionInv, InputsAreKept
  <2>2. operators[p].input \in DOMAIN operators
    BY <1>1, <2>1
  <2> QED
    BY <1>4, <2>2 DEF InputTable
<1> QED
  BY <1>1, <1>3, <1>5, <1>6

\* An operator that puts out a table: if it had put one out, it is the same.
LEMMA OperatorExecuted ==
    ASSUME SessionInv, NEW o \in DOMAIN operators, NEW a \in Addresses \cup {NoTable},
           operators' = [operators EXCEPT ![o].output = a],
           operators[o].output # NoTable => a = operators[o].output,
           \/ operators[o].kind = "TableWrapper" /\ a = operators[o].table
           \/ operators[o].kind = "Print" /\ HasInputTable(o) /\ a = InputTable(o)
    PROVE  /\ operators' \in Seq(Operators) /\ Len(operators') <= MaxOperators
           /\ InputsAreKept' /\ OutputsPassOn'
<1>1. /\ operators \in Seq(Operators) /\ Len(operators) <= MaxOperators
      /\ operators[o] \in Operators
  BY DEF SessionInv, TypeOK
<1>2. [operators[o] EXCEPT !.output = a] \in Operators
  BY <1>1 DEF Operators
<1>3. /\ operators' \in Seq(Operators) /\ Len(operators') = Len(operators)
      /\ DOMAIN operators' = DOMAIN operators
  BY <1>1, <1>2
<1>4. ASSUME NEW p \in DOMAIN operators
      PROVE  /\ operators'[p].kind = operators[p].kind
             /\ operators'[p].table = operators[p].table
             /\ operators'[p].input = operators[p].input
             /\ operators'[p].output = IF p = o THEN a ELSE operators[p].output
             /\ operators'[p].keeps = operators[p].keeps
  <2>1. operators[p] \in Operators
    BY <1>1
  <2> QED
    BY <1>1, <2>1 DEF Operators
<1>5. InputsAreKept'
  BY <1>3, <1>4 DEF SessionInv, InputsAreKept, HasInputTable
<1>6. ASSUME NEW p \in DOMAIN operators, operators'[p].output # NoTable,
             operators[p].kind = "Print"
      PROVE  operators'[p].output = InputTable(p)'
  <2>1. /\ operators[p].input \in 1 .. p - 1
        /\ operators'[p].input = operators[p].input
    BY <1>3, <1>4, <1>5, <1>6 DEF InputsAreKept
  <2>2. operators[p].input \in DOMAIN operators /\ operators[p].input # p
    BY <1>1, <2>1
  <2>3. CASE p = o
    <3>1. operators'[p].output = a
      BY <1>4, <2>3
    <3>2. a = InputTable(p)
      BY <1>6, <2>3
    <3>3. operators'[operators[p].input].output = operators[operators[p].input].output
      BY <1>4, <2>2, <2>3
    <3> QED
      BY <2>1, <3>1, <3>2, <3>3 DEF InputTable
  <2>4. CASE p # o
    <3>1. operators[p].output # NoTable /\ operators[p].output = InputTable(p)
      BY <1>4, <1>6, <2>4 DEF SessionInv, OutputsPassOn
    <3> QED
      BY <1>4, <2>1, <2>2, <2>4, <3>1 DEF InputTable
  <2> QED
    BY <2>3, <2>4
<1>7. ASSUME NEW p \in DOMAIN operators, operators'[p].output # NoTable,
             operators[p].kind # "Print"
      PROVE  operators'[p].output = operators'[p].table
  BY <1>4, <1>7 DEF SessionInv, OutputsPassOn
<1>8. OutputsPassOn'
  BY <1>3, <1>4, <1>6, <1>7 DEF OutputsPassOn
<1> QED
  BY <1>1, <1>3, <1>5, <1>8

LEMMA OperatorsStep ==
    ASSUME SessionInv, [Next]_vars
    PROVE  /\ operators' \in Seq(Operators) /\ Len(operators') <= MaxOperators
           /\ InputsAreKept' /\ OutputsPassOn'
<1>1. /\ TypeOK /\ OperatorStep /\ MaxOperators \in Nat
      /\ operators \in Seq(Operators) /\ Len(operators) <= MaxOperators
  BY OperatorSteps, SessionAssumption DEF SessionInv, TypeOK
<1>2. CASE operators' = operators
  BY <1>1, <1>2 DEF SessionInv, InputsAreKept, OutputsPassOn, InputTable
<1>3. CASE NextOperator <= MaxOperators /\ \E a \in Addresses \cup {NoTable} :
             operators' = Append(operators, Operator("TableWrapper", a, 0, {NextOperator}))
  <2>1. PICK a \in Addresses \cup {NoTable} :
             operators' = Append(operators, Operator("TableWrapper", a, 0, {NextOperator}))
    BY <1>3
  <2>2. NextOperator \in 1 .. MaxOperators
    BY <1>1, <1>3 DEF NextOperator
  <2>3. Operator("TableWrapper", a, 0, {NextOperator}) \in Operators
    BY <1>1, <2>2 DEF Operator, Operators
  <2> QED
    BY <1>1, <1>3, <2>1, <2>3, OperatorAppended DEF Operator
<1>4. ASSUME NextOperator <= MaxOperators, NEW input \in 0 .. Len(operators),
             operators' = Append(operators,
                Operator("Print", NoTable, input,
                         (IF input = 0 THEN {} ELSE operators[input].keeps) \cup {NextOperator}))
      PROVE  /\ operators' \in Seq(Operators) /\ Len(operators') <= MaxOperators
             /\ InputsAreKept' /\ OutputsPassOn'
  <2> DEFINE kept == IF input = 0 THEN {} ELSE operators[input].keeps
  <2>1. NextOperator \in 1 .. MaxOperators /\ input \in 0 .. MaxOperators
    BY <1>1, <1>4 DEF NextOperator
  <2>2. kept \subseteq 1 .. MaxOperators
    <3>1. CASE input \in DOMAIN operators
      <4>1. operators[input] \in Operators
        BY <1>1, <3>1
      <4> QED
        BY <4>1 DEF Operators
    <3> QED
      BY <1>1, <3>1
  <2>3. Operator("Print", NoTable, input, kept \cup {NextOperator}) \in Operators
    BY <1>1, <2>1, <2>2 DEF Operator, Operators
  <2>4. input # 0 => input \in kept \cup {NextOperator}
    <3>1. CASE input # 0
      <4>1. input \in DOMAIN operators
        BY <1>1, <3>1
      <4> QED
        BY <3>1, <4>1 DEF SessionInv, InputsAreKept
    <3> QED
      BY <3>1
  <2> QED
    BY <1>4, <2>3, <2>4, OperatorAppended DEF Operator
<1>5. CASE \E o \in DOMAIN operators : operators' = [operators EXCEPT ![o].held = FALSE]
  BY <1>5, OperatorReleased
<1>6. CASE \E o \in DOMAIN operators :
             /\ operators[o].kind = "TableWrapper"
             /\ operators' = [operators EXCEPT ![o].output = operators[o].table]
  <2>1. PICK o \in DOMAIN operators :
             /\ operators[o].kind = "TableWrapper"
             /\ operators' = [operators EXCEPT ![o].output = operators[o].table]
    BY <1>6
  <2>2. operators[o] \in Operators
    BY <1>1, <2>1
  <2>3. operators[o].table \in Addresses \cup {NoTable}
    BY <2>2 DEF Operators
  <2>4. operators[o].output # NoTable => operators[o].table = operators[o].output
    BY <2>1 DEF SessionInv, OutputsPassOn
  <2> QED
    BY <2>1, <2>3, <2>4, OperatorExecuted
<1>7. CASE \E o \in DOMAIN operators :
             /\ operators[o].kind = "Print" /\ HasInputTable(o)
             /\ operators' = [operators EXCEPT ![o].output = InputTable(o)]
  <2>1. PICK o \in DOMAIN operators :
             /\ operators[o].kind = "Print" /\ HasInputTable(o)
             /\ operators' = [operators EXCEPT ![o].output = InputTable(o)]
    BY <1>7
  <2>2. operators[o].input \in DOMAIN operators
    BY <1>1, <2>1 DEF HasInputTable, SessionInv, InputsAreKept
  <2>3. operators[operators[o].input] \in Operators
    BY <1>1, <2>2
  <2>4. InputTable(o) \in Addresses \cup {NoTable}
    BY <2>3 DEF Operators, InputTable
  <2>5. operators[o].output # NoTable => InputTable(o) = operators[o].output
    BY <2>1 DEF SessionInv, OutputsPassOn
  <2> QED
    BY <2>1, <2>4, <2>5, OperatorExecuted
<1>8. CASE NextOperator <= MaxOperators /\ \E input \in 0 .. Len(operators) :
             operators' = Append(operators,
                Operator("Print", NoTable, input,
                         (IF input = 0 THEN {} ELSE operators[input].keeps) \cup {NextOperator}))
  BY <1>4, <1>8
<1> QED
  BY <1>1, <1>2, <1>3, <1>5, <1>6, <1>7, <1>8 DEF OperatorStep
WarningsTyped == debug \in Builds /\ warned \subseteq Types /\ shown \in [Types -> Nat]

LEMMA ReadsTyped ==
    ASSUME WarningsTyped, NEW read, read \subseteq Types, ReadLoudly(read) \/ ReadSilently(read)
    PROVE  WarningsTyped'
<1>1. debug' = debug /\ \E silent : Warn(read, silent)
  BY DEF ReadLoudly, ReadSilently
<1> QED
  BY <1>1 DEF WarningsTyped, Warn, NewlyWarned

LEMMA ContentsTyped ==
    ASSUME TypeOK, NEW a \in Addresses
    PROVE  contents[a].types \subseteq Types /\ PrintedTypes(a) \subseteq Types
<1>1. contents[a] \in TableContents
  BY DEF TypeOK
<1>2. contents[a].types \subseteq Types
  BY <1>1, SessionAssumption DEF TableContents
<1> QED
  BY <1>2 DEF PrintedTypes

LEMMA InputTableTyped ==
    ASSUME SessionInv, NEW o \in DOMAIN operators, HasInputTable(o)
    PROVE  InputTable(o) \in Addresses
<1>1. operators \in Seq(Operators)
  BY DEF SessionInv, TypeOK
<1>2. operators[o].input \in DOMAIN operators
  BY <1>1 DEF HasInputTable, SessionInv, InputsAreKept
<1>3. operators[operators[o].input] \in Operators
  BY <1>1, <1>2
<1> QED
  BY <1>3 DEF HasInputTable, InputTable, Operators

\* The variables of the StorageManager and of the client.
SessionTyped ==
    /\ tables \in [Names -> Addresses \cup {NoTable}]
    /\ contents \in [Addresses -> TableContents]
    /\ handles \subseteq Addresses
    /\ status \in {"running", "undefined"} /\ thrown \in BOOLEAN

LEMMA SessionTypedStep ==
    ASSUME SessionInv, [Next]_vars
    PROVE  SessionTyped' /\ WarningsTyped'
<1>1. TypeOK /\ SessionTyped /\ WarningsTyped
  BY DEF SessionInv, TypeOK, SessionTyped, WarningsTyped
<1> USE DEF SessionTyped
<1>2. CASE Scope
  BY <1>1, <1>2 DEF Scope, EnterScope, LeaveScope, WarningsTyped
<1>3. ASSUME NEW a \in Addresses, NEW types \in Schemas, NewTable(a, types)
      PROVE  SessionTyped' /\ WarningsTyped'
  <2>1. Empty(types) \in TableContents
    BY DEF Empty, TableContents
  <2> QED
    BY <1>1, <1>3, <2>1 DEF NewTable, WarningsTyped, warnings
<1>4. ASSUME NEW a \in Addresses, Fill(a) \/ Tear(a)
      PROVE  SessionTyped' /\ WarningsTyped'
  <2>1. contents[a] \in TableContents
    BY <1>1
  <2>2. /\ [contents[a] EXCEPT !.filled = TRUE] \in TableContents
        /\ [contents[a] EXCEPT !.torn = TRUE] \in TableContents
    BY <2>1 DEF TableContents
  <2>3. CASE Fill(a)
    BY <1>1, <2>2, <2>3 DEF Fill, WarningsTyped, warnings
  <2>4. CASE Tear(a)
    BY <1>1, <2>2, <2>4 DEF Tear, WarningsTyped, warnings
  <2> QED
    BY <1>4, <2>3, <2>4
<1>5. ASSUME NEW a \in Addresses, ReadRow(a)
      PROVE  SessionTyped' /\ WarningsTyped'
  <2>1. WarningsTyped'
    BY <1>1, <1>5, ContentsTyped, ReadsTyped DEF ReadRow
  <2> QED
    BY <1>1, <1>5, <2>1 DEF ReadRow
<1>6. ASSUME NEW a \in Addresses, ReleaseTable(a) \/ \E n \in Names : AddTable(n, a)
      PROVE  SessionTyped' /\ WarningsTyped'
  BY <1>1, <1>6 DEF ReleaseTable, AddTable, Inserted, WarningsTyped, warnings
<1>7. CASE (\E n \in Names : DropTable(n) \/ GetTable(n)) \/ Reset
  BY <1>1, <1>7 DEF DropTable, GetTable, Reset, HasTable, WarningsTyped, warnings
<1>8. ASSUME NEW a \in Addresses \cup {NoTable}, NewTableWrapper(a) \/ PrintTable(a)
      PROVE  SessionTyped' /\ WarningsTyped'
  <2>1. CASE NewTableWrapper(a)
    BY <1>1, <2>1 DEF NewTableWrapper, WarningsTyped, warnings
  <2>2. CASE PrintTable(a) /\ (a = NoTable \/ (contents[a].torn /\ ~debug))
    BY <1>1, <2>2 DEF PrintTable, WarningsTyped, warnings
  <2>3. CASE PrintTable(a) /\ ~(a = NoTable \/ (contents[a].torn /\ ~debug))
    <3>1. a \in Addresses /\ contents[a] \in TableContents
      BY <1>1, <2>3
    <3>2. ReadSilently(PrintedTypes(a)) /\ thrown' = contents[a].torn /\ UNCHANGED status
      BY <2>3 DEF PrintTable
    <3>3. WarningsTyped'
      BY <1>1, <3>1, <3>2, ContentsTyped, ReadsTyped
    <3>4. contents[a].torn \in BOOLEAN
      BY <3>1 DEF TableContents
    <3> QED
      BY <1>1, <2>3, <3>2, <3>3, <3>4 DEF PrintTable
  <2> QED
    BY <1>8, <2>1, <2>2, <2>3
<1>9. CASE \E input \in 0 .. Len(operators) : NewPrint(input)
  BY <1>1, <1>9 DEF NewPrint, WarningsTyped, warnings
<1>10. ASSUME NEW o \in DOMAIN operators, ExecutePrint(o) \/ ExecutePrintThrows(o)
       PROVE  SessionTyped' /\ WarningsTyped'
  <2>1. HasInputTable(o) /\ ReadSilently(PrintedTypes(InputTable(o)))
    BY <1>10 DEF ExecutePrint, ExecutePrintThrows
  <2>2. WarningsTyped'
    BY <1>1, <2>1, InputTableTyped, ContentsTyped, ReadsTyped
  <2> QED
    BY <1>1, <1>10, <2>2 DEF ExecutePrint, ExecutePrintThrows
<1>11. ASSUME NEW o \in DOMAIN operators,
              ReleaseOperator(o) \/ ExecuteTableWrapper(o) \/ ExecutePrintUndefined(o)
       PROVE  SessionTyped' /\ WarningsTyped'
  BY <1>1, <1>11 DEF ReleaseOperator, ExecuteTableWrapper, ExecutePrintUndefined,
                     WarningsTyped, warnings
<1>12. CASE UNCHANGED vars
  BY <1>1, <1>12 DEF vars, WarningsTyped, warnings
<1> QED
  BY <1>1, <1>2, <1>3, <1>4, <1>5, <1>6, <1>7, <1>8, <1>9, <1>10, <1>11, <1>12, NewTableKnown
  DEF Next

LEMMA SessionAlways == Spec => [](SessionInv /\ ScopesInv)
<1>1. Init => SessionInv
  <2> SUFFICES ASSUME Init PROVE SessionInv
    OBVIOUS
  <2>1. /\ operators = <<>> /\ scopes = <<>> /\ warned = {}
        /\ shown \in [Types -> Nat] /\ disabled = FALSE /\ debug \in Builds
    BY DEF Init, WarningsInit
  <2>2. Len(operators) <= MaxOperators /\ operators \in Seq(Operators) /\ scopes \in Seq(BOOLEAN)
    BY <2>1, SessionAssumption
  <2>3. \A types \in Schemas : Empty(types) \in TableContents
    BY DEF Empty, TableContents
  <2>4. contents \in [Addresses -> TableContents]
    BY <2>3 DEF Init
  <2>5. tables \in [Names -> Addresses \cup {NoTable}]
    BY DEF Init
  <2>6. InputsAreKept /\ OutputsPassOn
    BY <2>1 DEF InputsAreKept, OutputsPassOn
  <2> QED
    BY <2>1, <2>2, <2>4, <2>5, <2>6 DEF Init, SessionInv, TypeOK
<1>2. ASSUME SessionInv, ScopesInv, [Next]_vars PROVE SessionInv'
  <2>1. ScopesInv'
    BY <1>2, ScopesStep
  <2> QED
    BY <1>2, <2>1, OperatorsStep, SessionTypedStep
    DEF SessionInv, TypeOK, SessionTyped, WarningsTyped, ScopesInv
<1> QED
  BY <1>1, <1>2, ScopesAlways, PTL DEF Spec

\* The state of a client, of its operators and of the StorageManager is always
\* made of what their variables can hold; an operator's output is a table that
\* some wrapper was given.
THEOREM SessionTypeCorrect == Spec => []TypeOK
<1>1. SessionInv => TypeOK
  BY DEF SessionInv
<1> QED
  BY <1>1, SessionAlways, PTL

\* Chains of operators of any length, executed in any order and any number of
\* times, put out the table at their start (AbstractOperator::execute).
THEOREM OutputsAlwaysPassOn == Spec => []OutputsPassOn
<1>1. SessionInv => OutputsPassOn
  BY DEF SessionInv
<1> QED
  BY <1>1, SessionAlways, PTL

\* Only drop_table and reset take a table from its name, in both builds.
THEOREM NamesAreKept == Spec => NamesKeepTheirTable
<1>1. ASSUME SessionInv, [Next]_vars, NEW n \in Names, HasTable(n), tables'[n] # tables[n]
      PROVE  tables'[n] = NoTable /\ ~thrown'
  <2>1. tables \in [Names -> Addresses \cup {NoTable}]
    BY <1>1 DEF SessionInv, TypeOK
  <2>2. ASSUME NEW m \in Names, NEW a, AddTable(m, a) PROVE tables'[n] = tables[n]
    BY <1>1, <2>1, <2>2 DEF AddTable, Inserted, HasTable
  <2>3. ASSUME NEW m \in Names, DropTable(m) PROVE tables'[n] = NoTable /\ ~thrown'
    BY <1>1, <2>1, <2>3 DEF DropTable, HasTable
  <2>4. CASE Reset
    BY <1>1, <2>4 DEF Reset
  <2>5. CASE UNCHANGED tables
    BY <1>1, <2>5
  <2>6. \/ \E m \in Names : DropTable(m) \/ \E a \in Addresses : AddTable(m, a)
        \/ Reset \/ UNCHANGED tables
    BY <1>1 DEF Next, vars, Scope, NewTable, ReleaseTable, Fill, Tear, ReadRow, GetTable,
                NewTableWrapper, PrintTable, NewPrint, ReleaseOperator, ExecuteTableWrapper,
                ExecutePrint, ExecutePrintThrows, ExecutePrintUndefined
  <2> QED
    BY <2>2, <2>3, <2>4, <2>5, <2>6, <1>1
<1>2. ASSUME SessionInv, [Next]_vars
      PROVE  [\A n \in Names : HasTable(n) /\ tables'[n] # tables[n] =>
                tables'[n] = NoTable /\ ~thrown']_vars
  BY <1>1, <1>2
<1> QED
  BY <1>2, SessionAlways, PTL DEF Spec, NamesKeepTheirTable

\* The operator a Print reads is alive as long as the Print is held, and with it
\* the table it has put out: no step frees it or puts another in its place.
THEOREM TablesToPrintStay == Spec => PrintedTablesStay
<1>1. ASSUME SessionInv, [Next]_vars,
             NEW o \in DOMAIN operators, operators[o].held, HasInputTable(o)
      PROVE  /\ contents'[InputTable(o)].types = contents[InputTable(o)].types
             /\ contents[InputTable(o)].filled => contents'[InputTable(o)].filled
  <2> DEFINE a == InputTable(o)
  <2>1. /\ a \in Addresses
        /\ contents \in [Addresses -> TableContents]
    BY <1>1, InputTableTyped DEF SessionInv, TypeOK
  <2>2. a \in LiveTables
    <3>1. operators[o].input \in operators[o].keeps /\ a # NoTable
      BY <1>1 DEF SessionInv, InputsAreKept, HasInputTable
    <3>2. operators[o].input \in LiveOperators
      BY <1>1, <3>1 DEF LiveOperators, HeldOperators
    <3> QED
      BY <3>1, <3>2 DEF LiveTables, InputTable
  <2> HIDE DEF a
  <2>3. ASSUME NEW b \in Addresses, NEW types, NewTable(b, types)
        PROVE  contents'[a] = contents[a]
    BY <2>1, <2>2, <2>3 DEF NewTable
  <2>4. ASSUME NEW b \in Addresses, Fill(b) \/ Tear(b)
        PROVE  /\ contents'[a].types = contents[a].types
               /\ contents[a].filled => contents'[a].filled
    <3>1. contents[b] \in TableContents
      BY <2>1
    <3>2. \/ contents' = [contents EXCEPT ![b].filled = TRUE]
          \/ contents' = [contents EXCEPT ![b].torn = TRUE]
      BY <2>4 DEF Fill, Tear
    <3> QED
      BY <2>1, <3>1, <3>2 DEF TableContents
  <2>5. \/ \E b \in Addresses : \/ \E types \in Schemas : NewTable(b, types)
                                \/ Fill(b) \/ Tear(b)
        \/ UNCHANGED contents
    BY <1>1 DEF Next, vars, Scope, ReleaseTable, ReadRow, AddTable, DropTable, GetTable, Reset,
                NewTableWrapper, PrintTable, NewPrint, ReleaseOperator, ExecuteTableWrapper,
                ExecutePrint, ExecutePrintThrows, ExecutePrintUndefined
  <2> QED
    BY <2>3, <2>4, <2>5 DEF a
<1>2. ASSUME SessionInv, [Next]_vars
      PROVE  [\A o \in DOMAIN operators : operators[o].held /\ HasInputTable(o) =>
                LET a == InputTable(o)
                IN  contents'[a].types = contents[a].types
                    /\ (contents[a].filled => contents'[a].filled)]_vars
  BY <1>1, <1>2
<1> QED
  BY <1>2, SessionAlways, PTL DEF Spec, PrintedTablesStay
=============================================================================
