--------------------------- MODULE SequenceLemmas ---------------------------
(* Induction over the natural numbers, and what it shows of the recursive      *)
(* functions over a sequence that the models use.                              *)
(* Every loop of a model is an instance of this module, and SequencesExt would  *)
(* come along with each of them: the few of its operators the lemmas are about  *)
(* are here under other names, with the definitions they have there.            *)
EXTENDS Integers, Sequences, WellFoundedInduction, TLAPS

CONSTANTS Step(_, _, _, _), \* a turn of a loop
          Holds(_, _, _, _) \* what the loop keeps

-----------------------------------------------------------------------------
(* Induction.                                                                  *)

\* The order of the natural numbers as a relation.
Smaller == {p \in Nat \X Nat : p[1] < p[2]}

\* Every non-empty set of natural numbers has a smallest element.
LEMMA SmallerIsWellFounded == IsWellFoundedOn(Smaller, Nat)
<1>1. OpToRel(<, Nat) = Smaller
  BY DEF OpToRel, Smaller
<1> QED
  BY <1>1, NatLessThanWellFounded

\* Induction over the natural numbers, for a set of them.
LEMMA SetInduction ==
    ASSUME NEW T, 0 \in T, \A n \in Nat : n \in T => n + 1 \in T
    PROVE  Nat \subseteq T
<1> DEFINE B == Nat \ T
<1> SUFFICES ASSUME B # {} PROVE FALSE
  OBVIOUS
<1>1. PICK x \in B : \A y \in B : <<y, x>> \notin Smaller
  <2>1. B \subseteq Nat
    OBVIOUS
  <2> HIDE DEF B
  <2> QED
    BY SmallerIsWellFounded, WFMin, <2>1
<1>2. x \in Nat /\ x # 0
  BY <1>1
<1>3. x - 1 \in Nat /\ <<x - 1, x>> \in Smaller
  BY <1>2 DEF Smaller
<1>4. x - 1 \in T
  BY <1>1, <1>3
<1> QED
  BY <1>1, <1>2, <1>4

\* Induction over sequences, for a set of them: a sequence is empty or one that
\* is shorter with an element added.
LEMMA SeqInduction ==
    ASSUME NEW S, NEW T, <<>> \in T,
           \A s \in Seq(S) : \A e \in S : s \in T => Append(s, e) \in T
    PROVE  Seq(S) \subseteq T
<1> DEFINE U == {n \in Nat : \A s \in Seq(S) : Len(s) = n => s \in T}
<1>1. 0 \in U
  <2>1. \A s \in Seq(S) : Len(s) = 0 => s = <<>>
    OBVIOUS
  <2> QED
    BY <2>1
<1>2. ASSUME NEW n \in Nat, n \in U PROVE n + 1 \in U
  <2>1. ASSUME NEW s \in Seq(S), Len(s) = n + 1 PROVE s \in T
    <3> DEFINE front == SubSeq(s, 1, n)
    <3>1. front \in Seq(S) /\ Len(front) = n /\ s[n + 1] \in S /\ s = Append(front, s[n + 1])
      BY <2>1
    <3> HIDE DEF front
    <3>2. front \in T
      BY <1>2, <3>1
    <3> QED
      BY <3>1, <3>2
  <2> QED
    BY <2>1
<1> HIDE DEF U
<1>3. Nat \subseteq U
  BY <1>1, <1>2, SetInduction
<1>4. ASSUME NEW s \in Seq(S) PROVE s \in T
  <2>1. Len(s) \in U
    BY <1>3
  <2> QED
    BY <2>1 DEF U
<1> QED
  BY <1>4

-----------------------------------------------------------------------------
(* Flatten(seqs) is the concatenation of seqs, as FlattenSeq defines it.         *)

Flatten(seqs) ==
    IF Len(seqs) = 0 THEN seqs
    ELSE LET flatten[i \in 1 .. Len(seqs)] ==
               IF i = 1 THEN seqs[i] ELSE flatten[i - 1] \o seqs[i]
         IN  flatten[Len(seqs)]

\* f[i] is the concatenation of the first i of n sequences.
Flattens(f, seqs, n) ==
    f = [i \in 1 .. n |-> IF i = 1 THEN seqs[i] ELSE f[i - 1] \o seqs[i]]

\* Such a function exists for every sequence of sequences.
LEMMA FlattensExists ==
    ASSUME NEW seqs, NEW m \in Nat
    PROVE  \E f : Flattens(f, seqs, m)
<1> DEFINE T == {n \in Nat : \E f : Flattens(f, seqs, n)}
<1>1. 0 \in T
  <2>1. Flattens([i \in 1 .. 0 |-> 0], seqs, 0)
    BY DEF Flattens
  <2> QED
    BY <2>1
<1>2. ASSUME NEW n \in Nat, n \in T PROVE n + 1 \in T
  <2>1. PICK f : Flattens(f, seqs, n)
    BY <1>2
  <2> DEFINE g == [i \in 1 .. n + 1 |-> IF i = 1 THEN seqs[i] ELSE f[i - 1] \o seqs[i]]
  <2>2. ASSUME NEW i \in 1 .. n PROVE g[i] = f[i]
    <3>1. f[i] = IF i = 1 THEN seqs[i] ELSE f[i - 1] \o seqs[i]
      BY <2>1 DEF Flattens
    <3> QED
      BY <3>1
  <2>3. ASSUME NEW i \in 1 .. n + 1
        PROVE  g[i] = IF i = 1 THEN seqs[i] ELSE g[i - 1] \o seqs[i]
    <3>1. CASE i = 1
      BY <3>1
    <3>2. CASE i # 1
      <4>1. i - 1 \in 1 .. n
        BY <3>2
      <4>2. g[i - 1] = f[i - 1]
        BY <2>2, <4>1
      <4>3. g[i] = f[i - 1] \o seqs[i]
        BY <3>2
      <4> HIDE DEF g
      <4> QED
        BY <3>2, <4>2, <4>3
    <3> QED
      BY <3>1, <3>2
  <2>4. g = [i \in 1 .. n + 1 |-> IF i = 1 THEN seqs[i] ELSE g[i - 1] \o seqs[i]]
    <3>1. g = [i \in 1 .. n + 1 |-> g[i]]
      OBVIOUS
    <3> HIDE DEF g
    <3> QED
      BY <2>3, <3>1
  <2>5. Flattens(g, seqs, n + 1)
    BY <2>4, Zenon DEF Flattens
  <2> HIDE DEF g
  <2> QED
    BY <2>5
<1> HIDE DEF T
<1>3. m \in T
  BY <1>1, <1>2, SetInduction
<1> QED
  BY <1>3 DEF T

\* Flatten takes the last of the concatenations.
LEMMA FlattenDef ==
    ASSUME NEW S, NEW seqs \in Seq(S), seqs # <<>>
    PROVE  \E f : Flattens(f, seqs, Len(seqs)) /\ Flatten(seqs) = f[Len(seqs)]
<1> DEFINE flatten == CHOOSE f : Flattens(f, seqs, Len(seqs))
<1>1. Len(seqs) \in Nat /\ Len(seqs) # 0
  OBVIOUS
<1>2. Flattens(flatten, seqs, Len(seqs))
  BY <1>1, FlattensExists, Zenon
<1>3. Flatten(seqs) = flatten[Len(seqs)]
  BY <1>1, Zenon DEF Flatten, Flattens
<1> QED
  BY <1>2, <1>3

\* The equation a concatenation satisfies.
LEMMA FlattensStep ==
    ASSUME NEW f, NEW seqs, NEW n \in Nat, Flattens(f, seqs, n), NEW i \in 1 .. n
    PROVE  f[i] = IF i = 1 THEN seqs[i] ELSE f[i - 1] \o seqs[i]
BY DEF Flattens

\* Two sequences agree up to n.
Agree(s, t, n) == \A i \in 1 .. n : s[i] = t[i]

\* The first concatenations are those of any sequences that begin the same way.
LEMMA FlattensAgree ==
    ASSUME NEW n \in Nat, NEW m \in Nat, n <= m,
           NEW s, NEW t, Agree(s, t, n),
           NEW f, Flattens(f, s, n), NEW g, Flattens(g, t, m)
    PROVE  Agree(f, g, n)
<1> DEFINE T == {i \in Nat : i \in 1 .. n => f[i] = g[i]}
<1>1. 0 \in T
  OBVIOUS
<1>2. ASSUME NEW i \in Nat, i \in T PROVE i + 1 \in T
  <2> SUFFICES ASSUME i + 1 \in 1 .. n PROVE f[i + 1] = g[i + 1]
    OBVIOUS
  <2>1. /\ f[i + 1] = IF i + 1 = 1 THEN s[i + 1] ELSE f[(i + 1) - 1] \o s[i + 1]
        /\ g[i + 1] = IF i + 1 = 1 THEN t[i + 1] ELSE g[(i + 1) - 1] \o t[i + 1]
    <3>1. i + 1 \in 1 .. n /\ i + 1 \in 1 .. m
      OBVIOUS
    <3> QED
      BY <3>1, FlattensStep
  <2>2. (i + 1) - 1 = i /\ s[i + 1] = t[i + 1]
    BY DEF Agree
  <2>3. i + 1 # 1 => f[i] = g[i]
    BY <1>2
  <2> QED
    BY <2>1, <2>2, <2>3
<1> HIDE DEF T
<1>3. Nat \subseteq T
  BY <1>1, <1>2, SetInduction
<1> QED
  BY <1>3 DEF T, Agree

\* A concatenation of sequences is a sequence of what they hold.
LEMMA FlattensType ==
    ASSUME NEW S, NEW n \in Nat, NEW seqs, \A i \in 1 .. n : seqs[i] \in Seq(S),
           NEW f, Flattens(f, seqs, n)
    PROVE  \A i \in 1 .. n : f[i] \in Seq(S)
<1> DEFINE T == {i \in Nat : i \in 1 .. n => f[i] \in Seq(S)}
<1>1. 0 \in T
  OBVIOUS
<1>2. ASSUME NEW i \in Nat, i \in T PROVE i + 1 \in T
  <2> SUFFICES ASSUME i + 1 \in 1 .. n PROVE f[i + 1] \in Seq(S)
    OBVIOUS
  <2>1. f[i + 1] = IF i + 1 = 1 THEN seqs[i + 1] ELSE f[(i + 1) - 1] \o seqs[i + 1]
    BY FlattensStep
  <2>2. (i + 1) - 1 = i /\ seqs[i + 1] \in Seq(S)
    OBVIOUS
  <2>3. i + 1 # 1 => f[i] \in Seq(S)
    BY <1>2
  <2> QED
    BY <2>1, <2>2, <2>3
<1> HIDE DEF T
<1>3. Nat \subseteq T
  BY <1>1, <1>2, SetInduction
<1> QED
  BY <1>3 DEF T

\* No sequences concatenate to the empty sequence.
LEMMA FlattenOfNone == Flatten(<<>>) = <<>>
BY DEF Flatten

\* A concatenation holds what the sequences hold.
LEMMA FlattenType ==
    ASSUME NEW S, NEW seqs \in Seq(Seq(S))
    PROVE  Flatten(seqs) \in Seq(S)
<1>1. CASE seqs = <<>>
  <2>1. Flatten(seqs) = <<>> /\ <<>> \in Seq(S)
    BY <1>1, FlattenOfNone
  <2> QED
    BY <2>1
<1>2. CASE seqs # <<>>
  <2>1. PICK f : Flattens(f, seqs, Len(seqs)) /\ Flatten(seqs) = f[Len(seqs)]
    BY <1>2, FlattenDef
  <2>2. Len(seqs) \in Nat /\ Len(seqs) \in 1 .. Len(seqs) /\ \A i \in 1 .. Len(seqs) : seqs[i] \in Seq(S)
    BY <1>2
  <2> QED
    BY <2>1, <2>2, FlattensType
<1> QED
  BY <1>1, <1>2

\* One more sequence comes last.
LEMMA FlattenAppend ==
    ASSUME NEW S, NEW seqs \in Seq(Seq(S)), NEW e \in Seq(S)
    PROVE  Flatten(Append(seqs, e)) = Flatten(seqs) \o e
<1>0. PICK n, more : n = Len(seqs) /\ more = Append(seqs, e)
  OBVIOUS
<1>1. /\ more \in Seq(Seq(S)) /\ more # <<>> /\ Len(more) = n + 1 /\ n \in Nat
      /\ \A i \in 1 .. n : more[i] = seqs[i]
      /\ more[n + 1] = e
  <2>1. n \in Nat /\ DOMAIN seqs = 1 .. n
    BY <1>0
  <2>2. more \in Seq(Seq(S)) /\ Len(more) = n + 1 /\ DOMAIN more = 1 .. (n + 1)
    BY <1>0
  <2>3. more[n + 1] = e /\ \A i \in 1 .. n : more[i] = seqs[i]
    BY <1>0
  <2>4. more # <<>>
    BY <2>1, <2>2
  <2> QED
    BY <2>1, <2>2, <2>3, <2>4
<1>2. PICK g : Flattens(g, more, n + 1) /\ Flatten(more) = g[n + 1]
  BY <1>1, FlattenDef
<1>3. g[n + 1] = IF n + 1 = 1 THEN e ELSE g[(n + 1) - 1] \o e
  <2>1. n + 1 \in Nat /\ n + 1 \in 1 .. n + 1
    BY <1>1
  <2> QED
    BY <1>1, <1>2, <2>1, FlattensStep
<1>4. CASE seqs = <<>>
  <2>1. g[n + 1] = e /\ Flatten(seqs) = <<>>
    BY <1>0, <1>3, <1>4, FlattenOfNone
  <2>2. <<>> \o e = e
    OBVIOUS
  <2> QED
    BY <1>0, <1>2, <2>1, <2>2
<1>5. CASE seqs # <<>>
  <2>1. n \in 1 .. n /\ (n + 1) - 1 = n /\ n + 1 # 1
    BY <1>0, <1>5
  <2>2. PICK f : Flattens(f, seqs, n) /\ Flatten(seqs) = f[n]
    BY <1>0, <1>5, FlattenDef
  <2>3. f[n] = g[n]
    <3>1. PICK m \in Nat : m = n + 1
      BY <1>1
    <3>2. n \in Nat /\ n <= m /\ Agree(seqs, more, n)
      BY <1>1, <3>1 DEF Agree
    <3>3. Flattens(f, seqs, n) /\ Flattens(g, more, m)
      BY <1>2, <2>2, <3>1
    <3>4. Agree(f, g, n)
      BY <3>2, <3>3, FlattensAgree
    <3> QED
      BY <2>1, <3>4 DEF Agree
  <2> QED
    BY <1>0, <1>2, <1>3, <2>1, <2>2, <2>3
<1> QED
  BY <1>4, <1>5

\* Sequences are flattened by flattening all but the last and adding the last.
LEMMA FlattenLast ==
    ASSUME NEW S, NEW seqs \in Seq(Seq(S)), seqs # <<>>
    PROVE  LET front == SubSeq(seqs, 1, Len(seqs) - 1)
           IN  /\ front \in Seq(Seq(S))
               /\ Flatten(seqs) = Flatten(front) \o seqs[Len(seqs)]
<1> DEFINE front == SubSeq(seqs, 1, Len(seqs) - 1)
<1>1. front \in Seq(Seq(S)) /\ seqs[Len(seqs)] \in Seq(S) /\ seqs = Append(front, seqs[Len(seqs)])
  OBVIOUS
<1> HIDE DEF front
<1>2. Flatten(seqs) = Flatten(front) \o seqs[Len(seqs)]
  BY <1>1, FlattenAppend
<1> QED
  BY <1>1, <1>2 DEF front

\* An element added to the last sequence is the last of the concatenation.
LEMMA FlattenExtend ==
    ASSUME NEW S, NEW s \in Seq(Seq(S)), s # <<>>, NEW e \in S
    PROVE  Flatten([s EXCEPT ![Len(s)] = Append(s[Len(s)], e)]) = Append(Flatten(s), e)
<1> DEFINE front == SubSeq(s, 1, Len(s) - 1)
           last == s[Len(s)]
<1>1. /\ front \in Seq(Seq(S)) /\ last \in Seq(S)
      /\ Flatten(s) = Flatten(front) \o last
  <2>1. last \in Seq(S)
    OBVIOUS
  <2>2. front \in Seq(Seq(S)) /\ Flatten(s) = Flatten(front) \o last
    BY FlattenLast
  <2> QED
    BY <2>1, <2>2
<1>2. ASSUME NEW t \in Seq(Seq(S)), Len(t) = Len(s), \A i \in 1 .. (Len(s) - 1) : t[i] = s[i],
             t[Len(s)] = Append(last, e)
      PROVE  Flatten(t) = Append(Flatten(s), e)
  <2>1. SubSeq(t, 1, Len(t) - 1) = front /\ t # <<>>
    BY <1>2
  <2>2. Flatten(t) = Flatten(front) \o Append(last, e)
    <3>1. Flatten(t) = Flatten(SubSeq(t, 1, Len(t) - 1)) \o t[Len(t)]
      BY <2>1, FlattenLast
    <3> QED
      BY <1>2, <2>1, <3>1
  <2> HIDE DEF front, last
  <2>3. Flatten(front) \in Seq(S)
    BY <1>1, FlattenType
  <2>4. ASSUME NEW a \in Seq(S), NEW b \in Seq(S) PROVE a \o Append(b, e) = Append(a \o b, e)
    OBVIOUS
  <2> QED
    BY <1>1, <2>2, <2>3, <2>4
<1> DEFINE u == [s EXCEPT ![Len(s)] = Append(last, e)]
<1>3. Append(last, e) \in Seq(S) /\ Len(s) \in DOMAIN s
  BY <1>1
<1>4. u \in Seq(Seq(S)) /\ Len(u) = Len(s)
  BY <1>3
<1>5. u[Len(s)] = Append(last, e) /\ \A i \in 1 .. (Len(s) - 1) : u[i] = s[i]
  BY <1>3
<1> HIDE DEF u
<1>6. Flatten(u) = Append(Flatten(s), e)
  BY <1>2, <1>4, <1>5
<1> QED
  BY <1>6 DEF u

\* A concatenation is empty exactly when all the sequences are.
LEMMA FlattenEmpty ==
    ASSUME NEW S, NEW seqs \in Seq(Seq(S))
    PROVE  Flatten(seqs) = <<>> <=> \A i \in 1 .. Len(seqs) : seqs[i] = <<>>
<1> DEFINE Empty(s) == Flatten(s) = <<>> <=> \A i \in 1 .. Len(s) : s[i] = <<>>
           T == {s \in Seq(Seq(S)) : Empty(s)}
<1>1. <<>> \in T
  <2>1. <<>> \in Seq(Seq(S)) /\ Len(<<>>) = 0
    OBVIOUS
  <2> QED
    BY <2>1, FlattenOfNone
<1>2. ASSUME NEW s \in Seq(Seq(S)), NEW e \in Seq(S), s \in T PROVE Append(s, e) \in T
  <2> DEFINE t == Append(s, e)
  <2>1. /\ t \in Seq(Seq(S)) /\ Len(t) = Len(s) + 1 /\ t[Len(s) + 1] = e
        /\ \A i \in 1 .. Len(s) : t[i] = s[i]
    OBVIOUS
  <2>2. Flatten(t) = Flatten(s) \o e /\ Flatten(s) \in Seq(S)
    BY FlattenAppend, FlattenType
  <2>3. Flatten(t) = <<>> <=> Flatten(s) = <<>> /\ e = <<>>
    <3>1. ASSUME NEW a \in Seq(S), NEW b \in Seq(S) PROVE a \o b = <<>> <=> a = <<>> /\ b = <<>>
      <4>1. Len(a \o b) = Len(a) + Len(b) /\ Len(a) \in Nat /\ Len(b) \in Nat
        OBVIOUS
      <4>2. \A c \in Seq(S) : c = <<>> <=> Len(c) = 0
        OBVIOUS
      <4>3. a \o b \in Seq(S)
        OBVIOUS
      <4> QED
        BY <4>1, <4>2, <4>3
    <3> QED
      BY <2>2, <3>1
  <2> HIDE DEF t
  <2>4. (\A i \in 1 .. Len(t) : t[i] = <<>>) <=> (\A i \in 1 .. Len(s) : s[i] = <<>>) /\ e = <<>>
    <3>1. Len(s) \in Nat /\ \A i \in 1 .. Len(t) : i \in 1 .. Len(s) \/ i = Len(s) + 1
      BY <2>1
    <3>2. Len(s) + 1 \in 1 .. Len(t) /\ \A i \in 1 .. Len(s) : i \in 1 .. Len(t)
      BY <2>1, <3>1
    <3> QED
      BY <2>1, <3>1, <3>2
  <2>5. Empty(s)
    BY <1>2
  <2>6. Empty(t)
    BY <2>3, <2>4, <2>5
  <2> QED
    BY <2>1, <2>6 DEF t
<1> HIDE DEF T
<1>3. seqs \in T
  BY <1>1, <1>2, SeqInduction
<1> QED
  BY <1>3 DEF T

\* The elements of a sequence.
Elements(s) == {s[x] : x \in DOMAIN s}

\* A concatenation holds the elements of both sequences.
LEMMA ConcatElements ==
    ASSUME NEW S, NEW a \in Seq(S), NEW b \in Seq(S)
    PROVE  Elements(a) \subseteq Elements(a \o b) /\ Elements(b) \subseteq Elements(a \o b)
<1>1. ASSUME NEW k \in DOMAIN a PROVE k \in DOMAIN (a \o b) /\ (a \o b)[k] = a[k]
  OBVIOUS
<1>2. ASSUME NEW k \in DOMAIN b
      PROVE  Len(a) + k \in DOMAIN (a \o b) /\ (a \o b)[Len(a) + k] = b[k]
  OBVIOUS
<1> QED
  BY <1>1, <1>2 DEF Elements

\* Every element of every sequence is in the concatenation.
LEMMA FlattenElements ==
    ASSUME NEW S, NEW seqs \in Seq(Seq(S)), NEW j \in 1 .. Len(seqs)
    PROVE  Elements(seqs[j]) \subseteq Elements(Flatten(seqs))
<1> DEFINE T == {s \in Seq(Seq(S)) :
                    \A i \in 1 .. Len(s) : Elements(s[i]) \subseteq Elements(Flatten(s))}
<1>1. <<>> \in T
  <2>1. <<>> \in Seq(Seq(S)) /\ Len(<<>>) = 0
    OBVIOUS
  <2> QED
    BY <2>1
<1>2. ASSUME NEW s \in Seq(Seq(S)), NEW e \in Seq(S), s \in T PROVE Append(s, e) \in T
  <2> DEFINE t == Append(s, e)
  <2>1. /\ t \in Seq(Seq(S)) /\ Len(t) = Len(s) + 1 /\ t[Len(s) + 1] = e
        /\ \A i \in 1 .. Len(s) : t[i] = s[i]
    OBVIOUS
  <2>2. /\ Elements(Flatten(s)) \subseteq Elements(Flatten(t))
        /\ Elements(e) \subseteq Elements(Flatten(t))
    <3>1. Flatten(t) = Flatten(s) \o e /\ Flatten(s) \in Seq(S)
      BY FlattenAppend, FlattenType
    <3> HIDE DEF t
    <3> QED
      BY <3>1, ConcatElements
  <2> HIDE DEF t
  <2>3. ASSUME NEW i \in 1 .. Len(t) PROVE Elements(t[i]) \subseteq Elements(Flatten(t))
    <3>1. CASE i \in 1 .. Len(s)
      <4>1. Elements(s[i]) \subseteq Elements(Flatten(s))
        BY <1>2, <3>1
      <4> QED
        BY <2>1, <2>2, <3>1, <4>1
    <3>2. CASE i = Len(s) + 1
      BY <2>1, <2>2, <3>2
    <3>3. Len(s) \in Nat /\ i \in 1 .. (Len(s) + 1)
      BY <2>1
    <3> QED
      BY <3>1, <3>2, <3>3
  <2> QED
    BY <2>1, <2>3 DEF t
<1> HIDE DEF T
<1>3. seqs \in T
  BY <1>1, <1>2, SeqInduction
<1> QED
  BY <1>3 DEF T

-----------------------------------------------------------------------------
(* Loops.  Step(p, q, x, e) is a turn of a loop on the element e; p, q are fixed. *)

Largest(S) == CHOOSE x \in S : \A y \in S : x >= y
Smallest(S) == CHOOSE x \in S : \A y \in S : x =< y

\* A set of numbers from 1 to n has a largest one.
LEMMA LargestOfInterval ==
    ASSUME NEW n \in Nat, NEW s \in SUBSET (1 .. n), s # {}
    PROVE  Largest(s) \in s /\ \A x \in s : x <= Largest(s)
<1> DEFINE T == {m \in Nat : \A u \in SUBSET (1 .. m) : u # {} => \E x \in u : \A y \in u : x >= y}
<1>1. 0 \in T
  <2>1. 1 .. 0 = {}
    OBVIOUS
  <2> QED
    BY <2>1
<1>2. ASSUME NEW m \in Nat, m \in T PROVE m + 1 \in T
  <2> SUFFICES ASSUME NEW u \in SUBSET (1 .. m + 1), u # {} PROVE \E x \in u : \A y \in u : x >= y
    OBVIOUS
  <2>1. CASE m + 1 \in u
    BY <2>1
  <2>2. CASE m + 1 \notin u
    <3>1. u \in SUBSET (1 .. m)
      BY <2>2
    <3> QED
      BY <1>2, <3>1
  <2> QED
    BY <2>1, <2>2
<1> HIDE DEF T
<1>3. n \in T
  BY <1>1, <1>2, SetInduction
<1>4. PICK x \in s : \A y \in s : x >= y
  BY <1>3 DEF T
<1>5. Largest(s) \in s /\ \A y \in s : Largest(s) >= y
  BY <1>4 DEF Largest
<1> QED
  BY <1>5

\* A set of natural numbers has a smallest one.
LEMMA SmallestOfNumbers ==
    ASSUME NEW s \in SUBSET Nat, s # {}
    PROVE  Smallest(s) \in s /\ \A x \in s : Smallest(s) <= x
<1>1. PICK x \in s : \A y \in s : <<y, x>> \notin Smaller
  BY SmallerIsWellFounded, WFMin
<1>2. ASSUME NEW y \in s PROVE x <= y
  <2>1. x \in Nat /\ y \in Nat
    OBVIOUS
  <2>2. <<y, x>> \in Nat \X Nat => ~(y < x)
    BY <1>1 DEF Smaller
  <2> QED
    BY <2>1, <2>2
<1> QED
  BY <1>2 DEF Smallest

\* A loop over the elements of a sequence, from left to right.
Loop(p, q, start, seq) ==
    LET iter[s \in SUBSET DOMAIN seq] ==
          IF s = {} THEN start
          ELSE LET x == Largest(s) IN Step(p, q, iter[s \ {x}], seq[x])
    IN  iter[DOMAIN seq]

\* f[s] is what the loop over the elements at the positions in s comes to.
LoopValues(f, p, q, start, seq, n) ==
    f = [s \in SUBSET (1 .. n) |->
            IF s = {} THEN start ELSE Step(p, q, f[s \ {Largest(s)}], seq[Largest(s)])]

LEMMA ValuesExist ==
    ASSUME NEW p, NEW q, NEW start, NEW seq, NEW m \in Nat
    PROVE  \E f : LoopValues(f, p, q, start, seq, m)
<1> DEFINE T == {n \in Nat : \E f : LoopValues(f, p, q, start, seq, n)}
<1>1. 0 \in T
  <2> DEFINE f == [s \in SUBSET (1 .. 0) |-> start]
  <2>1. \A s \in SUBSET (1 .. 0) : s = {}
    OBVIOUS
  <2>2. LoopValues(f, p, q, start, seq, 0)
    BY <2>1 DEF LoopValues
  <2> QED
    BY <2>2
<1>2. ASSUME NEW n \in Nat, n \in T PROVE n + 1 \in T
  <2>1. PICK f : LoopValues(f, p, q, start, seq, n)
    BY <1>2
  <2> DEFINE g == [s \in SUBSET (1 .. n + 1) |->
                     IF n + 1 \in s THEN Step(p, q, f[s \ {n + 1}], seq[n + 1]) ELSE f[s]]
  <2>2. ASSUME NEW s \in SUBSET (1 .. n + 1)
        PROVE  g[s] = IF s = {} THEN start ELSE Step(p, q, g[s \ {Largest(s)}], seq[Largest(s)])
    <3>1. CASE n + 1 \in s
      <4>1. Largest(s) = n + 1
        <5>1. Largest(s) \in s /\ \A x \in s : x <= Largest(s)
          <6>1. n + 1 \in Nat /\ s # {}
            BY <3>1
          <6> QED
            BY <6>1, LargestOfInterval
        <5>2. Largest(s) \in 1 .. n + 1 /\ n + 1 <= Largest(s)
          BY <3>1, <5>1, Zenon
        <5> QED
          BY <5>2
      <4>2. s \ {n + 1} \in SUBSET (1 .. n + 1) /\ n + 1 \notin s \ {n + 1}
        OBVIOUS
      <4>3. g[s \ {n + 1}] = f[s \ {n + 1}]
        BY <4>2
      <4> QED
        BY <3>1, <4>1, <4>3
    <3>2. CASE n + 1 \notin s
      <4>1. s \in SUBSET (1 .. n)
        BY <3>2
      <4>2. g[s] = f[s]
        BY <3>2
      <4>3. f[s] = IF s = {} THEN start ELSE Step(p, q, f[s \ {Largest(s)}], seq[Largest(s)])
        BY <2>1, <4>1, Zenon DEF LoopValues
      <4>4. s # {} => g[s \ {Largest(s)}] = f[s \ {Largest(s)}]
        BY <3>2
      <4> QED
        BY <4>2, <4>3, <4>4
    <3> QED
      BY <3>1, <3>2
  <2>3. LoopValues(g, p, q, start, seq, n + 1)
    BY <2>2, Zenon DEF LoopValues
  <2> QED
    BY <2>3
<1> HIDE DEF T
<1>3. m \in T
  BY <1>1, <1>2, SetInduction
<1> QED
  BY <1>3 DEF T

\* What a loop has come to after each of its turns.
Turns(h, p, q, start, seq) ==
    /\ h[0] = start
    /\ \A k \in 1 .. Len(seq) : h[k] = Step(p, q, h[k - 1], seq[k])

LEMMA LoopTurns ==
    ASSUME NEW p, NEW q, NEW start, NEW seq, Len(seq) \in Nat, DOMAIN seq = 1 .. Len(seq)
    PROVE  \E h : Turns(h, p, q, start, seq) /\ Loop(p, q, start, seq) = h[Len(seq)]
<1> DEFINE n == Len(seq)
           f == CHOOSE f : LoopValues(f, p, q, start, seq, n)
           h == [k \in 0 .. n |-> f[1 .. k]]
<1>1. Loop(p, q, start, seq) = f[1 .. n]
  <2>1. DOMAIN seq = 1 .. n
    OBVIOUS
  <2> QED
    BY <2>1, Zenon DEF Loop, LoopValues
<1>2. LoopValues(f, p, q, start, seq, n)
  BY ValuesExist, Zenon
<1> HIDE DEF f
<1>3. h[0] = start
  <2>1. 1 .. 0 = {} /\ {} \in SUBSET (1 .. n)
    OBVIOUS
  <2>2. f[{}] = start
    BY <1>2, <2>1, Zenon DEF LoopValues
  <2> QED
    BY <2>1, <2>2
<1>4. ASSUME NEW k \in 1 .. n PROVE h[k] = Step(p, q, h[k - 1], seq[k])
  <2>1. 1 .. k \in SUBSET (1 .. n) /\ 1 .. k # {} /\ (1 .. k) \ {k} = 1 .. (k - 1) /\ k \in Nat
    OBVIOUS
  <2>2. Largest(1 .. k) = k
    <3>1. Largest(1 .. k) \in 1 .. k /\ \A x \in 1 .. k : x <= Largest(1 .. k)
      BY <2>1, LargestOfInterval
    <3> QED
      BY <2>1, <3>1
  <2>3. f[1 .. k] = Step(p, q, f[(1 .. k) \ {Largest(1 .. k)}], seq[Largest(1 .. k)])
    BY <1>2, <2>1, Zenon DEF LoopValues
  <2>4. h[k] = f[1 .. k] /\ h[k - 1] = f[1 .. (k - 1)]
    OBVIOUS
  <2> QED
    BY <2>1, <2>2, <2>3, <2>4
<1>5. Turns(h, p, q, start, seq) /\ Loop(p, q, start, seq) = h[n]
  <2>1. h[n] = f[1 .. n]
    OBVIOUS
  <2>2. Turns(h, p, q, start, seq)
    BY <1>3, <1>4, Zenon DEF Turns
  <2> QED
    BY <1>1, <2>1, <2>2
<1> QED
  BY <1>5, Zenon

\* What every turn of a loop keeps holds at its end: Holds(p, q, x, k) says it of
\* what the loop has come to after k turns.
LEMMA LoopHolds ==
    ASSUME NEW p, NEW q, NEW start, NEW seq, Len(seq) \in Nat, DOMAIN seq = 1 .. Len(seq),
           Holds(p, q, start, 0),
           \A x : \A k \in 1 .. Len(seq) :
                Holds(p, q, x, k - 1) => Holds(p, q, Step(p, q, x, seq[k]), k)
    PROVE  Holds(p, q, Loop(p, q, start, seq), Len(seq))
<1>1. PICK h : Turns(h, p, q, start, seq) /\ Loop(p, q, start, seq) = h[Len(seq)]
  BY LoopTurns
<1> DEFINE T == {k \in Nat : k <= Len(seq) => Holds(p, q, h[k], k)}
<1>2. 0 \in T
  BY <1>1 DEF Turns
<1>3. ASSUME NEW k \in Nat, k \in T PROVE k + 1 \in T
  <2> SUFFICES ASSUME k + 1 <= Len(seq) PROVE Holds(p, q, h[k + 1], k + 1)
    OBVIOUS
  <2>1. PICK m : m = k + 1
    OBVIOUS
  <2>2. m \in 1 .. Len(seq) /\ m - 1 = k
    BY <2>1
  <2>3. h[m] = Step(p, q, h[k], seq[m])
    BY <1>1, <2>2 DEF Turns
  <2>4. Holds(p, q, h[k], k)
    BY <1>3
  <2> QED
    BY <2>1, <2>2, <2>3, <2>4
<1> HIDE DEF T
<1>4. Len(seq) \in T
  BY <1>2, <1>3, SetInduction
<1> QED
  BY <1>1, <1>4 DEF T

\* A loop takes no turn over the empty sequence, and one more over a sequence with one
\* more element.
LEMMA LoopOfNone ==
    ASSUME NEW p, NEW q, NEW start
    PROVE  Loop(p, q, start, <<>>) = start
<1>1. Len(<<>>) = 0 /\ DOMAIN <<>> = 1 .. Len(<<>>) /\ Len(<<>>) \in Nat
  OBVIOUS
<1>2. PICK h : Turns(h, p, q, start, <<>>) /\ Loop(p, q, start, <<>>) = h[Len(<<>>)]
  BY <1>1, LoopTurns
<1> QED
  BY <1>1, <1>2 DEF Turns

LEMMA LoopAppend ==
    ASSUME NEW p, NEW q, NEW start, NEW seq, NEW more, NEW n \in Nat, Len(seq) = n,
           DOMAIN seq = 1 .. n, Len(more) = n + 1, DOMAIN more = 1 .. n + 1,
           \A i \in 1 .. n : more[i] = seq[i]
    PROVE  Loop(p, q, start, more) = Step(p, q, Loop(p, q, start, seq), more[n + 1])
<1>1. PICK g : Turns(g, p, q, start, seq) /\ Loop(p, q, start, seq) = g[n]
  BY LoopTurns
<1>2. PICK m : m = n + 1 /\ m \in Nat /\ m - 1 = n /\ m \in 1 .. m
  OBVIOUS
<1>3. PICK h : Turns(h, p, q, start, more) /\ Loop(p, q, start, more) = h[m]
  <2>1. Len(more) = m /\ DOMAIN more = 1 .. Len(more) /\ Len(more) \in Nat
    BY <1>2
  <2> QED
    BY <2>1, LoopTurns
<1> DEFINE T == {k \in Nat : k <= n => h[k] = g[k]}
<1>4. 0 \in T
  BY <1>1, <1>3 DEF Turns
<1>5. ASSUME NEW k \in Nat, k \in T PROVE k + 1 \in T
  <2> SUFFICES ASSUME k + 1 <= n PROVE h[k + 1] = g[k + 1]
    OBVIOUS
  <2>1. PICK i : i = k + 1
    OBVIOUS
  <2>2. i \in 1 .. n /\ i \in 1 .. Len(more) /\ i - 1 = k
    BY <2>1
  <2>3. h[i] = Step(p, q, h[k], more[i]) /\ g[i] = Step(p, q, g[k], seq[i])
    BY <1>1, <1>3, <2>2 DEF Turns
  <2>4. h[k] = g[k] /\ more[i] = seq[i]
    BY <1>5, <2>2
  <2> QED
    BY <2>1, <2>3, <2>4
<1> HIDE DEF T
<1>6. n \in T
  BY <1>4, <1>5, SetInduction
<1>7. h[n] = g[n]
  BY <1>6 DEF T
<1>8. h[m] = Step(p, q, h[n], more[m])
  <2>1. m \in 1 .. Len(more)
    BY <1>2
  <2> QED
    BY <1>2, <1>3, <2>1 DEF Turns
<1> QED
  BY <1>1, <1>2, <1>3, <1>7, <1>8
\* The first turn of a loop, and the loop over the rest of its sequence.
LEMMA LoopFirst ==
    ASSUME NEW p, NEW q, NEW start, NEW seq, NEW rest, NEW n \in Nat, Len(seq) = n + 1,
           DOMAIN seq = 1 .. n + 1, Len(rest) = n, DOMAIN rest = 1 .. n,
           \A i \in 1 .. n : rest[i] = seq[i + 1]
    PROVE  Loop(p, q, start, seq) = Loop(p, q, Step(p, q, start, seq[1]), rest)
<1>1. PICK m, first : m = n + 1 /\ first = Step(p, q, start, seq[1])
  OBVIOUS
<1>2. PICK h : Turns(h, p, q, start, seq) /\ Loop(p, q, start, seq) = h[m]
  <2>1. Len(seq) = m /\ DOMAIN seq = 1 .. Len(seq) /\ Len(seq) \in Nat
    BY <1>1
  <2> QED
    BY <2>1, LoopTurns
<1>3. PICK g : Turns(g, p, q, first, rest) /\ Loop(p, q, first, rest) = g[n]
  BY LoopTurns
<1> DEFINE T == {k \in Nat : k <= n => h[k + 1] = g[k]}
<1>4. 0 \in T
  <2>1. 1 \in 1 .. Len(seq) /\ 1 - 1 = 0 /\ 0 + 1 = 1
    OBVIOUS
  <2>2. h[1] = first
    BY <1>1, <1>2, <2>1 DEF Turns
  <2>3. g[0] = first
    BY <1>3 DEF Turns
  <2> QED
    BY <2>1, <2>2, <2>3
<1>5. ASSUME NEW k \in Nat, k \in T PROVE k + 1 \in T
  <2> SUFFICES ASSUME k + 1 <= n PROVE h[(k + 1) + 1] = g[k + 1]
    OBVIOUS
  <2>1. PICK i, j : i = k + 1 /\ j = i + 1
    OBVIOUS
  <2>2. i \in 1 .. n /\ i \in 1 .. Len(rest) /\ j \in 1 .. Len(seq) /\ i - 1 = k /\ j - 1 = i
    BY <2>1
  <2>3. g[i] = Step(p, q, g[k], rest[i]) /\ h[j] = Step(p, q, h[i], seq[j])
    BY <1>2, <1>3, <2>2 DEF Turns
  <2>4. h[i] = g[k] /\ rest[i] = seq[j]
    BY <1>5, <2>1, <2>2
  <2> QED
    BY <2>1, <2>3, <2>4
<1> HIDE DEF T
<1>6. n \in T
  BY <1>4, <1>5, SetInduction
<1>7. h[m] = g[n]
  BY <1>1, <1>6 DEF T
<1> QED
  BY <1>1, <1>2, <1>3, <1>7
=============================================================================
