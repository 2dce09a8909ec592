---------------------------- MODULE SequenceLemmas ----------------------------
(***************************************************************************)
(* Facts that the proofs share: what the operators on queues do to the set *)
(* of their elements, to the absence of duplicates and to the order; what  *)
(* can be computed along a sequence; the places in one that are of a kind, *)
(* and their ranks; which brackets are open; and what is in a sequence of  *)
(* sequences when it is flattened.                                         *)
(***************************************************************************)
EXTENDS Positions, SequencesExt, SequenceTheorems, FiniteSetTheorems,
        WellFoundedInduction, TLAPS

-----------------------------------------------------------------------------
(* The elements of a queue.                                                *)

\* The elements of a queue are those at its positions, all of its type.
LEMMA ToSetType ==
  ASSUME NEW S, NEW q \in Seq(S)
  PROVE  /\ ToSet(q) \subseteq S
         /\ ToSet(q) = {q[i] : i \in 1..Len(q)}
BY LenProperties DEF ToSet

\* An empty queue has no elements.
LEMMA ToSetEmpty == ToSet(<<>>) = {}
BY DEF ToSet

\* Only the empty queue has no elements.
LEMMA ToSetNonEmpty ==
  ASSUME NEW S, NEW q \in Seq(S), q # <<>>
  PROVE  /\ Len(q) \in Nat \ {0}
         /\ 1 \in DOMAIN q
         /\ Head(q) = q[1]
         /\ Head(q) \in ToSet(q)
<1>1. Len(q) \in Nat \ {0} /\ DOMAIN q = 1..Len(q)
  BY EmptySeq, LenProperties
<1>2. Head(q) = q[1]
  OBVIOUS
<1> QED
  BY <1>1, <1>2 DEF ToSet

\* Two queues in a row have the elements of both.
LEMMA ToSetConcat ==
  ASSUME NEW S, NEW p \in Seq(S), NEW q \in Seq(S)
  PROVE  ToSet(p \o q) = ToSet(p) \cup ToSet(q)
<1>1. Range(p \o q) = Range(p) \cup Range(q)
  BY RangeConcatenation
<1>2. \A f : ToSet(f) = Range(f)
  BY DEF ToSet, Range
<1> QED
  BY <1>1, <1>2

\* A queue of one has one element.
LEMMA ToSetSingleton ==
  ASSUME NEW S, NEW x \in S
  PROVE  <<x>> \in Seq(S) /\ Len(<<x>>) = 1 /\ ToSet(<<x>>) = {x}
<1>1. <<x>> \in Seq(S) /\ Len(<<x>>) = 1 /\ <<x>>[1] = x
  OBVIOUS
<1>2. DOMAIN <<x>> = {1}
  BY <1>1, LenProperties
<1> QED
  BY <1>1, <1>2 DEF ToSet

\* Putting x in a queue adds x to its elements.
LEMMA ToSetAppend ==
  ASSUME NEW S, NEW q \in Seq(S), NEW x \in S
  PROVE  ToSet(Append(q, x)) = ToSet(q) \cup {x}
<1>1. Append(q, x) = q \o <<x>>
  BY AppendIsConcat
<1>2. <<x>> \in Seq(S) /\ ToSet(<<x>>) = {x}
  BY ToSetSingleton
<1>3. ToSet(q \o <<x>>) = ToSet(q) \cup ToSet(<<x>>)
  BY <1>2, ToSetConcat
<1> QED
  BY <1>1, <1>2, <1>3

\* A queue is its head and its tail.
LEMMA HeadTailConcat ==
  ASSUME NEW S, NEW q \in Seq(S), q # <<>>
  PROVE  <<Head(q)>> \o Tail(q) = q
<1>1. /\ Head(q) \in S
      /\ Tail(q) \in Seq(S)
      /\ Len(Tail(q)) = Len(q) - 1
      /\ \A i \in 1..Len(Tail(q)) : Tail(q)[i] = q[i + 1]
  BY HeadTailProperties
<1>2. <<Head(q)>> \in Seq(S) /\ Len(<<Head(q)>>) = 1 /\ <<Head(q)>>[1] = q[1]
  BY <1>1, ToSetSingleton, ToSetNonEmpty
<1>3. /\ <<Head(q)>> \o Tail(q) \in Seq(S)
      /\ Len(<<Head(q)>> \o Tail(q)) = 1 + Len(Tail(q))
      /\ \A i \in 1..(1 + Len(Tail(q))) :
            (<<Head(q)>> \o Tail(q))[i] = IF i <= 1 THEN q[1] ELSE Tail(q)[i - 1]
  BY <1>1, <1>2, ConcatProperties
<1>4. Len(q) \in Nat /\ Len(<<Head(q)>> \o Tail(q)) = Len(q)
  BY <1>1, <1>3, LenProperties
<1>5. \A i \in 1..Len(q) : (<<Head(q)>> \o Tail(q))[i] = q[i]
  BY <1>1, <1>3, <1>4
<1> QED
  BY <1>3, <1>4, <1>5, SeqEqual

\* Taking the head leaves the other elements.
LEMMA ToSetTail ==
  ASSUME NEW S, NEW q \in Seq(S), q # <<>>
  PROVE  ToSet(q) = {Head(q)} \cup ToSet(Tail(q))
<1>1. Head(q) \in S /\ Tail(q) \in Seq(S) /\ <<Head(q)>> \o Tail(q) = q
  BY HeadTailProperties, HeadTailConcat
<1>2. <<Head(q)>> \in Seq(S) /\ ToSet(<<Head(q)>>) = {Head(q)}
  BY <1>1, ToSetSingleton
<1>3. ToSet(<<Head(q)>> \o Tail(q)) = ToSet(<<Head(q)>>) \cup ToSet(Tail(q))
  BY ZenonT(60), <1>1, <1>2, ToSetConcat
<1> QED
  BY <1>1, <1>2, <1>3

\* The head of a queue may as well be the last of the one before it.
LEMMA MoveHead ==
  ASSUME NEW S, NEW p \in Seq(S), NEW q \in Seq(S), q # <<>>
  PROVE  (p \o <<Head(q)>>) \o Tail(q) = p \o q
<1> DEFINE h == <<Head(q)>>
           t == Tail(q)
<1>1. h \in Seq(S) /\ t \in Seq(S)
  BY HeadTailProperties, ToSetSingleton
<1>2. h \o t = q
  BY HeadTailConcat
<1> HIDE DEF h, t
<1>3. (p \o h) \o t = p \o (h \o t)
  BY SMTT(60), <1>1, ConcatAssociative
<1> QED
  BY <1>2, <1>3 DEF h, t

\* What is put in the last of two queues is put in both together.
LEMMA AppendConcat ==
  ASSUME NEW S, NEW p \in Seq(S), NEW q \in Seq(S), NEW x \in S
  PROVE  p \o Append(q, x) = Append(p \o q, x)
<1> DEFINE u == <<x>>
<1>1. u \in Seq(S)
  BY ToSetSingleton
<1>2. Append(q, x) = q \o u /\ Append(p \o q, x) = (p \o q) \o u
  BY AppendIsConcat, ConcatProperties
<1> HIDE DEF u
<1>3. (p \o q) \o u = p \o (q \o u)
  BY SMTT(60), <1>1, ConcatAssociative
<1> QED
  BY <1>2, <1>3

-----------------------------------------------------------------------------
(* No duplicates.                                                          *)

\* A queue without duplicates, read by its positions.
LEMMA InjectiveQueue ==
  ASSUME NEW S, NEW q \in Seq(S)
  PROVE  IsInjective(q) <=> \A i, j \in 1..Len(q) : q[i] = q[j] => i = j
BY LenProperties DEF IsInjective

\* A new element makes no duplicate.
LEMMA InjectiveAppend ==
  ASSUME NEW S, NEW q \in Seq(S), NEW x \in S, IsInjective(q), x \notin ToSet(q)
  PROVE  IsInjective(Append(q, x))
<1>1. /\ Append(q, x) \in Seq(S)
      /\ Len(Append(q, x)) = Len(q) + 1
      /\ \A i \in 1..Len(q) : Append(q, x)[i] = q[i]
      /\ Append(q, x)[Len(q) + 1] = x
  BY AppendProperties
<1>2. Len(q) \in Nat /\ \A i \in 1..Len(q) : q[i] # x
  BY ToSetType, LenProperties
<1>3. \A i, j \in 1..Len(q) : q[i] = q[j] => i = j
  BY InjectiveQueue
<1>4. \A i, j \in 1..(Len(q) + 1) : Append(q, x)[i] = Append(q, x)[j] => i = j
  BY <1>1, <1>2, <1>3
<1> QED
  BY <1>1, <1>4, InjectiveQueue

\* The head of a queue without duplicates is not in its tail, which has none either.
LEMMA InjectiveTail ==
  ASSUME NEW S, NEW q \in Seq(S), q # <<>>, IsInjective(q)
  PROVE  IsInjective(Tail(q)) /\ Head(q) \notin ToSet(Tail(q))
<1>1. /\ Tail(q) \in Seq(S)
      /\ Len(q) \in Nat \ {0}
      /\ Len(Tail(q)) = Len(q) - 1
      /\ \A i \in 1..Len(Tail(q)) : Tail(q)[i] = q[i + 1]
      /\ Head(q) = q[1]
  BY HeadTailProperties, ToSetNonEmpty
<1>2. \A i, j \in 1..Len(q) : q[i] = q[j] => i = j
  BY InjectiveQueue
<1>3. \A i, j \in 1..Len(Tail(q)) : Tail(q)[i] = Tail(q)[j] => i = j
  BY <1>1, <1>2
<1>4. \A i \in 1..Len(Tail(q)) : Tail(q)[i] # q[1]
  BY <1>1, <1>2
<1>5. IsInjective(Tail(q))
  BY <1>1, <1>3, InjectiveQueue
<1>6. ToSet(Tail(q)) = {Tail(q)[i] : i \in 1..Len(Tail(q))}
  BY <1>1, ToSetType
<1> QED
  BY <1>1, <1>4, <1>5, <1>6

\* An enumeration of a finite set is a queue of all its elements, without duplicates.
LEMMA Enumeration ==
  ASSUME NEW S, IsFiniteSet(S), NEW q \in SetToSeqs(S)
  PROVE  q \in Seq(S) /\ IsInjective(q) /\ ToSet(q) = S
<1> DEFINE D == 1..Cardinality(S)
<1>1. Cardinality(S) \in Nat
  BY FS_CardinalityType
<1>2. q \in [D -> S] /\ \A i, j \in D : i # j => q[i] # q[j]
  BY DEF SetToSeqs
<1>3. q \in Seq(S)
  BY <1>1, <1>2
<1>4. IsInjective(q)
  BY <1>2 DEF IsInjective
<1>5. IsFiniteSet(D) /\ Cardinality(D) = Cardinality(S)
  BY <1>1, FS_Interval
<1>6. q \in Injection(D, S)
  BY <1>2, <1>4 DEF Injection
<1>7. q \in Surjection(D, S)
  BY <1>5, <1>6, FS_Injection
<1>8. ToSet(q) = S
  BY <1>2, <1>7 DEF ToSet, Surjection
<1> QED
  BY <1>3, <1>4, <1>8

-----------------------------------------------------------------------------
(* Recursion over the natural numbers.                                     *)

\* A set of natural numbers has a least one.
LEMMA LeastOne ==
  ASSUME NEW T, T \subseteq Nat, T # {}
  PROVE  \E m \in T : \A n \in T : m <= n
<1> DEFINE R == OpToRel(<, Nat)
<1>1. PICK m \in T : \A n \in T : ~(<<n, m>> \in R)
  <2>1. IsWellFoundedOn(R, Nat)
    BY NatLessThanWellFounded
  <2> HIDE DEF R
  <2> QED
    BY <2>1, WFMin
<1>2. \A n \in T : m <= n
  <2> SUFFICES ASSUME NEW n \in T
               PROVE  m <= n
    OBVIOUS
  <2>1. m \in Nat /\ n \in Nat
    OBVIOUS
  <2>2. n < m => <<n, m>> \in R
    BY <2>1 DEF OpToRel
  <2> HIDE DEF R
  <2> QED
    BY <1>1, <2>1, <2>2
<1> QED
  BY <1>2

\* The least of a set of natural numbers.
LEMMA MinIsLeast ==
  ASSUME NEW T, T \subseteq Nat, T # {}
  PROVE  Min(T) \in T /\ \A n \in T : Min(T) <= n
BY LeastOne DEF Min

\* The greatest of a set of natural numbers that has a bound.
LEMMA MaxIsGreatest ==
  ASSUME NEW T, T \subseteq Nat, T # {}, NEW b \in Nat, \A n \in T : n <= b
  PROVE  Max(T) \in T /\ \A n \in T : n <= Max(T)
<1> DEFINE U == {b - n : n \in T}
<1>1. U \subseteq Nat /\ U # {}
  <2>1. \A n \in T : b - n \in Nat
    OBVIOUS
  <2>2. PICK n \in T : TRUE
    OBVIOUS
  <2>3. b - n \in U
    OBVIOUS
  <2> QED
    BY <2>1, <2>3
<1>2. PICK u \in U : \A v \in U : u <= v
  BY <1>1, LeastOne
<1>3. PICK m \in T : u = b - m
  OBVIOUS
<1>4. \A n \in T : m >= n
  <2> TAKE n \in T
  <2>1. b - n \in U /\ u <= b - n
    BY <1>2
  <2> QED
    BY <1>3, <2>1
<1>5. Max(T) \in T /\ \A n \in T : Max(T) >= n
  BY <1>3, <1>4 DEF Max
<1>6. Max(T) \in Nat
  BY <1>5
<1> QED
  BY <1>5, <1>6

\* Induction, for the numbers up to N and the set of those that have a property.
LEMMA UpTo ==
  ASSUME NEW N \in Nat, NEW G, 0 \in G, \A n \in 1..N : n - 1 \in G => n \in G
  PROVE  \A n \in 0..N : n \in G
<1> DEFINE Bad == {n \in 0..N : n \notin G}
<1>1. SUFFICES ASSUME Bad # {}
               PROVE  FALSE
  OBVIOUS
<1>2. Bad \subseteq Nat
  OBVIOUS
<1>3. PICK m \in Bad : \A n \in Bad : m <= n
  <2> HIDE DEF Bad
  <2> QED
    BY <1>1, <1>2, LeastOne
<1>4. m \in 1..N /\ m - 1 \in 0..N /\ ~(m <= m - 1)
  BY <1>2
<1>5. m - 1 \in G
  BY <1>3, <1>4
<1> QED
  BY <1>4, <1>5

\* A union up to k is that up to k - 1 and one more set.
LEMMA UnionUpTo ==
  ASSUME NEW F, NEW k \in Nat \ {0}
  PROVE  UNION {F[i] : i \in 1..k} = (UNION {F[i] : i \in 1..k-1}) \cup F[k]
<1>1. 1..k = (1..k-1) \cup {k}
  OBVIOUS
<1> QED
  BY <1>1, Zenon

\* f has a value in X for each number up to N, each computed from the one before it.
Computes(f, X, N, base, step) ==
    /\ f \in [0..N -> X]
    /\ f[0] = base
    /\ \A n \in 1..N : f[n] = step[<<f[n-1], n>>]

\* There is such a function.
LEMMA Recursion ==
  ASSUME NEW X, NEW N \in Nat, NEW base \in X, NEW step \in [X \X (1..N) -> X]
  PROVE  \E f : Computes(f, X, N, base, step)
<1> DEFINE G == {m \in 0..N : \E f \in [0..m -> X] :
                    f[0] = base /\ \A n \in 1..m : f[n] = step[<<f[n-1], n>>]}
<1>1. 0 \in G
  <2> DEFINE f == [n \in 0..0 |-> base]
  <2>1. f \in [0..0 -> X] /\ f[0] = base /\ \A n \in 1..0 : f[n] = step[<<f[n-1], n>>]
    OBVIOUS
  <2> HIDE DEF f
  <2> QED
    BY <2>1
<1>2. ASSUME NEW m \in 1..N, m - 1 \in G
      PROVE  m \in G
  <2>1. PICK g \in [0..(m-1) -> X] :
                g[0] = base /\ \A n \in 1..(m-1) : g[n] = step[<<g[n-1], n>>]
    BY <1>2
  <2> DEFINE f == [n \in 0..m |-> IF n < m THEN g[n] ELSE step[<<g[m-1], m>>]]
  <2>2. m - 1 \in 0..(m-1) /\ m \in 0..m /\ 0 \in 0..m /\ 0 < m /\ m \in 0..N
    OBVIOUS
  <2>3. f \in [0..m -> X] /\ f[0] = base
    BY <2>1, <2>2
  <2>4. \A n \in 0..(m-1) : f[n] = g[n]
    OBVIOUS
  <2>5. f[m] = step[<<g[m-1], m>>]
    BY <2>2
  <2> HIDE DEF f
  <2>6. ASSUME NEW n \in 1..m
        PROVE  f[n] = step[<<f[n-1], n>>]
    <3>1. CASE n = m
      BY <2>2, <2>4, <2>5, <3>1
    <3>2. CASE n # m
      <4>1. n \in 1..(m-1) /\ n \in 0..(m-1) /\ n - 1 \in 0..(m-1)
        BY <3>2
      <4> QED
        BY <2>1, <2>4, <4>1
    <3> QED
      BY <3>1, <3>2
  <2> QED
    BY <2>2, <2>3, <2>6
<1>3. N \in G
  <2> HIDE DEF G
  <2> QED
    BY <1>1, <1>2, UpTo
<1> QED
  BY <1>3 DEF Computes

-----------------------------------------------------------------------------
(* Sequences of sequences, one behind the other.                           *)

\* FlattenSeq, part by part: what it makes of the first n parts is what it makes of the
\* first n - 1, followed by the n-th.
LEMMA FlattenFunction ==
  ASSUME NEW S, NEW N \in Nat, NEW part \in [1..N -> Seq(S)]
  PROVE  \E f \in [0..N -> Seq(S)] :
             /\ f[0] = <<>>
             /\ \A n \in 1..N : f[n] = f[n-1] \o part[n]
             /\ FlattenSeq(part) = f[N]
<1> DEFINE step == [x \in Seq(S) \X (1..N) |-> x[1] \o part[x[2]]]
<1>1. step \in [Seq(S) \X (1..N) -> Seq(S)] /\ <<>> \in Seq(S)
  BY ConcatProperties
<1>2. \A x \in Seq(S), n \in 1..N : step[<<x, n>>] = x \o part[n]
  OBVIOUS
<1> HIDE DEF step
<1>3. PICK f \in [0..N -> Seq(S)] : f[0] = <<>> /\ \A n \in 1..N : f[n] = step[<<f[n-1], n>>]
  <2>1. \E f : Computes(f, Seq(S), N, <<>>, step)
    BY <1>1, Recursion, Zenon
  <2> QED
    BY <2>1 DEF Computes
<1>4. \A n \in 1..N : n - 1 \in 0..N /\ f[n-1] \in Seq(S) /\ f[n] = f[n-1] \o part[n]
  <2> SUFFICES ASSUME NEW n \in 1..N
               PROVE  n - 1 \in 0..N /\ f[n-1] \in Seq(S) /\ f[n] = f[n-1] \o part[n]
    OBVIOUS
  <2>1. n - 1 \in 0..N
    OBVIOUS
  <2>2. f[n-1] \in Seq(S)
    BY <1>3, <2>1, Zenon
  <2>3. f[n] = step[<<f[n-1], n>>]
    BY <1>3, Zenon
  <2> QED
    BY <1>2, <2>1, <2>2, <2>3, Zenon
<1>5. Len(part) = N /\ part \in Seq(Seq(S))
  BY LenProperties
<1>6. CASE N = 0
  <2>1. part = <<>>
    BY <1>5, <1>6, EmptySeq
  <2>2. FlattenSeq(part) = part
    BY <1>5, <1>6 DEF FlattenSeq
  <2> QED
    BY <1>3, <1>4, <1>6, <2>1, <2>2
<1>7. CASE N # 0
  <2> DEFINE flatten[i \in 1..N] == IF i = 1 THEN part[i] ELSE flatten[i-1] \o part[i]
             h == [i \in 1..N |-> f[i]]
  <2>1. FlattenSeq(part) = flatten[N]
    BY <1>5, <1>7 DEF FlattenSeq
  <2>2. f[1] = part[1]
    <3>1. 1 \in 1..N /\ 1 - 1 = 0
      BY <1>7
    <3>2. f[1] = f[0] \o part[1] /\ part[1] \in Seq(S)
      BY <1>4, <3>1
    <3>3. f[1] = <<>> \o part[1]
      BY <1>3, <3>2, Zenon
    <3> QED
      BY <3>2, <3>3, ConcatEmptySeq
  <2>3. h = [i \in 1..N |-> IF i = 1 THEN part[i] ELSE h[i-1] \o part[i]]
    <3>1. ASSUME NEW i \in 1..N
          PROVE  f[i] = IF i = 1 THEN part[i] ELSE h[i-1] \o part[i]
      <4>1. CASE i = 1
        BY <2>2, <4>1
      <4>2. CASE i # 1
        <5>1. i - 1 \in 1..N
          BY <4>2
        <5>2. f[i] = f[i-1] \o part[i]
          BY <1>4, Zenon
        <5>3. h[i-1] = f[i-1]
          BY <5>1
        <5> QED
          BY <4>2, <5>2, <5>3, Zenon
      <4> QED
        BY <4>1, <4>2
    <3> QED
      BY <3>1, Zenon
  <2> HIDE DEF h
  <2>4. flatten = [i \in 1..N |-> IF i = 1 THEN part[i] ELSE flatten[i-1] \o part[i]]
    BY <2>3
  <2> HIDE DEF flatten
  <2> DEFINE G == {k \in 0..N : k = 0 \/ flatten[k] = f[k]}
  <2>5. 0 \in G
    OBVIOUS
  <2>6. ASSUME NEW k \in 1..N, k - 1 \in G
        PROVE  k \in G
    <3>1. CASE k = 1
      BY <2>2, <2>4, <3>1
    <3>2. CASE k # 1
      <4>1. k - 1 \in 1..N /\ flatten[k-1] = f[k-1]
        BY <2>6, <3>2
      <4>2. f[k] = f[k-1] \o part[k]
        BY <1>4, Zenon
      <4>3. flatten[k] = flatten[k-1] \o part[k]
        BY <2>4, <3>2, Zenon
      <4>4. flatten[k] = f[k]
        BY <4>1, <4>2, <4>3, Zenon
      <4> QED
        BY <4>4
    <3> QED
      BY <3>1, <3>2
  <2>7. N \in G
    <3> HIDE DEF G
    <3>1. \A k \in 1..N : k - 1 \in G => k \in G
      BY <2>6
    <3>2. \A k \in 0..N : k \in G
      BY <2>5, <3>1, UpTo, Zenon
    <3> QED
      BY <3>2
  <2>8. flatten[N] = f[N]
    BY <1>7, <2>7
  <2> QED
    BY <1>3, <1>4, <2>1, <2>8
<1> QED
  BY <1>6, <1>7

\* Of no parts it makes the empty sequence.
LEMMA FlattenNothing ==
  ASSUME NEW part, part \in [{} -> {}]
  PROVE  FlattenSeq(part) = <<>>
<1>1. part \in [1..0 -> Seq({})] /\ 0 \in Nat
  OBVIOUS
<1> QED
  BY <1>1, FlattenFunction

\* A prefix stays one when something is put behind the sequence.
LEMMA PrefixOfConcat ==
  ASSUME NEW S, NEW p \in Seq(S), NEW q \in Seq(S), NEW r \in Seq(S), IsPrefix(p, q)
  PROVE  IsPrefix(p, q \o r)
<1>1. /\ Len(p) \in Nat /\ Len(q) \in Nat /\ Len(r) \in Nat
      /\ q \o r \in Seq(S)
      /\ Len(q \o r) = Len(q) + Len(r)
      /\ \A i \in 1..Len(q) : (q \o r)[i] = q[i]
  BY LenProperties, ConcatProperties
<1>2. Len(p) <= Len(q) /\ SubSeq(p, 1, Len(p)) = SubSeq(q, 1, Len(p))
  BY DEF IsPrefix
<1>3. SubSeq(q \o r, 1, Len(p)) = SubSeq(q, 1, Len(p))
  BY <1>1, <1>2
<1> QED
  BY <1>1, <1>2, <1>3 DEF IsPrefix

\* What is made of the first m parts is a prefix of what is made of all of them, and
\* one part more is put behind.
LEMMA FlattenParts ==
  ASSUME NEW S, NEW N \in Nat, NEW part \in [1..N -> Seq(S)], NEW m \in 0..N
  PROVE  /\ FlattenSeq([i \in 1..m |-> part[i]]) \in Seq(S)
         /\ FlattenSeq(part) \in Seq(S)
         /\ IsPrefix(FlattenSeq([i \in 1..m |-> part[i]]), FlattenSeq(part))
         /\ m = N - 1 =>
               FlattenSeq(part) = FlattenSeq([i \in 1..m |-> part[i]]) \o part[N]
<1> DEFINE first == [i \in 1..m |-> part[i]]
<1>1. first \in [1..m -> Seq(S)] /\ m \in Nat /\ \A i \in 1..m : first[i] = part[i]
  OBVIOUS
<1> HIDE DEF first
<1>2. PICK f \in [0..N -> Seq(S)] :
          /\ f[0] = <<>>
          /\ \A n \in 1..N : f[n] = f[n-1] \o part[n]
          /\ FlattenSeq(part) = f[N]
  BY FlattenFunction
<1>3. PICK g \in [0..m -> Seq(S)] :
          /\ g[0] = <<>>
          /\ \A n \in 1..m : g[n] = g[n-1] \o first[n]
          /\ FlattenSeq(first) = g[m]
  BY <1>1, FlattenFunction
<1>4. f[m] = g[m]
  <2> DEFINE G == {k \in 0..m : f[k] = g[k]}
  <2>1. 0 \in G
    BY <1>2, <1>3
  <2>2. ASSUME NEW k \in 1..m, k - 1 \in G
        PROVE  k \in G
    <3>1. k \in 1..N /\ k - 1 \in 0..m /\ f[k-1] = g[k-1]
      BY <2>2
    <3>2. f[k] = f[k-1] \o part[k]
      BY <1>2, <3>1, Zenon
    <3>3. g[k] = g[k-1] \o first[k] /\ first[k] = part[k]
      BY <1>1, <1>3, Zenon
    <3>4. f[k] = g[k]
      BY <3>1, <3>2, <3>3, Zenon
    <3> QED
      BY <3>4
  <2> HIDE DEF G
  <2>3. \A k \in 1..m : k - 1 \in G => k \in G
    BY <2>2
  <2>4. \A k \in 0..m : k \in G
    BY <1>1, <2>1, <2>3, UpTo, Zenon
  <2> QED
    BY <2>4 DEF G
<1>5. IsPrefix(f[m], f[N])
  <2> DEFINE G == {k \in 0..N : m <= k => IsPrefix(f[m], f[k])}
  <2>1. ASSUME NEW p \in Seq(S)
        PROVE  IsPrefix(p, p)
    BY LenProperties, SubSeqProperties DEF IsPrefix
  <2>2. ASSUME NEW p \in Seq(S), NEW q \in Seq(S), NEW r \in Seq(S), IsPrefix(p, q)
        PROVE  IsPrefix(p, q \o r)
    BY <2>2, PrefixOfConcat
  <2>3. 0 \in G
    BY <2>1
  <2>4. ASSUME NEW k \in 1..N, k - 1 \in G
        PROVE  k \in G
    <3>1. CASE m = k
      BY <2>1, <3>1
    <3>2. CASE m < k
      <4>1. k - 1 \in 0..N /\ IsPrefix(f[m], f[k-1])
        BY <2>4, <3>2
      <4>2. f[m] \in Seq(S) /\ f[k-1] \in Seq(S) /\ part[k] \in Seq(S)
        BY <4>1
      <4>3. IsPrefix(f[m], f[k-1] \o part[k])
        BY <2>2, <4>1, <4>2
      <4>4. f[k] = f[k-1] \o part[k]
        BY <1>2, Zenon
      <4>5. IsPrefix(f[m], f[k])
        BY <4>3, <4>4, Zenon
      <4> QED
        BY <4>5
    <3>3. CASE k < m
      BY <3>3
    <3> QED
      BY <3>1, <3>2, <3>3
  <2> HIDE DEF G
  <2>5. \A k \in 1..N : k - 1 \in G => k \in G
    BY <2>4
  <2>6. \A k \in 0..N : k \in G
    BY <2>3, <2>5, UpTo, Zenon
  <2> QED
    BY <2>6 DEF G
<1>6. FlattenSeq(first) \in Seq(S) /\ FlattenSeq(part) \in Seq(S)
  BY <1>2, <1>3
<1>7. IsPrefix(FlattenSeq(first), FlattenSeq(part))
  BY <1>2, <1>3, <1>4, <1>5, Zenon
<1>8. m = N - 1 => FlattenSeq(part) = FlattenSeq(first) \o part[N]
  <2> SUFFICES ASSUME m = N - 1
               PROVE  FlattenSeq(part) = FlattenSeq(first) \o part[N]
    OBVIOUS
  <2>1. N \in 1..N
    OBVIOUS
  <2>2. f[N] = f[N-1] \o part[N]
    BY <1>2, <2>1, Zenon
  <2> QED
    BY <1>2, <1>3, <1>4, <2>2, Zenon
<1> QED
  BY <1>6, <1>7, <1>8, Zenon DEF first

-----------------------------------------------------------------------------
(* Places.                                                                 *)

\* The n-th number of a set stays the n-th when a number above all is added, which is
\* then the last.
LEMMA RankAdded ==
  ASSUME NEW S, IsFiniteSet(S), S \subseteq Nat, NEW x \in Nat, \A m \in S : m < x
  PROVE  /\ IsFiniteSet(S \cup {x})
         /\ Cardinality(S \cup {x}) = Cardinality(S) + 1
         /\ Rank(S \cup {x}, x) = Cardinality(S) + 1
         /\ \A n \in S : Rank(S \cup {x}, n) = Rank(S, n)
<1>1. x \notin S
  OBVIOUS
<1>2. IsFiniteSet(S \cup {x}) /\ Cardinality(S \cup {x}) = Cardinality(S) + 1
  BY <1>1, FS_AddElement
<1>3. {m \in S \cup {x} : m <= x} = S \cup {x}
  <2>1. \A m \in S : m <= x
    OBVIOUS
  <2>2. x <= x
    OBVIOUS
  <2> QED
    BY <2>1, <2>2
<1>4. \A n \in S : {m \in S \cup {x} : m <= n} = {m \in S : m <= n}
  OBVIOUS
<1> QED
  BY <1>2, <1>3, <1>4 DEF Rank

\* No number is beyond the last one.
LEMMA RankBound ==
  ASSUME NEW S, IsFiniteSet(S), S \subseteq Nat, NEW n \in S
  PROVE  /\ Rank(S, n) \in Nat /\ Cardinality(S) \in Nat
         /\ Rank(S, n) <= Cardinality(S)
         /\ Rank(S, n) = Cardinality(S) => \A m \in S : m <= n
<1> DEFINE T == {m \in S : m <= n}
<1>1. T \in SUBSET S
  OBVIOUS
<1> HIDE DEF T
<1>2. /\ IsFiniteSet(T)
      /\ Cardinality(T) <= Cardinality(S)
      /\ Cardinality(S) = Cardinality(T) => S = T
  BY <1>1, FS_Subset
<1>3. Cardinality(T) \in Nat /\ Cardinality(S) \in Nat
  BY <1>2, FS_CardinalityType
<1>4. S = T => \A m \in S : m <= n
  BY DEF T
<1>5. Rank(S, n) = Cardinality(T)
  BY DEF Rank, T
<1> QED
  BY <1>2, <1>3, <1>4, <1>5

\* The place of an element in a total order, given as the elements up to each: how many
\* these are.  The places of a finite set are the numbers up to its size, each of one
\* element.
LEMMA Placing ==
  ASSUME NEW S, IsFiniteSet(S), NEW upTo \in [S -> SUBSET S],
         \A n \in S : n \in upTo[n],
         \A m, n \in S : m \in upTo[n] \/ n \in upTo[m],
         \A m, n \in S : m \in upTo[n] /\ n \in upTo[m] => m = n,
         \A l, m, n \in S : l \in upTo[m] /\ m \in upTo[n] => l \in upTo[n]
  PROVE  /\ Cardinality(S) \in Nat
         /\ \A n \in S : Cardinality(upTo[n]) \in 1..Cardinality(S)
         /\ \A m, n \in S : Cardinality(upTo[m]) = Cardinality(upTo[n]) => m = n
         /\ \A m, n \in S : Cardinality(upTo[m]) <= Cardinality(upTo[n]) => m \in upTo[n]
         /\ \A k \in 1..Cardinality(S) : \E n \in S : Cardinality(upTo[n]) = k
<1> DEFINE place == [n \in S |-> Cardinality(upTo[n])]
<1>1. \A n \in S : /\ IsFiniteSet(upTo[n]) /\ Cardinality(upTo[n]) \in Nat
                   /\ Cardinality(upTo[n]) <= Cardinality(S)
                   /\ Cardinality(upTo[n]) # 0
  <2> TAKE n \in S
  <2>1. upTo[n] \in SUBSET S /\ n \in upTo[n]
    OBVIOUS
  <2> QED
    BY <2>1, FS_Subset, FS_CardinalityType, FS_EmptySet
<1>2. Cardinality(S) \in Nat
  BY FS_CardinalityType
<1>3. place \in [S -> 1..Cardinality(S)]
  BY <1>1, <1>2
<1>4. \A m, n \in S : m # n /\ m \in upTo[n] => place[m] < place[n]
  <2> SUFFICES ASSUME NEW m \in S, NEW n \in S, m # n, m \in upTo[n]
               PROVE  Cardinality(upTo[m]) < Cardinality(upTo[n])
    OBVIOUS
  <2>1. upTo[m] \in SUBSET upTo[n] /\ n \in upTo[n] /\ n \notin upTo[m]
    OBVIOUS
  <2>2. /\ Cardinality(upTo[m]) <= Cardinality(upTo[n])
        /\ Cardinality(upTo[m]) # Cardinality(upTo[n])
    BY <1>1, <2>1, FS_Subset
  <2> QED
    BY <1>1, <2>2
<1>5. \A m, n \in S : place[m] = place[n] => m = n
  <2> SUFFICES ASSUME NEW m \in S, NEW n \in S, place[m] = place[n], m # n
               PROVE  FALSE
    OBVIOUS
  <2>1. place[m] \in Nat
    BY <1>3
  <2>2. place[m] < place[n] \/ place[n] < place[m]
    BY <1>4
  <2> QED
    BY <2>1, <2>2
<1>6. \A m, n \in S : place[m] <= place[n] => m \in upTo[n]
  <2> SUFFICES ASSUME NEW m \in S, NEW n \in S, place[m] <= place[n], m \notin upTo[n]
               PROVE  FALSE
    OBVIOUS
  <2>1. n \in upTo[m] /\ m # n
    OBVIOUS
  <2>2. place[n] < place[m] /\ place[n] \in Nat /\ place[m] \in Nat
    BY <1>3, <1>4, <2>1
  <2> QED
    BY <2>2
<1>7. place \in Injection(S, 1..Cardinality(S))
  BY <1>3, <1>5 DEF Injection, IsInjective
<1>8. IsFiniteSet(1..Cardinality(S)) /\ Cardinality(1..Cardinality(S)) = Cardinality(S)
  BY <1>2, FS_Interval
<1>9. place \in Surjection(S, 1..Cardinality(S))
  BY <1>7, <1>8, FS_Injection
<1>10. \A n \in S : place[n] = Cardinality(upTo[n])
  OBVIOUS
<1> HIDE DEF place
<1> QED
  BY <1>2, <1>3, <1>5, <1>6, <1>9, <1>10 DEF Surjection

\* The numbers of a set in their order are all its numbers, each at its rank.
LEMMA InOrderRanks ==
  ASSUME NEW S, IsFiniteSet(S), S \subseteq Nat
  PROVE  /\ Cardinality(S) \in Nat
         /\ InOrder(S) \in [1..Cardinality(S) -> S]
         /\ \A n \in S : Rank(S, n) \in 1..Cardinality(S) /\ InOrder(S)[Rank(S, n)] = n
         /\ \A k \in 1..Cardinality(S) : Rank(S, InOrder(S)[k]) = k
<1> DEFINE upTo == [n \in S |-> {m \in S : m <= n}]
<1>1. /\ Cardinality(S) \in Nat
      /\ \A n \in S : Cardinality(upTo[n]) \in 1..Cardinality(S)
      /\ \A m, n \in S : Cardinality(upTo[m]) = Cardinality(upTo[n]) => m = n
      /\ \A k \in 1..Cardinality(S) : \E n \in S : Cardinality(upTo[n]) = k
  <2>1. /\ upTo \in [S -> SUBSET S]
        /\ \A n \in S : n \in upTo[n]
        /\ \A m, n \in S : m \in upTo[n] \/ n \in upTo[m]
        /\ \A m, n \in S : m \in upTo[n] /\ n \in upTo[m] => m = n
        /\ \A l, m, n \in S : l \in upTo[m] /\ m \in upTo[n] => l \in upTo[n]
    OBVIOUS
  <2> HIDE DEF upTo
  <2> QED
    BY <2>1, Placing
<1>2. \A n \in S : Rank(S, n) = Cardinality(upTo[n])
  BY DEF Rank
<1> HIDE DEF upTo
<1>3. \A k \in 1..Cardinality(S) : InOrder(S)[k] \in S /\ Rank(S, InOrder(S)[k]) = k
  <2> TAKE k \in 1..Cardinality(S)
  <2>1. InOrder(S)[k] = CHOOSE m \in S : Rank(S, m) = k
    BY DEF InOrder
  <2>2. \E m \in S : Rank(S, m) = k
    BY <1>1, <1>2
  <2> QED
    BY <2>1, <2>2
<1>4. InOrder(S) \in [1..Cardinality(S) -> S]
  BY <1>3 DEF InOrder
<1>5. \A n \in S : Rank(S, n) \in 1..Cardinality(S) /\ InOrder(S)[Rank(S, n)] = n
  <2> TAKE n \in S
  <2>1. Rank(S, n) \in 1..Cardinality(S)
    BY <1>1, <1>2
  <2> DEFINE m == InOrder(S)[Rank(S, n)]
  <2>2. m \in S /\ Rank(S, m) = Rank(S, n)
    BY <1>3, <2>1
  <2>3. Cardinality(upTo[m]) = Cardinality(upTo[n])
    BY <1>2, <2>2
  <2> QED
    BY <1>1, <2>1, <2>2, <2>3
<1> QED
  BY <1>1, <1>3, <1>4, <1>5

\* What is selected of a sequence is what is at the places, each at the place's rank.
LEMMA SelectedRanks ==
  ASSUME NEW X, NEW seq \in Seq(X), NEW S, S \subseteq DOMAIN seq
  PROVE  /\ Selected(seq, S) \in Seq(X)
         /\ IsFiniteSet(S) /\ Cardinality(S) \in Nat
         /\ Len(Selected(seq, S)) = Cardinality(S)
         /\ \A n \in S : Rank(S, n) \in 1..Cardinality(S) /\ Selected(seq, S)[Rank(S, n)] = seq[n]
         /\ \A k \in 1..Cardinality(S) :
               \E n \in S : Rank(S, n) = k /\ Selected(seq, S)[k] = seq[n]
         /\ Range(Selected(seq, S)) = {seq[n] : n \in S}
<1>1. DOMAIN seq = 1..Len(seq) /\ Len(seq) \in Nat /\ \A n \in DOMAIN seq : seq[n] \in X
  BY LenProperties, ElementOfSeq
<1>2. IsFiniteSet(1..Len(seq)) /\ S \in SUBSET (1..Len(seq)) /\ S \subseteq Nat
  BY <1>1, FS_Interval
<1>3. IsFiniteSet(S)
  BY <1>2, FS_Subset
<1>4. /\ Cardinality(S) \in Nat
      /\ InOrder(S) \in [1..Cardinality(S) -> S]
      /\ \A n \in S : Rank(S, n) \in 1..Cardinality(S) /\ InOrder(S)[Rank(S, n)] = n
      /\ \A k \in 1..Cardinality(S) : Rank(S, InOrder(S)[k]) = k
  BY <1>2, <1>3, InOrderRanks
<1>5. Selected(seq, S) \in [1..Cardinality(S) -> X]
  BY <1>1, <1>4 DEF Selected
<1>6. \A k \in 1..Cardinality(S) : Selected(seq, S)[k] = seq[InOrder(S)[k]]
  BY DEF Selected
<1>7. Selected(seq, S) \in Seq(X) /\ Len(Selected(seq, S)) = Cardinality(S)
  BY <1>4, <1>5, SeqDef, LenProperties
<1>8. Range(Selected(seq, S)) = {seq[n] : n \in S}
  <2>1. Range(Selected(seq, S)) = {Selected(seq, S)[k] : k \in 1..Cardinality(S)}
    BY <1>5 DEF Range
  <2> QED
    BY <1>4, <1>6, <2>1
<1> QED
  BY <1>3, <1>4, <1>6, <1>7, <1>8

\* What is flattened has the elements of the parts.
LEMMA FlattenRange ==
  ASSUME NEW S, NEW N \in Nat, NEW part \in [1..N -> Seq(S)]
  PROVE  /\ FlattenSeq(part) \in Seq(S)
         /\ Range(FlattenSeq(part)) = UNION {Range(part[i]) : i \in 1..N}
<1>1. PICK f \in [0..N -> Seq(S)] :
             /\ f[0] = <<>>
             /\ \A n \in 1..N : f[n] = f[n-1] \o part[n]
             /\ FlattenSeq(part) = f[N]
  BY FlattenFunction
<1> DEFINE Of(n) == UNION {Range(part[i]) : i \in 1..n}
           G == {n \in 0..N : Range(f[n]) = Of(n)}
<1>2. 0 \in G
  BY <1>1 DEF Range
<1>3. ASSUME NEW n \in 1..N, n - 1 \in G
      PROVE  n \in G
  <2>0. n - 1 \in 0..N /\ n \in 0..N
    OBVIOUS
  <2>1. f[n-1] \in Seq(S) /\ part[n] \in Seq(S)
    BY <2>0
  <2>2. f[n] = f[n-1] \o part[n]
    BY <1>1, Zenon
  <2>3. Range(f[n]) = Range(f[n-1]) \cup Range(part[n])
    BY <2>1, <2>2, RangeConcatenation
  <2>4. 1..n = (1..n-1) \cup {n}
    OBVIOUS
  <2>5. Of(n) = Of(n-1) \cup Range(part[n])
    BY <2>4
  <2>6. Range(f[n-1]) = Of(n-1)
    BY <1>3
  <2> QED
    BY <2>0, <2>3, <2>5, <2>6
<1> HIDE DEF G
<1>4. \A n \in 0..N : n \in G
  BY <1>2, <1>3, UpTo, Zenon
<1>5. N \in G
  BY <1>4
<1> QED
  BY <1>1, <1>5 DEF G

\* Parts without a repetition, in each or between two, have none when they are flattened.
LEMMA FlattenInjective ==
  ASSUME NEW S, NEW N \in Nat, NEW part \in [1..N -> Seq(S)],
         \A i \in 1..N : IsInjective(part[i]),
         \A i, j \in 1..N : i # j => Range(part[i]) \cap Range(part[j]) = {}
  PROVE  IsInjective(FlattenSeq(part))
<1>1. PICK f \in [0..N -> Seq(S)] :
             /\ f[0] = <<>>
             /\ \A n \in 1..N : f[n] = f[n-1] \o part[n]
             /\ FlattenSeq(part) = f[N]
  BY ZenonT(60), FlattenFunction
<1> DEFINE Of(n) == UNION {Range(part[i]) : i \in 1..n}
           G == {n \in 0..N : Range(f[n]) = Of(n) /\ IsInjective(f[n])}
<1>2. 0 \in G
  BY <1>1 DEF Range, IsInjective
<1>3. ASSUME NEW n \in 1..N, n - 1 \in G
      PROVE  n \in G
  <2>0. n - 1 \in 0..N /\ n \in 0..N
    OBVIOUS
  <2>1. f[n-1] \in Seq(S) /\ part[n] \in Seq(S)
    BY <2>0
  <2>2. f[n] = f[n-1] \o part[n]
    BY <1>1, Zenon
  <2>10. Range(f[n]) = Range(f[n-1]) \cup Range(part[n])
    BY <2>1, <2>2, RangeConcatenation
  <2>3. 1..n = (1..n-1) \cup {n}
    OBVIOUS
  <2>4. Of(n) = Of(n-1) \cup Range(part[n])
    BY <2>3
  <2>5. Range(f[n-1]) = Of(n-1) /\ IsInjective(f[n-1]) /\ IsInjective(part[n])
    BY <1>3
  <2>6. Range(f[n-1]) \cap Range(part[n]) = {}
    <3>1. \A i \in 1..n-1 : i \in 1..N /\ i # n
      OBVIOUS
    <3> QED
      BY <2>5, <3>1
  <2> DEFINE p == f[n-1]
             q == part[n]
             m == Len(p)
  <2>7. /\ p \o q \in Seq(S) /\ m \in Nat /\ Len(q) \in Nat /\ Len(p \o q) = m + Len(q)
        /\ \A i \in 1..m : (p \o q)[i] = p[i] /\ i \in DOMAIN p
        /\ \A i \in m+1..m+Len(q) : (p \o q)[i] = q[i-m] /\ i-m \in DOMAIN q
        /\ DOMAIN (p \o q) = 1..m+Len(q)
    BY <2>1, LenProperties, ConcatProperties
  <2> HIDE DEF p, q, m
  <2>8. \A i, j \in 1..m+Len(q) : (p \o q)[i] = (p \o q)[j] => i = j
    <3> SUFFICES ASSUME NEW i \in 1..m+Len(q), NEW j \in 1..m+Len(q),
                        (p \o q)[i] = (p \o q)[j]
                 PROVE  i = j
      OBVIOUS
    <3>a. /\ \A k, l \in DOMAIN p : p[k] = p[l] => k = l
          /\ \A k, l \in DOMAIN q : q[k] = q[l] => k = l
      BY <2>5, Zenon DEF IsInjective, p, q
    <3>b. \A k \in DOMAIN p, l \in DOMAIN q : p[k] # q[l]
      BY <2>6, Zenon DEF Range, p, q
    <3>1. /\ \A k, l \in DOMAIN p : p[k] = p[l] => k = l
          /\ \A k, l \in DOMAIN q : q[k] = q[l] => k = l
          /\ \A k \in DOMAIN p, l \in DOMAIN q : p[k] # q[l]
      BY <3>a, <3>b
    <3>2. CASE i <= m /\ j <= m
      BY <2>7, <3>1, <3>2
    <3>3. CASE i <= m /\ j > m
      BY <2>7, <3>1, <3>3
    <3>4. CASE i > m /\ j <= m
      BY <2>7, <3>1, <3>4
    <3>5. CASE i > m /\ j > m
      <4>1. i \in m+1..m+Len(q) /\ j \in m+1..m+Len(q)
        BY <2>7, <3>5
      <4>2. i - m = j - m
        BY <2>7, <3>1, <4>1
      <4> QED
        BY <2>7, <4>2
    <3> QED
      BY <2>7, <3>2, <3>3, <3>4, <3>5
  <2>9. IsInjective(f[n])
    BY <2>2, <2>7, <2>8 DEF IsInjective, p, q
  <2> QED
    BY <2>0, <2>10, <2>4, <2>5, <2>9
<1> HIDE DEF G
<1>4. \A n \in 0..N : n \in G
  BY <1>2, <1>3, UpTo, Zenon
<1>5. N \in G
  BY <1>4
<1> QED
  BY <1>1, <1>5 DEF G

\* A sequence without duplicates has as many elements as its length.
LEMMA InjectiveRange ==
  ASSUME NEW X, NEW s \in Seq(X), IsInjective(s)
  PROVE  IsFiniteSet(Range(s)) /\ Cardinality(Range(s)) = Len(s)
<1>1. Len(s) \in Nat /\ DOMAIN s = 1..Len(s)
  BY LenProperties
<1>2. 1 \in Int /\ Len(s) \in Int
  BY <1>1
<1>3. /\ IsFiniteSet(1..Len(s))
      /\ Cardinality(1..Len(s)) = IF 1 > Len(s) THEN 0 ELSE Len(s) - 1 + 1
  BY <1>2, FS_Interval
<1>4. Cardinality(1..Len(s)) = Len(s)
  BY <1>1, <1>3
<1>5. s \in Bijection(1..Len(s), Range(s))
  <2>1. s \in [1..Len(s) -> Range(s)]
    BY <1>1 DEF Range
  <2> QED
    BY <1>1, <2>1 DEF Bijection, Injection, Surjection, IsInjective, Range
<1>6. ExistsBijection(1..Len(s), Range(s))
  BY <1>5, Zenon DEF ExistsBijection
<1> QED
  BY <1>3, <1>4, <1>6, FS_Bijection

-----------------------------------------------------------------------------
(* Brackets.                                                               *)

\* The numbers after i and up to j.
Between(S, i, j) == {m \in S : i < m /\ m <= j}

\* The last of the places after i is one of them or is not.
LEMMA BetweenStep ==
  ASSUME NEW S \in SUBSET Nat, NEW i \in Nat, NEW k \in Nat, i < k
  PROVE  /\ IsFiniteSet(Between(S, i, k)) /\ Cardinality(Between(S, i, k)) \in Nat
         /\ IsFiniteSet(Between(S, i, k-1)) /\ Cardinality(Between(S, i, k-1)) \in Nat
         /\ k \notin Between(S, i, k-1)
         /\ k \in S => Cardinality(Between(S, i, k)) = Cardinality(Between(S, i, k-1)) + 1
         /\ k \notin S => Between(S, i, k) = Between(S, i, k-1)
<1> DEFINE A == Between(S, i, k)
           Z == Between(S, i, k-1)
<1>1. IsFiniteSet(1..k)
  <2>1. 1 \in Int /\ k \in Int
    OBVIOUS
  <2> QED
    BY <2>1, FS_Interval
<1>2. A \in SUBSET (1..k) /\ Z \in SUBSET (1..k)
  <2>1. \A m \in S : i < m /\ (m <= k \/ m <= k - 1) => m \in 1..k
    OBVIOUS
  <2> QED
    BY <2>1 DEF Between
<1>3. k \notin Z /\ A = Z \cup (IF k \in S THEN {k} ELSE {})
  <2>1. \A m \in S : m <= k <=> m <= k - 1 \/ m = k
    OBVIOUS
  <2>2. ~(k <= k - 1)
    OBVIOUS
  <2>3. \A m : m \in A <=> m \in Z \/ (m = k /\ k \in S)
    BY <2>1 DEF Between
  <2>4. k \notin Z
    BY <2>2 DEF Between
  <2> HIDE DEF A, Z
  <2> QED
    BY <2>3, <2>4
<1> HIDE DEF A, Z
<1>4. IsFiniteSet(A) /\ IsFiniteSet(Z)
  BY <1>1, <1>2, FS_Subset
<1>5. Cardinality(A) \in Nat /\ Cardinality(Z) \in Nat
  BY <1>4, FS_CardinalityType
<1>6. Cardinality(Z \cup {k}) = Cardinality(Z) + 1
  BY <1>3, <1>4, FS_AddElement
<1>7. /\ k \in S => Cardinality(A) = Cardinality(Z) + 1
      /\ k \notin S => A = Z
  <2>1. CASE k \in S
    <3>1. A = Z \cup {k}
      BY <1>3, <2>1
    <3> QED
      BY <1>5, <1>6, <2>1, <3>1
  <2>2. CASE k \notin S
    <3>1. A = Z
      BY <1>3, <2>2
    <3> QED
      BY <1>5, <2>2, <3>1
  <2> QED
    BY <2>1, <2>2
<1> QED
  BY <1>3, <1>4, <1>5, <1>7 DEF A, Z

\* Whatever opens after i is closed before something from before is.
Holds(B, E, i, k) ==
    \A j \in i+1..k : Cardinality(Between(E, i, j)) <= Cardinality(Between(B, i, j-1))

\* Of the places in B that open something and those in E, where the last that is open
\* is closed: the places where what is open after k was opened.
Unclosed(B, E, k) == {i \in B : i <= k /\ Holds(B, E, i, k)}

\* As many are open as were opened and not closed.
Balanced(B, E, k) ==
    \A i \in 0..k : Holds(B, E, i, k) =>
        Cardinality(Between(B, i, k)) =
            Cardinality(Between(E, i, k)) + Cardinality(Between(Unclosed(B, E, k), i, k))

\* What is open after one place more: where something is closed, all but the last.
LEMMA UnclosedStep ==
  ASSUME NEW N \in Nat, NEW B, B \subseteq 1..N, NEW E, E \subseteq 1..N,
         NEW k \in 1..N, Balanced(B, E, k-1)
  PROVE  \A i : i \in Unclosed(B, E, k) <=>
             \/ /\ i \in Unclosed(B, E, k-1)
                /\ k \in E => \E j \in Unclosed(B, E, k-1) : j > i
             \/ i = k /\ k \in B
<1> DEFINE U == Unclosed(B, E, k-1)
<1>1. \A i \in U : i \in 1..N /\ i \in 0..k-1 /\ Holds(B, E, i, k-1) /\ i < k
  BY DEF Unclosed
<1>2. U \subseteq 1..N
  BY <1>1
<1>3. \A i \in 0..k-1 : Holds(B, E, i, k) <=>
         /\ Holds(B, E, i, k-1)
         /\ Cardinality(Between(E, i, k)) <= Cardinality(Between(B, i, k-1))
  <2> SUFFICES ASSUME NEW i \in 0..k-1
               PROVE  Holds(B, E, i, k) <=>
                         /\ Holds(B, E, i, k-1)
                         /\ Cardinality(Between(E, i, k)) <= Cardinality(Between(B, i, k-1))
    OBVIOUS
  <2>1. \A j : j \in i+1..k <=> j \in i+1..k-1 \/ j = k
    OBVIOUS
  <2> QED
    BY <2>1, Zenon DEF Holds
<1>4. ASSUME NEW i \in U
      PROVE  Holds(B, E, i, k) <=> (k \in E => \E j \in U : j > i)
  <2>1. i \in 0..k-1 /\ i \in Nat /\ i < k /\ Holds(B, E, i, k-1)
    BY <1>1
  <2>2. Cardinality(Between(B, i, k-1)) =
           Cardinality(Between(E, i, k-1)) + Cardinality(Between(U, i, k-1))
    BY <2>1 DEF Balanced
  <2>0. B \in SUBSET Nat /\ E \in SUBSET Nat /\ U \in SUBSET Nat /\ k \in Nat
    BY <1>2
  <2> HIDE DEF U
  <2>3. /\ Cardinality(Between(E, i, k-1)) \in Nat
        /\ k \in E => Cardinality(Between(E, i, k)) = Cardinality(Between(E, i, k-1)) + 1
        /\ k \notin E => Between(E, i, k) = Between(E, i, k-1)
    BY <2>0, <2>1, BetweenStep
  <2>4. IsFiniteSet(Between(U, i, k-1)) /\ Cardinality(Between(U, i, k-1)) \in Nat
    BY <1>2, <2>0, <2>1, BetweenStep, Zenon
  <2>5. Cardinality(Between(U, i, k-1)) = 0 <=> Between(U, i, k-1) = {}
    BY <2>4, FS_EmptySet
  <2>6. Between(U, i, k-1) = {} <=> ~\E j \in U : j > i
    <3>1. \A j \in U : j \in Int /\ j <= k - 1
      BY <1>1
    <3> QED
      BY <2>1, <3>1 DEF Between
  <2>7. Cardinality(Between(E, i, k)) <= Cardinality(Between(B, i, k-1)) <=>
           (k \in E => Cardinality(Between(U, i, k-1)) # 0)
    BY <2>2, <2>3, <2>4
  <2> QED
    BY <1>3, <2>1, <2>5, <2>6, <2>7
<1>5. Holds(B, E, k, k)
  BY DEF Holds
<1>6. \A i \in B : i \in Unclosed(B, E, k) <=> i = k \/ (i \in U /\ Holds(B, E, i, k))
  <2> SUFFICES ASSUME NEW i \in B
               PROVE  i \in Unclosed(B, E, k) <=> i = k \/ (i \in U /\ Holds(B, E, i, k))
    OBVIOUS
  <2>1. i \in 1..N
    OBVIOUS
  <2>2. CASE i < k
    <3>1. i \in 0..k-1 /\ i <= k - 1 /\ i <= k /\ i # k
      BY <2>1, <2>2
    <3> QED
      BY <1>3, <3>1, Zenon DEF Unclosed
  <2>3. CASE i = k
    BY <1>5, <2>3 DEF Unclosed
  <2>4. CASE i > k
    <3>1. ~(i <= k) /\ ~(i <= k-1) /\ i # k
      BY <2>1, <2>4
    <3> QED
      BY <3>1 DEF Unclosed
  <2> QED
    BY <2>1, <2>2, <2>3, <2>4
<1>7. U \subseteq B /\ Unclosed(B, E, k) \subseteq B
  BY DEF Unclosed
<1> HIDE DEF U
<1> QED
  <2> SUFFICES ASSUME NEW i
               PROVE  i \in Unclosed(B, E, k) <=>
                        \/ i \in U /\ (k \in E => \E j \in U : j > i)
                        \/ i = k /\ k \in B
    BY DEF U
  <2> QED
    BY <1>4, <1>6, <1>7

\* One place more keeps the balance.
LEMMA BalancedStep ==
  ASSUME NEW N \in Nat, NEW B, B \subseteq 1..N, NEW E, E \subseteq 1..N,
         NEW k \in 1..N, Balanced(B, E, k-1)
  PROVE  Balanced(B, E, k)
<1> DEFINE U == Unclosed(B, E, k-1)
           V == Unclosed(B, E, k)
<1>1. \A i \in U : i \in 1..N /\ i < k
  BY DEF Unclosed
<1>2. U \subseteq 1..N /\ V \subseteq 1..N
  BY DEF Unclosed
<1>3. \A i : i \in V <=> (i \in U /\ (k \in E => \E j \in U : j > i)) \/ (i = k /\ k \in B)
  BY UnclosedStep, Zenon
<1> SUFFICES ASSUME NEW i \in 0..k, Holds(B, E, i, k)
             PROVE  Cardinality(Between(B, i, k)) =
                      Cardinality(Between(E, i, k)) + Cardinality(Between(V, i, k))
  BY DEF Balanced
<1>4. CASE i = k
  <2>1. \A S : S \subseteq 1..N => Between(S, k, k) = {}
    <3>1. \A m \in 1..N : ~(k < m /\ m <= k)
      OBVIOUS
    <3> QED
      BY <3>1 DEF Between
  <2>2. Between(B, i, k) = {} /\ Between(E, i, k) = {} /\ Between(V, i, k) = {}
    BY <1>2, <1>4, <2>1
  <2> QED
    BY <2>2, FS_EmptySet
<1>5. CASE i # k
  <2>1. i \in Nat /\ i < k /\ i \in 0..k-1
    BY <1>5
  <2>2. Holds(B, E, i, k-1) /\ Cardinality(Between(E, i, k)) <= Cardinality(Between(B, i, k-1))
    <3>1. k \in i+1..k /\ \A j \in i+1..k-1 : j \in i+1..k
      BY <2>1
    <3> QED
      BY <3>1, Zenon DEF Holds
  <2>3. Cardinality(Between(B, i, k-1)) =
           Cardinality(Between(E, i, k-1)) + Cardinality(Between(U, i, k-1))
    BY <2>1, <2>2 DEF Balanced
  <2>0. /\ B \in SUBSET Nat /\ E \in SUBSET Nat /\ U \in SUBSET Nat /\ V \in SUBSET Nat
        /\ k \in Nat
    BY <1>2
  <2> HIDE DEF U, V
  <2>4. /\ Cardinality(Between(E, i, k-1)) \in Nat
        /\ k \in E => Cardinality(Between(E, i, k)) = Cardinality(Between(E, i, k-1)) + 1
        /\ k \notin E => Between(E, i, k) = Between(E, i, k-1)
    BY <2>0, <2>1, BetweenStep
  <2>5. /\ Cardinality(Between(B, i, k-1)) \in Nat
        /\ k \in B => Cardinality(Between(B, i, k)) = Cardinality(Between(B, i, k-1)) + 1
        /\ k \notin B => Between(B, i, k) = Between(B, i, k-1)
    BY <2>0, <2>1, BetweenStep
  <2>6. /\ IsFiniteSet(Between(V, i, k-1)) /\ Cardinality(Between(V, i, k-1)) \in Nat
        /\ k \in V => Cardinality(Between(V, i, k)) = Cardinality(Between(V, i, k-1)) + 1
        /\ k \notin V => Between(V, i, k) = Between(V, i, k-1)
    BY <1>2, <2>0, <2>1, BetweenStep
  <2>7. IsFiniteSet(Between(U, i, k-1)) /\ Cardinality(Between(U, i, k-1)) \in Nat
    BY <1>2, <2>0, <2>1, BetweenStep, Zenon
  <2>8. k \in V <=> k \in B
    BY <1>1, <1>3
  <2>9. CASE k \notin E
    <3>1. Between(V, i, k-1) = Between(U, i, k-1)
      BY <1>1, <1>3, <2>9 DEF Between
    <3> QED
      BY <2>3, <2>4, <2>5, <2>6, <2>7, <2>8, <2>9, <3>1
  <2>10. CASE k \in E
    <3>1. Cardinality(Between(U, i, k-1)) # 0
      BY <2>2, <2>3, <2>4, <2>5, <2>7, <2>10
    <3>2. Between(U, i, k-1) # {} /\ Between(U, i, k-1) \subseteq Nat
          /\ \A n \in Between(U, i, k-1) : n <= k
      BY <1>1, <2>7, <3>1, FS_EmptySet DEF Between
    <3>3. PICK m \in Between(U, i, k-1) : \A n \in Between(U, i, k-1) : n <= m
      BY <3>2, MaxIsGreatest
    <3>4. m \in U /\ m \in Nat /\ i < m
      BY <1>1, <3>3 DEF Between
    <3>5. \A n \in U : n \in Nat /\ n <= k - 1 /\ n <= m
      <4> SUFFICES ASSUME NEW n \in U
                   PROVE  n \in Nat /\ n <= k - 1 /\ n <= m
        OBVIOUS
      <4>1. n \in Nat /\ n <= k - 1
        BY <1>1
      <4>2. CASE n > i
        BY <3>3, <4>1, <4>2 DEF Between
      <4>3. CASE ~(n > i)
        BY <2>1, <3>4, <4>1, <4>3
      <4> QED
        BY <4>1, <4>2, <4>3
    <3>6. \A n \in U : (\E j \in U : j > n) <=> n # m
      BY <3>4, <3>5
    <3>7. \A n : n \in V /\ n # k <=> n \in U /\ n # m /\ n # k
      BY <1>3, <2>10, <3>6
    <3>8. Between(V, i, k-1) = Between(U, i, k-1) \ {m}
      <4>1. \A n \in Between(V, i, k-1) \cup Between(U, i, k-1) : n # k
        BY DEF Between
      <4> QED
        BY <3>7, <4>1 DEF Between
    <3>9. Cardinality(Between(V, i, k-1)) = Cardinality(Between(U, i, k-1)) - 1
      BY <2>7, <3>3, <3>8, FS_RemoveElement
    <3> QED
      BY <2>3, <2>4, <2>5, <2>6, <2>7, <2>8, <2>10, <3>9
  <2> QED
    BY <2>9, <2>10
<1> QED
  BY <1>4, <1>5

\* At every place as many are open as were opened and not closed.
LEMMA Brackets ==
  ASSUME NEW N \in Nat, NEW B, B \subseteq 1..N, NEW E, E \subseteq 1..N
  PROVE  \A k \in 0..N : Balanced(B, E, k)
<1> DEFINE G == {k \in 0..N : Balanced(B, E, k)}
<1>1. 0 \in G
  <2>1. \A S : S \subseteq 1..N => Between(S, 0, 0) = {}
    <3>1. \A m \in 1..N : ~(0 < m /\ m <= 0)
      OBVIOUS
    <3> QED
      BY <3>1 DEF Between
  <2>2. Unclosed(B, E, 0) \subseteq 1..N
    BY DEF Unclosed
  <2>3. Between(B, 0, 0) = {} /\ Between(E, 0, 0) = {} /\ Between(Unclosed(B, E, 0), 0, 0) = {}
    BY <2>1, <2>2
  <2>4. \A i \in 0..0 : i = 0
    OBVIOUS
  <2>5. Balanced(B, E, 0)
    BY <2>3, <2>4, FS_EmptySet DEF Balanced
  <2> QED
    BY <2>5
<1>2. ASSUME NEW k \in 1..N, k - 1 \in G
      PROVE  k \in G
  <2>1. Balanced(B, E, k-1)
    BY <1>2
  <2>2. Balanced(B, E, k)
    BY <2>1, BalancedStep
  <2> QED
    BY <2>2
<1> HIDE DEF G
<1>3. \A k \in 0..N : k \in G
  BY <1>1, <1>2, UpTo, Zenon
<1> QED
  BY <1>3 DEF G

-----------------------------------------------------------------------------
(* Counting what is flattened.                                             *)

\* The places of a value in a sequence.
PlacesOf(s, x) == {m \in DOMAIN s : s[m] = x}

\* Behind a sequence without x, or with it, there is x as often as in what is put there:
\* here at most once.
LEMMA ConcatPlaces ==
  ASSUME NEW S, NEW p \in Seq(S), NEW q \in Seq(S), NEW x,
         \A m, n \in PlacesOf(q, x) : m = n
  PROVE  /\ IsFiniteSet(PlacesOf(p, x)) /\ Cardinality(PlacesOf(p, x)) \in Nat
         /\ PlacesOf(q, x) = {} => Cardinality(PlacesOf(p \o q, x)) = Cardinality(PlacesOf(p, x))
         /\ PlacesOf(q, x) # {} => Cardinality(PlacesOf(p \o q, x)) = Cardinality(PlacesOf(p, x)) + 1
<1> DEFINE a == Len(p)
<1>1. /\ a \in Nat /\ Len(q) \in Nat /\ p \o q \in Seq(S)
      /\ DOMAIN p = 1..a /\ DOMAIN q = 1..Len(q) /\ DOMAIN (p \o q) = 1..a+Len(q)
      /\ \A m \in 1..a : (p \o q)[m] = p[m]
      /\ \A m \in a+1..a+Len(q) : (p \o q)[m] = q[m-a]
  BY LenProperties, ConcatProperties
<1> HIDE DEF a
<1>2. IsFiniteSet(PlacesOf(p, x)) /\ Cardinality(PlacesOf(p, x)) \in Nat
  <2>1. 1 \in Int /\ a \in Int
    BY <1>1
  <2>2. IsFiniteSet(1..a)
    BY <2>1, FS_Interval
  <2>3. PlacesOf(p, x) \in SUBSET (1..a)
    BY <1>1 DEF PlacesOf
  <2>4. IsFiniteSet(PlacesOf(p, x))
    BY <2>2, <2>3, FS_Subset
  <2> QED
    BY <2>4, FS_CardinalityType
<1>3. \A m : m \in PlacesOf(p \o q, x) <=>
               m \in PlacesOf(p, x) \/ (m \in a+1..a+Len(q) /\ m - a \in PlacesOf(q, x))
  <2> TAKE m
  <2>1. m \in 1..a+Len(q) <=> m \in 1..a \/ m \in a+1..a+Len(q)
    BY <1>1
  <2>2. m \in a+1..a+Len(q) => m - a \in 1..Len(q)
    BY <1>1
  <2>3. ~(m \in 1..a /\ m \in a+1..a+Len(q))
    BY <1>1
  <2> QED
    BY <1>1, <2>1, <2>2, <2>3 DEF PlacesOf
<1>4. ASSUME PlacesOf(q, x) = {}
      PROVE  PlacesOf(p \o q, x) = PlacesOf(p, x)
  BY <1>3, <1>4
<1>5. ASSUME PlacesOf(q, x) # {}
      PROVE  Cardinality(PlacesOf(p \o q, x)) = Cardinality(PlacesOf(p, x)) + 1
  <2>1. PICK n \in PlacesOf(q, x) : TRUE
    BY <1>5
  <2>2. n \in 1..Len(q) /\ \A m \in PlacesOf(q, x) : m = n
    BY <1>1, <2>1 DEF PlacesOf
  <2>3. \A m : m \in a+1..a+Len(q) /\ m - a \in PlacesOf(q, x) <=> m = a + n
    <3> TAKE m
    <3>1. CASE m \in a+1..a+Len(q)
      <4>1. m - a = n <=> m = a + n
        BY <1>1, <2>2, <3>1
      <4> QED
        BY <2>1, <2>2, <3>1, <4>1
    <3>2. CASE m \notin a+1..a+Len(q)
      <4>1. a + n \in a+1..a+Len(q)
        BY <1>1, <2>2
      <4> QED
        BY <3>2, <4>1
    <3> QED
      BY <3>1, <3>2
  <2>4. PlacesOf(p \o q, x) = PlacesOf(p, x) \cup {a + n}
    BY <1>3, <2>3
  <2>5. a + n \notin PlacesOf(p, x)
    <3>1. a + n \notin 1..a
      BY <1>1, <2>2
    <3> QED
      BY <1>1, <3>1 DEF PlacesOf
  <2> QED
    BY <1>2, <2>4, <2>5, FS_AddElement
<1> QED
  BY <1>2, <1>4, <1>5

\* The value is there at most once.
Once(s, x) == \A m, n \in PlacesOf(s, x) : m = n

\* It is, in two sequences together, if it is in each and not in both.
LEMMA OnceInConcat ==
  ASSUME NEW S, NEW p \in Seq(S), NEW q \in Seq(S), NEW x, Once(p, x), Once(q, x),
         x \notin Range(p) \/ x \notin Range(q)
  PROVE  /\ p \o q \in Seq(S)
         /\ Once(p \o q, x)
         /\ x \in Range(p \o q) <=> x \in Range(p) \/ x \in Range(q)
<1> DEFINE a == Len(p)
<1>1. /\ a \in Nat /\ Len(q) \in Nat /\ p \o q \in Seq(S)
      /\ DOMAIN p = 1..a /\ DOMAIN q = 1..Len(q) /\ DOMAIN (p \o q) = 1..a+Len(q)
      /\ \A m \in 1..a : (p \o q)[m] = p[m]
      /\ \A m \in a+1..a+Len(q) : (p \o q)[m] = q[m-a]
  BY LenProperties, ConcatProperties
<1> HIDE DEF a
<1>2. Range(p \o q) = Range(p) \cup Range(q)
  BY RangeConcatenation
<1>3. \A m \in PlacesOf(p \o q, x) :
          \/ m \in PlacesOf(p, x) /\ x \in Range(p)
          \/ m \in Nat /\ m - a \in PlacesOf(q, x) /\ x \in Range(q)
  <2> SUFFICES ASSUME NEW m \in PlacesOf(p \o q, x)
               PROVE  \/ m \in PlacesOf(p, x) /\ x \in Range(p)
                      \/ m \in Nat /\ m - a \in PlacesOf(q, x) /\ x \in Range(q)
    OBVIOUS
  <2>1. m \in 1..a+Len(q) /\ (p \o q)[m] = x
    BY <1>1 DEF PlacesOf
  <2>2. CASE m \in 1..a
    BY <1>1, <2>1, <2>2 DEF PlacesOf, Range
  <2>3. CASE m \notin 1..a
    <3>1. m \in a+1..a+Len(q) /\ m - a \in 1..Len(q)
      BY <1>1, <2>1, <2>3
    <3> QED
      BY <1>1, <2>1, <3>1 DEF PlacesOf, Range
  <2> QED
    BY <2>2, <2>3
<1>4. ASSUME NEW m \in PlacesOf(p \o q, x), NEW n \in PlacesOf(p \o q, x)
      PROVE  m = n
  <2>1. CASE x \notin Range(p)
    <3>1. m \in Nat /\ n \in Nat /\ m - a \in PlacesOf(q, x) /\ n - a \in PlacesOf(q, x)
      BY <1>3, <2>1
    <3>2. m - a = n - a
      BY <3>1 DEF Once
    <3> QED
      BY <1>1, <3>1, <3>2
  <2>2. CASE x \notin Range(q)
    BY <1>3, <2>2 DEF Once
  <2> QED
    BY <2>1, <2>2
<1> QED
  BY <1>1, <1>2, <1>4 DEF Once

\* A sequence of one element, or none.
LEMMA OnceOrNot ==
  ASSUME NEW S, NEW y \in S, NEW given \in BOOLEAN, NEW x
  PROVE  LET s == IF given THEN <<y>> ELSE <<>>
         IN  /\ s \in Seq(S)
             /\ Once(s, x)
             /\ x \in Range(s) <=> given /\ x = y
<1>1. CASE given
  <2>1. <<y>> \in Seq(S) /\ DOMAIN <<y>> = {1} /\ <<y>>[1] = y
    OBVIOUS
  <2> QED
    BY <1>1, <2>1 DEF Once, PlacesOf, Range
<1>2. CASE ~given
  <2>1. <<>> \in Seq(S) /\ DOMAIN <<>> = {}
    OBVIOUS
  <2> QED
    BY <1>2, <2>1 DEF Once, PlacesOf, Range
<1> QED
  BY <1>1, <1>2

\* The parts that have a value.
With(part, N, x) == {i \in 1..N : x \in Range(part[i])}

\* A value that each part has at most once is there as often as there are parts with it.
LEMMA FlattenCounts ==
  ASSUME NEW S, NEW N \in Nat, NEW part \in [1..N -> Seq(S)], NEW x,
         \A i \in 1..N : Once(part[i], x)
  PROVE  Cardinality(PlacesOf(FlattenSeq(part), x)) = Cardinality(With(part, N, x))
<1>1. PICK f \in [0..N -> Seq(S)] :
             /\ f[0] = <<>>
             /\ \A n \in 1..N : f[n] = f[n-1] \o part[n]
             /\ FlattenSeq(part) = f[N]
  BY FlattenFunction
<1> DEFINE Of(n) == {i \in 1..n : x \in Range(part[i])}
           G == {n \in 0..N : IsFiniteSet(Of(n)) /\ Cardinality(PlacesOf(f[n], x)) = Cardinality(Of(n))}
<1>2. 0 \in G
  <2>1. Of(0) = {} /\ PlacesOf(f[0], x) = {}
    BY <1>1 DEF PlacesOf
  <2>2. IsFiniteSet(Of(0)) /\ Cardinality(PlacesOf(f[0], x)) = Cardinality(Of(0))
    BY <2>1, FS_EmptySet, Zenon
  <2> QED
    BY <2>2
<1>3. ASSUME NEW n \in 1..N, n - 1 \in G
      PROVE  n \in G
  <2>0. n - 1 \in 0..N /\ n \in 0..N
    OBVIOUS
  <2>1. f[n-1] \in Seq(S) /\ part[n] \in Seq(S)
    BY <2>0
  <2>2. f[n] = f[n-1] \o part[n]
    BY <1>1, Zenon
  <2>3. /\ IsFiniteSet(PlacesOf(f[n-1], x)) /\ Cardinality(PlacesOf(f[n-1], x)) \in Nat
        /\ PlacesOf(part[n], x) = {} =>
              Cardinality(PlacesOf(f[n], x)) = Cardinality(PlacesOf(f[n-1], x))
        /\ PlacesOf(part[n], x) # {} =>
              Cardinality(PlacesOf(f[n], x)) = Cardinality(PlacesOf(f[n-1], x)) + 1
    <3>1. \A i, j \in PlacesOf(part[n], x) : i = j
      BY DEF Once
    <3> DEFINE p == f[n-1]
               q == part[n]
    <3>2. p \in Seq(S) /\ q \in Seq(S) /\ f[n] = p \o q /\ \A i, j \in PlacesOf(q, x) : i = j
      BY <2>1, <2>2, <3>1
    <3> HIDE DEF Of, G, p, q
    <3>3. /\ IsFiniteSet(PlacesOf(p, x)) /\ Cardinality(PlacesOf(p, x)) \in Nat
          /\ PlacesOf(q, x) = {} => Cardinality(PlacesOf(p \o q, x)) = Cardinality(PlacesOf(p, x))
          /\ PlacesOf(q, x) # {} => Cardinality(PlacesOf(p \o q, x)) = Cardinality(PlacesOf(p, x)) + 1
      BY <3>2, ConcatPlaces
    <3> QED
      BY <3>2, <3>3, Zenon DEF p, q
  <2>4. PlacesOf(part[n], x) # {} <=> x \in Range(part[n])
    BY DEF PlacesOf, Range
  <2>5. IsFiniteSet(Of(n-1)) /\ Cardinality(PlacesOf(f[n-1], x)) = Cardinality(Of(n-1))
    BY <1>3
  <2>6. n \notin Of(n-1) /\ \A i : i \in 1..n <=> i \in 1..n-1 \/ i = n
    OBVIOUS
  <2>7. CASE x \in Range(part[n])
    <3>1. Of(n) = Of(n-1) \cup {n}
      BY <2>6, <2>7
    <3> HIDE DEF Of
    <3>2. IsFiniteSet(Of(n-1)) /\ n \notin Of(n-1)
      BY <2>5, <2>6
    <3>3. /\ IsFiniteSet(Of(n-1) \cup {n})
          /\ Cardinality(Of(n-1) \cup {n}) = Cardinality(Of(n-1)) + 1
      BY <3>2, FS_AddElement
    <3>4. IsFiniteSet(Of(n)) /\ Cardinality(Of(n)) = Cardinality(Of(n-1)) + 1
      BY <3>1, <3>3, Zenon
    <3> QED
      BY <2>0, <2>3, <2>4, <2>5, <2>7, <3>4
  <2>8. CASE x \notin Range(part[n])
    <3>1. Of(n) = Of(n-1)
      BY <2>6, <2>8
    <3> HIDE DEF Of
    <3> QED
      BY <2>0, <2>3, <2>4, <2>5, <2>8, <3>1
  <2> QED
    BY <2>7, <2>8
<1> HIDE DEF G
<1>4. \A n \in 0..N : n \in G
  BY <1>2, <1>3, UpTo, Zenon
<1>5. N \in G
  BY <1>4
<1> QED
  BY <1>1, <1>5 DEF G, With

\* How many there are up to a place and after it.
LEMMA BetweenSum ==
  ASSUME NEW S \in SUBSET Nat, NEW i \in Nat, NEW j \in Nat, NEW k \in Nat, i <= j, j <= k
  PROVE  /\ Cardinality(Between(S, i, j)) \in Nat /\ Cardinality(Between(S, j, k)) \in Nat
         /\ Cardinality(Between(S, i, k)) =
               Cardinality(Between(S, i, j)) + Cardinality(Between(S, j, k))
<1>1. /\ Between(S, i, j) \in SUBSET (0..k) /\ Between(S, j, k) \in SUBSET (0..k)
  <2>1. \A m \in S : m <= j \/ m <= k => m \in 0..k
    OBVIOUS
  <2> QED
    BY <2>1 DEF Between
<1>2. IsFiniteSet(0..k)
  <2>1. 0 \in Int /\ k \in Int
    OBVIOUS
  <2> QED
    BY <2>1, FS_Interval
<1>3. IsFiniteSet(Between(S, i, j)) /\ IsFiniteSet(Between(S, j, k))
  BY <1>1, <1>2, FS_Subset
<1>4. Between(S, i, k) = Between(S, i, j) \cup Between(S, j, k)
      /\ Between(S, i, j) \cap Between(S, j, k) = {}
  <2>1. \A m \in S : /\ i < m /\ m <= k <=> (i < m /\ m <= j) \/ (j < m /\ m <= k)
                     /\ ~(m <= j /\ j < m)
    OBVIOUS
  <2> QED
    BY <2>1 DEF Between
<1>5. Cardinality(Between(S, i, j) \cap Between(S, j, k)) = 0
  BY <1>4, FS_EmptySet
<1>6. Cardinality(Between(S, i, j) \cup Between(S, j, k)) =
         Cardinality(Between(S, i, j)) + Cardinality(Between(S, j, k))
            - Cardinality(Between(S, i, j) \cap Between(S, j, k))
  BY <1>3, FS_Union
<1>7. Cardinality(Between(S, i, j)) \in Nat /\ Cardinality(Between(S, j, k)) \in Nat
  BY <1>3, FS_CardinalityType
<1> QED
  BY <1>4, <1>5, <1>6, <1>7

=============================================================================
