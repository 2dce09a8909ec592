-------------------------- MODULE ArchAnalysisProofs --------------------------
(***************************************************************************)
(* Theorems about the analysis of an architecture, for every directory,    *)
(* every rules file and every moment at which the deadline passes.         *)
(*                                                                         *)
(* The matching of patterns, the judging of edges and the extension of a   *)
(* list are recursive functions.  What such a function computes is proved  *)
(* in two steps: there is a function that satisfies the equation (lemma    *)
(* Recursion), hence the one that the definition chooses does, and what it *)
(* yields for n follows from what it yields for n - 1 (lemma UpTo).        *)
(***************************************************************************)
EXTENDS ArchAnalysis, SequenceLemmas

-----------------------------------------------------------------------------
(* Patterns.                                                               *)

\* Where the p-th part of a pattern and those behind it may start in the path.
Starts(pattern, path, p) ==
    {s \in 1..Len(path)+1 :
        \E cut \in [p..Len(pattern)+1 -> 0..Len(path)] :
            /\ cut[p] = s - 1 /\ cut[Len(pattern)+1] = Len(path)
            /\ \A q \in p..Len(pattern) :
                  IF pattern[q] = Stars THEN cut[q] <= cut[q+1]
                  ELSE cut[q+1] = cut[q] + 1 /\ SegmentMatches(pattern[q], path[cut[q+1]])}

\* Behind the last part of the pattern the path must be over.
LEMMA StartsEnd ==
  ASSUME NEW S, NEW pattern \in Seq(S), NEW path \in Seq(S)
  PROVE  Starts(pattern, path, Len(pattern)+1) = {Len(path)+1}
<1> DEFINE n == Len(pattern)
           m == Len(path)
           cut == [q \in n+1..n+1 |-> m]
<1>1. n \in Nat /\ m \in Nat
  BY LenProperties
<1> HIDE DEF n, m
<1>2. cut \in [n+1..n+1 -> 0..m] /\ cut[n+1] = m
  BY <1>1
<1>3. n+1..n = {}
  BY <1>1
<1> HIDE DEF cut
<1>4. ASSUME NEW s \in Starts(pattern, path, n+1)
      PROVE  s = m + 1
  BY <1>1, <1>4 DEF Starts, n, m
<1>5. m + 1 \in Starts(pattern, path, n+1)
  BY <1>1, <1>2, <1>3 DEF Starts, n, m
<1> QED
  BY <1>4, <1>5 DEF n, m

\* The starts of a part of the pattern, from those of the next part.
LEMMA StartsStep ==
  ASSUME NEW S, NEW pattern \in Seq(S), NEW path \in Seq(S), NEW p \in 1..Len(pattern)
  PROVE  Starts(pattern, path, p) =
           IF pattern[p] = Stars
           THEN {s \in 1..Len(path)+1 :
                    \E t \in s..Len(path)+1 : t \in Starts(pattern, path, p+1)}
           ELSE {s \in 1..Len(path)+1 :
                    /\ s < Len(path)+1 /\ SegmentMatches(pattern[p], path[s])
                    /\ s+1 \in Starts(pattern, path, p+1)}
<1> DEFINE n == Len(pattern)
           m == Len(path)
           Fits(c, q) == IF pattern[q] = Stars THEN c[q] <= c[q+1]
                         ELSE c[q+1] = c[q] + 1 /\ SegmentMatches(pattern[q], path[c[q+1]])
           Slices(c, q, s) == /\ c \in [q..n+1 -> 0..m]
                           /\ c[q] = s - 1 /\ c[n+1] = m
                           /\ \A r \in q..n : Fits(c, r)
           To(s, t) == IF pattern[p] = Stars THEN s <= t
                       ELSE t = s + 1 /\ s < m + 1 /\ SegmentMatches(pattern[p], path[s])
<1>1. n \in Nat /\ m \in Nat /\ p \in 1..n
  BY LenProperties
<1>2. \A q, s : s \in Starts(pattern, path, q) <=> s \in 1..m+1 /\ \E c : Slices(c, q, s)
  BY DEF Starts
<1> HIDE DEF n, m
<1>3. ASSUME NEW s \in 1..m+1, NEW c, Slices(c, p, s)
      PROVE  \E t \in 1..m+1 : To(s, t) /\ t \in Starts(pattern, path, p+1)
  <2> DEFINE t == c[p+1] + 1
             d == [q \in p+1..n+1 |-> c[q]]
  <2>1. p \in p..n+1 /\ p + 1 \in p..n+1 /\ n + 1 \in p+1..n+1 /\ p + 1 \in p+1..n+1 /\ p \in p..n
    BY <1>1
  <2>2. c \in [p..n+1 -> 0..m] /\ c[p] = s - 1 /\ c[n+1] = m /\ \A r \in p..n : Fits(c, r)
    BY <1>3
  <2>3. t \in 1..m+1 /\ c[p+1] = t - 1 /\ t - 1 \in 0..m
    BY <1>1, <2>1, <2>2
  <2>4. \A q \in p+1..n+1 : q \in p..n+1 /\ d[q] = c[q]
    BY <1>1
  <2>5. d \in [p+1..n+1 -> 0..m]
    BY <2>2, <2>4
  <2>6. d[p+1] = t - 1 /\ d[n+1] = m
    BY <2>1, <2>2, <2>3, <2>4
  <2>7. ASSUME NEW r \in p+1..n
        PROVE  Fits(d, r)
    <3>1. r \in p..n /\ r \in p+1..n+1 /\ r + 1 \in p+1..n+1
      BY <1>1
    <3>2. Fits(c, r) /\ d[r] = c[r] /\ d[r+1] = c[r+1]
      BY <2>2, <2>4, <3>1
    <3> QED
      BY <3>2
  <2>8. To(s, t)
    <3>1. Fits(c, p)
      BY <2>1, <2>2
    <3>2. CASE pattern[p] = Stars
      BY <1>1, <2>2, <2>3, <3>1, <3>2
    <3>3. CASE pattern[p] # Stars
      <4>1. c[p+1] = c[p] + 1 /\ SegmentMatches(pattern[p], path[c[p+1]])
        BY <3>1, <3>3
      <4>2. c[p+1] = s /\ t = s + 1
        BY <1>1, <2>2, <4>1
      <4>3. s < m + 1
        BY <1>1, <2>3, <4>2
      <4>4. SegmentMatches(pattern[p], path[s])
        BY <4>1, <4>2
      <4> QED
        BY <3>3, <4>2, <4>3, <4>4
    <3> QED
      BY <3>2, <3>3
  <2> HIDE DEF t, d
  <2>9. Slices(d, p+1, t)
    BY <2>5, <2>6, <2>7
  <2>10. t \in Starts(pattern, path, p+1)
    BY <1>2, <2>3, <2>9
  <2> QED
    BY <2>3, <2>8, <2>10
<1>4. ASSUME NEW s \in 1..m+1, NEW t \in 1..m+1, To(s, t), NEW c, Slices(c, p+1, t)
      PROVE  s \in Starts(pattern, path, p)
  <2> DEFINE d == [q \in p..n+1 |-> IF q = p THEN s - 1 ELSE c[q]]
  <2>1. c \in [p+1..n+1 -> 0..m] /\ c[p+1] = t - 1 /\ c[n+1] = m /\ \A r \in p+1..n : Fits(c, r)
    BY <1>4
  <2>2. s - 1 \in 0..m
    BY <1>1
  <2>3. \A q \in p..n+1 : q # p => q \in p+1..n+1
    BY <1>1
  <2>4. d \in [p..n+1 -> 0..m]
    BY <2>1, <2>2, <2>3
  <2>5. \A q \in p+1..n+1 : d[q] = c[q]
    BY <1>1
  <2>6. n + 1 \in p+1..n+1 /\ p + 1 \in p+1..n+1 /\ p \in p..n+1
    BY <1>1
  <2>7. d[p] = s - 1 /\ d[p+1] = t - 1 /\ d[n+1] = m
    BY <2>1, <2>5, <2>6
  <2> HIDE DEF d
  <2>8. Fits(d, p)
    <3>1. CASE pattern[p] = Stars
      BY <1>1, <1>4, <2>7, <3>1
    <3>2. CASE pattern[p] # Stars
      <4>1. t = s + 1 /\ s < m + 1 /\ SegmentMatches(pattern[p], path[s])
        BY <1>4, <3>2
      <4>2. d[p+1] = d[p] + 1 /\ d[p+1] = s
        BY <1>1, <2>7, <4>1
      <4> QED
        BY <3>2, <4>1, <4>2
    <3> QED
      BY <3>1, <3>2
  <2>9. ASSUME NEW r \in p..n
        PROVE  Fits(d, r)
    <3>1. CASE r = p
      BY <2>8, <3>1
    <3>2. CASE r # p
      <4>1. r \in p+1..n /\ r \in p+1..n+1 /\ r + 1 \in p+1..n+1
        BY <1>1, <3>2
      <4>2. Fits(c, r) /\ d[r] = c[r] /\ d[r+1] = c[r+1]
        BY <2>1, <2>5, <4>1
      <4> QED
        BY <4>2
    <3> QED
      BY <3>1, <3>2
  <2>10. Slices(d, p, s)
    BY <2>4, <2>7, <2>9
  <2> QED
    BY <1>2, <2>10
<1> HIDE DEF Slices
<1>5. \A s : s \in Starts(pattern, path, p) <=>
          s \in 1..m+1 /\ \E t \in 1..m+1 : To(s, t) /\ t \in Starts(pattern, path, p+1)
  BY <1>2, <1>3, <1>4
<1>6. Starts(pattern, path, p+1) \subseteq 1..m+1
  BY <1>2
<1> DEFINE G == Starts(pattern, path, p+1)
<1> HIDE DEF G
<1>7. CASE pattern[p] = Stars
  <2>1. \A s : s \in Starts(pattern, path, p) <=> s \in 1..m+1 /\ \E t \in s..m+1 : t \in G
    BY <1>1, <1>5, <1>6, <1>7 DEF G
  <2> QED
    BY <1>7, <2>1 DEF G, m
<1>8. CASE pattern[p] # Stars
  <2>1. \A s : s \in Starts(pattern, path, p) <=>
            s \in 1..m+1 /\ s < m + 1 /\ SegmentMatches(pattern[p], path[s]) /\ s+1 \in G
    BY <1>1, <1>5, <1>6, <1>8 DEF G
  <2> QED
    BY <1>8, <2>1 DEF G, m
<1> QED
  BY <1>7, <1>8

\* Matching finds where a pattern may start, from its last part to its first.
LEMMA MatchesStarts ==
  ASSUME NEW S, NEW pattern \in Seq(S), NEW path \in Seq(S)
  PROVE  Matches(pattern, path) <=> 1 \in Starts(pattern, path, 1)
<1> DEFINE n == Len(pattern)
           end == Len(path) + 1
           At(p, next) ==
               IF pattern[p] = Stars
               THEN {s \in 1..end : p = n \/ \E t \in s..end : t \in next}
               ELSE {s \in 1..end : s < end /\ SegmentMatches(pattern[p], path[s]) /\ s+1 \in next}
           from[p \in 1..n+1] ==
               IF p > n THEN {end}
               ELSE IF pattern[p] = Stars
               THEN {s \in 1..end : p = n \/ \E t \in s..end : t \in from[p+1]}
               ELSE {s \in 1..end :
                        s < end /\ SegmentMatches(pattern[p], path[s]) /\ s+1 \in from[p+1]}
           h == [p \in 1..n+1 |-> Starts(pattern, path, p)]
<1>1. Matches(pattern, path) <=> 1 \in from[1]
  BY DEF Matches
<1>2. n \in Nat /\ Len(path) \in Nat
  BY LenProperties
<1>3. h[n+1] = {end}
  <2>1. n + 1 \in 1..n+1
    BY <1>2
  <2> QED
    BY <2>1, StartsEnd
<1>4. ASSUME NEW p \in 1..n
      PROVE  h[p] = At(p, h[p+1])
  <2>1. p \in 1..n+1 /\ p + 1 \in 1..n+1
    BY <1>2
  <2> DEFINE next == Starts(pattern, path, p+1)
  <2>2. h[p] = Starts(pattern, path, p) /\ h[p+1] = next
    BY <2>1
  <2>3. Starts(pattern, path, p) =
           IF pattern[p] = Stars
           THEN {s \in 1..end : \E t \in s..end : t \in next}
           ELSE {s \in 1..end : s < end /\ SegmentMatches(pattern[p], path[s]) /\ s+1 \in next}
    BY StartsStep
  <2>4. p = n => next = {end}
    BY StartsEnd
  <2> HIDE DEF next, h
  <2>5. p = n => \A s \in 1..end : \E t \in s..end : t \in next
    BY <1>2, <2>4
  <2>6. Starts(pattern, path, p) = At(p, next)
    BY <2>3, <2>5
  <2> HIDE DEF At
  <2> QED
    BY <2>2, <2>6
<1> HIDE DEF h
<1>5. h = [p \in 1..n+1 |-> IF p > n THEN {end} ELSE At(p, h[p+1])]
  <2>1. ASSUME NEW p \in 1..n+1
        PROVE  h[p] = IF p > n THEN {end} ELSE At(p, h[p+1])
    <3>1. CASE p > n
      <4>1. p = n + 1
        BY <1>2, <3>1
      <4> HIDE DEF end
      <4> QED
        BY <1>3, <3>1, <4>1
    <3>2. CASE ~(p > n)
      <4>1. p \in 1..n
        BY <1>2, <3>2
      <4> HIDE DEF At
      <4> QED
        BY <1>4, <3>2, <4>1
    <3> QED
      BY <3>1, <3>2
  <2>2. h = [p \in 1..n+1 |-> h[p]]
    BY DEF h
  <2> HIDE DEF At, end
  <2> QED
    BY <2>1, <2>2, Zenon
<1>6. from = [p \in 1..n+1 |-> IF p > n THEN {end} ELSE At(p, from[p+1])]
  BY <1>5
<1> HIDE DEF from
<1>7. from[n+1] = h[n+1]
  <2>1. n + 1 \in 1..n+1 /\ n + 1 > n
    BY <1>2
  <2> HIDE DEF At, end
  <2> QED
    BY <1>3, <1>6, <2>1
<1>8. ASSUME NEW p \in 1..n, from[p+1] = h[p+1]
      PROVE  from[p] = h[p]
  <2>1. p \in 1..n+1 /\ ~(p > n)
    BY <1>2
  <2> HIDE DEF At, end
  <2>2. from[p] = At(p, from[p+1])
    BY <1>6, <2>1
  <2>3. h[p] = At(p, h[p+1])
    BY <1>4
  <2> QED
    BY <1>8, <2>2, <2>3
<1> HIDE DEF At, end
<1> DEFINE G == {k \in 0..n : from[n + 1 - k] = h[n + 1 - k]}
<1>9. 0 \in G
  BY <1>2, <1>7
<1>10. \A k \in 1..n : k - 1 \in G => k \in G
  <2> SUFFICES ASSUME NEW k \in 1..n, k - 1 \in G
               PROVE  k \in G
    OBVIOUS
  <2>1. n + 1 - k \in 1..n /\ (n + 1 - k) + 1 = n + 1 - (k - 1)
    BY <1>2
  <2>2. from[n + 1 - (k - 1)] = h[n + 1 - (k - 1)]
    OBVIOUS
  <2>3. from[n + 1 - k] = h[n + 1 - k]
    BY <1>8, <2>1, <2>2
  <2> QED
    BY <2>3
<1>11. \A k \in 0..n : k \in G
  <2> HIDE DEF G, n
  <2> QED
    BY <1>2, <1>9, <1>10, UpTo, Zenon
<1>12. from[1] = h[1]
  BY <1>2, <1>11
<1> QED
  BY <1>1, <1>2, <1>12 DEF h

\* A path matches a pattern exactly if it can be cut into pieces for its parts.
THEOREM MatchesIsDenotes ==
  ASSUME NEW S, NEW pattern \in Seq(S), NEW path \in Seq(S)
  PROVE  Matches(pattern, path) <=> Denotes(pattern, path)
<1>1. 1 \in 1..Len(path)+1 /\ 1 - 1 = 0 /\ DOMAIN pattern = 1..Len(pattern)
  BY LenProperties
<1>2. 1 \in Starts(pattern, path, 1) <=> Denotes(pattern, path)
  BY <1>1, Zenon DEF Starts, Denotes
<1> QED
  BY <1>2, MatchesStarts

-----------------------------------------------------------------------------
(* The lists of the import graph.                                          *)

\* A list without duplicates stays one when it is extended, and has the elements of
\* both afterwards.
LEMMA ExtendedList ==
  ASSUME NEW S, NEW list \in Seq(S), NEW imports \in Seq(S), IsInjective(list)
  PROVE  /\ Extended(list, imports) \in Seq(S)
         /\ IsInjective(Extended(list, imports))
         /\ ToSet(Extended(list, imports)) = ToSet(list) \cup ToSet(imports)
<1> DEFINE N == Len(imports)
           Add(l, x) == IF Contains(l, x) THEN l ELSE Append(l, x)
           upTo[n \in 0..Len(imports)] ==
               IF n = 0 THEN list
               ELSE IF Contains(upTo[n-1], imports[n]) THEN upTo[n-1]
               ELSE Append(upTo[n-1], imports[n])
           step == [x \in Seq(S) \X (1..N) |-> Add(x[1], imports[x[2]])]
<1>1. N \in Nat /\ imports \in [1..N -> S]
  BY LenProperties
<1>2. Extended(list, imports) = upTo[N]
  BY DEF Extended
<1>3. ASSUME NEW l \in Seq(S), NEW x \in S
      PROVE  Add(l, x) \in Seq(S) /\ (Contains(l, x) <=> x \in ToSet(l))
  BY AppendProperties, ToSetType DEF Contains
<1> HIDE DEF N, Add
<1>4. ASSUME NEW n \in 1..N
      PROVE  n - 1 \in 0..N /\ n \in 0..N /\ n # 0 /\ imports[n] \in S
  BY <1>1
<1>5. step \in [Seq(S) \X (1..N) -> Seq(S)]
  BY <1>3, <1>4
<1>6. \A l \in Seq(S), n \in 1..N : step[<<l, n>>] = Add(l, imports[n])
  OBVIOUS
<1> HIDE DEF step
<1>7. PICK f : Computes(f, Seq(S), N, list, step)
  BY <1>1, <1>5, Recursion, Zenon
<1>8. f \in [0..N -> Seq(S)] /\ f[0] = list
  BY <1>7 DEF Computes
<1>9. ASSUME NEW n \in 1..N
      PROVE  f[n] = Add(f[n-1], imports[n])
  <2>1. f[n] = step[<<f[n-1], n>>]
    BY <1>7, Zenon DEF Computes
  <2>2. f[n-1] \in Seq(S)
    BY <1>4, <1>8
  <2> QED
    BY <1>6, <2>1, <2>2, Zenon
<1>10. f = [n \in 0..N |-> IF n = 0 THEN list ELSE Add(f[n-1], imports[n])]
  <2>1. ASSUME NEW n \in 0..N
        PROVE  f[n] = IF n = 0 THEN list ELSE Add(f[n-1], imports[n])
    <3>1. CASE n = 0
      BY <1>8, <3>1
    <3>2. CASE n # 0
      <4>1. n \in 1..N
        BY <1>1, <3>2
      <4> QED
        BY <1>9, <3>2, <4>1, Zenon
    <3> QED
      BY <3>1, <3>2
  <2>2. f = [n \in 0..N |-> f[n]]
    BY <1>8
  <2> QED
    BY <2>1, <2>2, Zenon
<1>11. upTo = [n \in 0..N |-> IF n = 0 THEN list ELSE Add(upTo[n-1], imports[n])]
  BY <1>10 DEF N, Add
<1> HIDE DEF upTo
<1> DEFINE First(n) == {imports[i] : i \in 1..n}
           Right(n) == /\ upTo[n] \in Seq(S)
                       /\ IsInjective(upTo[n])
                       /\ ToSet(upTo[n]) = ToSet(list) \cup First(n)
           G == {n \in 0..N : Right(n)}
<1>12. 0 \in G
  <2>1. 0 \in 0..N /\ First(0) = {}
    BY <1>1
  <2>2. upTo[0] = list
    BY <1>11, <2>1
  <2> QED
    BY <2>1, <2>2
<1>13. ASSUME NEW n \in 1..N, n - 1 \in G
       PROVE  n \in G
  <2> DEFINE l == upTo[n-1]
             x == imports[n]
  <2>1. l \in Seq(S) /\ IsInjective(l) /\ ToSet(l) = ToSet(list) \cup First(n-1) /\ x \in S
    BY <1>4, <1>13
  <2>2. upTo[n] = Add(l, x)
    BY <1>4, <1>11, Zenon
  <2>3. First(n) = First(n-1) \cup {x}
    <3>1. 1..n = (1..n-1) \cup {n}
      BY <1>1
    <3> QED
      BY <3>1
  <2> HIDE DEF l, x, First
  <2>4. CASE x \in ToSet(l)
    <3>1. Contains(l, x)
      BY <1>3, <2>1, <2>4
    <3>2. Add(l, x) = l
      BY <3>1 DEF Add
    <3> QED
      BY <1>4, <2>1, <2>2, <2>3, <2>4, <3>2
  <2>5. CASE x \notin ToSet(l)
    <3>1. ~Contains(l, x)
      BY <1>3, <2>1, <2>5
    <3>2. Add(l, x) = Append(l, x)
      BY <3>1 DEF Add
    <3>3. Append(l, x) \in Seq(S) /\ IsInjective(Append(l, x))
      BY <2>1, <2>5, InjectiveAppend, AppendProperties
    <3>4. ToSet(Append(l, x)) = ToSet(l) \cup {x}
      BY <2>1, ToSetAppend
    <3> QED
      BY <1>4, <2>1, <2>2, <2>3, <3>2, <3>3, <3>4
  <2> QED
    BY <2>4, <2>5
<1>14. \A n \in 1..N : n - 1 \in G => n \in G
  BY <1>13
<1>15. \A n \in 0..N : n \in G
  <2> HIDE DEF G
  <2> QED
    BY <1>1, <1>12, <1>14, UpTo, Zenon
<1>16. Right(N)
  <2>1. N \in 0..N
    BY <1>1
  <2> HIDE DEF Right
  <2> QED
    BY <1>15, <2>1
<1>17. First(N) = ToSet(imports)
  BY <1>1, ToSetType DEF N
<1> QED
  BY <1>2, <1>16, <1>17

-----------------------------------------------------------------------------
(* The dominant language.                                                  *)

\* Some language is one that no other outnumbers.
LEMMA DominantIsLanguage ==
  ASSUME tree \in Seq(Entries)
  PROVE  Dominant \in Languages
<1> DEFINE order == <<"go", "js", "python", "java">>
           c == [i \in 1..4 |-> Count(order[i])]
           most == {i \in 1..4 : \A j \in 1..4 : Count(order[j]) <= Count(order[i])}
<1>1. ASSUME NEW i \in 1..4
      PROVE  c[i] \in Nat
  <2> DEFINE counted == {k \in DOMAIN tree : /\ tree[k].kind = order[i]
                                             /\ tree[k].state # "unlisted" /\ ~Skipped(k)}
  <2>1. IsFiniteSet(1..Len(tree)) /\ DOMAIN tree = 1..Len(tree)
    BY LenProperties, FS_Interval
  <2>2. IsFiniteSet(counted)
    BY <2>1, FS_Subset
  <2>3. Cardinality(counted) \in Nat
    BY <2>2, FS_CardinalityType
  <2> HIDE DEF order
  <2> QED
    BY <2>3 DEF Count
<1>2. most = {i \in 1..4 : \A j \in 1..4 : c[j] <= c[i]}
  OBVIOUS
<1> HIDE DEF c, most
<1>3. \E i \in 1..4 : \A j \in 1..4 : c[j] <= c[i]
  <2>1. c[1] \in Nat /\ c[2] \in Nat /\ c[3] \in Nat /\ c[4] \in Nat
    BY <1>1
  <2>2. \A j \in 1..4 : j = 1 \/ j = 2 \/ j = 3 \/ j = 4
    OBVIOUS
  <2> QED
    BY <2>1, <2>2
<1>4. most # {} /\ most \subseteq Nat /\ most \subseteq 1..4
  BY <1>2, <1>3
<1>5. Min(most) \in 1..4
  BY <1>4, MinIsLeast
<1>6. \A i \in 1..4 : order[i] \in Languages
  BY DEF Languages
<1>7. Dominant = order[Min(most)]
  BY DEF Dominant, most
<1> QED
  BY <1>5, <1>6, <1>7

-----------------------------------------------------------------------------
(* The judging of the edges.                                               *)

\* What is reported of a single edge that is denied.
Report(edge) == <<edge, Min(Hits(edge))>>

\* The edges that are denied, by their positions.
DeniedIn(es) == {k \in 1..Len(es) : Denied(es[k])}

\* Every denied edge is reported with the first rule that applies to it, and nothing
\* else is reported.
LEMMA EvaluateReports ==
  ASSUME NEW es, NEW S, es \in Seq(S)
  PROVE  /\ Evaluate(es) \in Seq({Report(es[k]) : k \in DeniedIn(es)})
         /\ ToSet(Evaluate(es)) = {Report(es[k]) : k \in DeniedIn(es)}
         /\ Len(Evaluate(es)) = Cardinality(DeniedIn(es))
<1> DEFINE N == Len(es)
           D == DeniedIn(es)
           R == {Report(es[k]) : k \in D}
           Add(l, k) == IF k \in D THEN Append(l, Report(es[k])) ELSE l
           upTo[k \in 0..Len(es)] ==
               IF k = 0 THEN <<>>
               ELSE IF Denied(es[k]) THEN Append(upTo[k-1], <<es[k], Min(Hits(es[k]))>>)
               ELSE upTo[k-1]
           step == [x \in Seq(R) \X (1..N) |-> Add(x[1], x[2])]
           empty == <<>>
<1>1. N \in Nat
  BY LenProperties
<1>2. Evaluate(es) = upTo[N]
  BY DEF Evaluate
<1>3. \A k \in 1..N : k \in D <=> Denied(es[k])
  BY DEF DeniedIn
<1>4. D \subseteq 1..N /\ \A k \in D : Report(es[k]) \in R
  BY DEF DeniedIn
<1>5. \A k : Report(es[k]) = <<es[k], Min(Hits(es[k]))>>
  BY DEF Report
<1>6. ASSUME NEW k \in 1..N
      PROVE  k - 1 \in 0..N /\ k \in 0..N /\ k # 0
  BY <1>1
<1> HIDE DEF D, R
<1>7. empty \in Seq(R)
  OBVIOUS
<1>8. \A l \in Seq(R), k \in 1..N : Add(l, k) \in Seq(R)
  BY <1>4, AppendProperties
<1> HIDE DEF N, Add, empty
<1>9. step \in [Seq(R) \X (1..N) -> Seq(R)] /\ \A l \in Seq(R), k \in 1..N : step[<<l, k>>] = Add(l, k)
  BY <1>8
<1> HIDE DEF step
<1>10. PICK f : Computes(f, Seq(R), N, empty, step)
  BY <1>1, <1>7, <1>9, Recursion, Zenon
<1>11. f \in [0..N -> Seq(R)] /\ f[0] = empty
  BY <1>10 DEF Computes
<1>12. ASSUME NEW k \in 1..N
      PROVE  f[k] = Add(f[k-1], k)
  <2>1. f[k] = step[<<f[k-1], k>>]
    BY <1>10, Zenon DEF Computes
  <2>2. f[k-1] \in Seq(R)
    BY <1>6, <1>11
  <2> QED
    BY <1>9, <2>1, <2>2, Zenon
<1>13. f = [k \in 0..N |-> IF k = 0 THEN empty ELSE Add(f[k-1], k)]
  <2>1. ASSUME NEW k \in 0..N
        PROVE  f[k] = IF k = 0 THEN empty ELSE Add(f[k-1], k)
    <3>1. CASE k = 0
      BY <1>11, <3>1
    <3>2. CASE k # 0
      <4>1. k \in 1..N
        BY <1>1, <3>2
      <4> QED
        BY <1>12, <3>2, <4>1, Zenon
    <3> QED
      BY <3>1, <3>2
  <2>2. f = [k \in 0..N |-> f[k]]
    BY <1>11
  <2> QED
    BY <2>1, <2>2, Zenon
<1> DEFINE Body(g, k) == IF k = 0 THEN <<>>
                         ELSE IF Denied(es[k]) THEN Append(g[k-1], <<es[k], Min(Hits(es[k]))>>)
                         ELSE g[k-1]
<1>14. ASSUME NEW g, NEW k \in 0..N
       PROVE  Body(g, k) = IF k = 0 THEN empty ELSE Add(g[k-1], k)
  <2>1. CASE k = 0
    BY <2>1 DEF empty
  <2>2. CASE k # 0
    <3>1. k \in 1..N
      BY <1>1, <2>2
    <3> QED
      BY <1>3, <1>5, <2>2, <3>1, Zenon DEF Add
  <2> QED
    BY <2>1, <2>2
<1>15. f = [k \in 0..N |-> Body(f, k)]
  <2> HIDE DEF Body
  <2> QED
    BY <1>13, <1>14, Zenon
<1>16. upTo = [k \in 0..N |-> Body(upTo, k)]
  BY <1>15 DEF N
<1> HIDE DEF upTo, Body
<1>17. upTo = [k \in 0..N |-> IF k = 0 THEN empty ELSE Add(upTo[k-1], k)]
  BY <1>14, <1>16, Zenon
<1> DEFINE First(n) == {k \in D : k \in 1..n}
           Right(n) == /\ upTo[n] \in Seq(R)
                       /\ ToSet(upTo[n]) = {Report(es[k]) : k \in First(n)}
                       /\ IsFiniteSet(First(n))
                       /\ Len(upTo[n]) = Cardinality(First(n))
           G == {n \in 0..N : Right(n)}
<1>18. 0 \in G
  <2>1. 0 \in 0..N /\ First(0) = {}
    BY <1>1
  <2>2. upTo[0] = empty
    BY <1>17, <2>1
  <2>3. empty \in Seq(R) /\ ToSet(empty) = {} /\ Len(empty) = 0
    BY <1>7, ToSetEmpty DEF empty
  <2>4. IsFiniteSet({}) /\ Cardinality({}) = 0
    BY FS_EmptySet
  <2> QED
    BY <2>1, <2>2, <2>3, <2>4
<1>19. ASSUME NEW n \in 1..N, n - 1 \in G
       PROVE  n \in G
  <2> DEFINE l == upTo[n-1]
             F == First(n-1)
  <2>1. /\ l \in Seq(R) /\ ToSet(l) = {Report(es[k]) : k \in F}
        /\ IsFiniteSet(F) /\ Len(l) = Cardinality(F)
    BY <1>19
  <2>2. upTo[n] = Add(l, n)
    BY <1>6, <1>17, Zenon
  <2>3. n \notin F /\ First(n) = IF n \in D THEN F \cup {n} ELSE F
    <3>1. 1..n = (1..n-1) \cup {n} /\ n \notin 1..n-1
      BY <1>1
    <3> QED
      BY <3>1
  <2> HIDE DEF l, F, First
  <2>4. CASE n \notin D
    <3>1. upTo[n] = l /\ First(n) = F
      BY <2>2, <2>3, <2>4 DEF Add
    <3> QED
      BY <1>6, <2>1, <3>1
  <2>5. CASE n \in D
    <3> DEFINE r == Report(es[n])
    <3>1. upTo[n] = Append(l, r) /\ First(n) = F \cup {n} /\ r \in R
      BY <1>4, <2>2, <2>3, <2>5 DEF Add
    <3>2. {Report(es[k]) : k \in F \cup {n}} = {Report(es[k]) : k \in F} \cup {r}
      OBVIOUS
    <3> HIDE DEF r
    <3>3. Append(l, r) \in Seq(R) /\ Len(Append(l, r)) = Len(l) + 1
      BY <2>1, <3>1, AppendProperties
    <3>4. ToSet(Append(l, r)) = ToSet(l) \cup {r}
      BY <2>1, <3>1, ToSetAppend
    <3>5. IsFiniteSet(F \cup {n}) /\ Cardinality(F \cup {n}) = Cardinality(F) + 1
      BY <2>1, <2>3, FS_AddElement
    <3>6. ToSet(upTo[n]) = {Report(es[k]) : k \in First(n)}
      BY <2>1, <3>1, <3>2, <3>4
    <3> QED
      BY <1>6, <2>1, <3>1, <3>3, <3>5, <3>6
  <2> QED
    BY <2>4, <2>5
<1>20. \A n \in 1..N : n - 1 \in G => n \in G
  BY <1>19
<1>21. \A n \in 0..N : n \in G
  <2> HIDE DEF G
  <2> QED
    BY <1>1, <1>18, <1>20, UpTo, Zenon
<1>22. Right(N)
  <2>1. N \in 0..N
    BY <1>1
  <2> HIDE DEF Right
  <2> QED
    BY <1>21, <2>1
<1>23. First(N) = D
  BY <1>4
<1> QED
  BY <1>2, <1>22, <1>23 DEF D, R

-----------------------------------------------------------------------------
(* The inductive invariant.                                                *)

Edges == [file : Nat, pkg : Paths, import : Paths, line : Nat]

\* What the variables hold.
Shapes ==
    /\ tree \in Seq(Entries) /\ rules \in Seq(Rules) /\ edges \in Seq(Edges)
    /\ \A p \in DOMAIN graph : graph[p] \in Seq(Paths)

\* The walk for imports begins when the directory has been read, and at its first entry.
Walking ==
    /\ pos \in 1..Len(tree)+1
    /\ phase = "detect" => pos = 1
    /\ phase = "detect" => edges = <<>>

\* The edges are those of the entries before the one that the walk is at.
Gathered == phase # "detect" => edges = FlattenSeq([i \in 1..pos-1 |-> EdgesOf(i)])

\* The walk stops early only when the deadline has passed, and the answer says so.
Stopped ==
    /\ phase \in {"walked", "judged"} => pos = Len(tree) + 1 \/ overdue
    /\ phase = "answered" => pos = Len(tree) + 1 \/ truncated

\* The violations are those of the edges.
Judged == phase \in {"judged", "answered"} => violations = Evaluate(edges)

IInv == ArchTypeOK /\ Shapes /\ Walking /\ Gathered /\ Stopped /\ Judged /\ GraphAgreesWithEdges

\* A name makes a segment.
LEMMA OneName ==
  /\ \A name \in {"", "**", "domain", "infrastructure", "presentation"} : <<name>> \in Seq(Names)
  /\ <<"", "">> \in Seq(Names)
<1> DEFINE known == {"", "**", "domain", "infrastructure", "presentation"}
<1>1. known \subseteq Names
  BY EntriesAssumption
<1>2. "" \in known
  OBVIOUS
<1> HIDE DEF known
<1>3. \A name \in known : <<name>> \in Seq(Names) /\ <<name, name>> \in Seq(Names)
  BY <1>1
<1> QED
  BY <1>2, <1>3, Zenon DEF known

\* The default rules are rules.
LEMMA DefaultRulesType == DefaultRules \in Seq(Rules)
<1>1. Stars \in Seq(Names)
  <2>1. "**" \in {"", "**", "domain", "infrastructure", "presentation"}
    OBVIOUS
  <2> QED
    BY <2>1, OneName, Zenon DEF Stars
<1>2. ASSUME NEW name \in {"domain", "infrastructure", "presentation"}
      PROVE  Layer(name) \in Paths
  <2>1. <<name>> \in Seq(Names)
    BY OneName
  <2> QED
    BY <1>1, <2>1 DEF Layer, Paths
<1>3. \A from, to \in {"domain", "infrastructure", "presentation"} : Deny(from, to) \in Rules
  BY <1>2 DEF Deny, Rules
<1>4. /\ Deny("domain", "infrastructure") \in Rules
      /\ Deny("domain", "presentation") \in Rules
      /\ Deny("infrastructure", "presentation") \in Rules
  BY <1>3
<1> QED
  BY <1>4 DEF DefaultRules

\* What is found in a line is import paths.
LEMMA FoundType ==
  ASSUME NEW language, NEW line \in SourceLines
  PROVE  Found(language, line) \in Seq(Paths)
<1> DEFINE wanted(path) == IF path # NoPath /\ ~StdLib(language, path) THEN <<path>> ELSE <<>>
<1>1. line.import \in Paths \cup {NoPath} /\ line.require \in Paths \cup {NoPath}
  BY DEF SourceLines
<1>2. \A path \in Paths \cup {NoPath} : wanted(path) \in Seq(Paths)
  OBVIOUS
<1>3. Found(language, line) = IF line.comment THEN <<>>
                              ELSE IF language = "js" THEN wanted(line.import) \o wanted(line.require)
                              ELSE wanted(line.import)
  BY DEF Found
<1> HIDE DEF wanted
<1>4. wanted(line.import) \in Seq(Paths) /\ wanted(line.require) \in Seq(Paths)
  BY <1>1, <1>2
<1>5. wanted(line.import) \o wanted(line.require) \in Seq(Paths)
  BY <1>4, ConcatProperties
<1> QED
  BY <1>3, <1>4, <1>5

\* The edges of the i-th entry name its file and its package.
EdgesFrom(i, package) == {e \in Edges : e.file = i /\ e.pkg = package}

\* What is extracted from an entry are edges of it.
LEMMA ExtractType ==
  ASSUME NEW language, NEW i \in Nat, tree[i] \in Entries
  PROVE  /\ Package(tree[i]) \in Paths
         /\ Extract(language, i) \in Seq(EdgesFrom(i, Package(tree[i])))
<1> DEFINE lines == tree[i].lines
           package == Package(tree[i])
           E == EdgesFrom(i, package)
           part == [k \in DOMAIN lines |->
                       LET paths == Found(language, lines[k])
                       IN  [n \in DOMAIN paths |-> [file |-> i, pkg |-> package,
                                                    import |-> paths[n], line |-> k]]]
<1>1. lines \in Seq(SourceLines) /\ tree[i].dir \in Paths
  BY EntriesAssumption
<1>2. package \in Paths
  <2>1. <<"", "">> \in Seq(Names)
    BY OneName, Zenon
  <2>2. \A x \in Seq(Names) : <<x>> \in Paths
    BY DEF Paths
  <2>3. <<<<"", "">>>> \in Paths
    BY <2>1, <2>2, Zenon
  <2> QED
    BY <1>1, <2>3, Zenon DEF Package
<1>3. Extract(language, i) = FlattenSeq(part)
  BY DEF Extract
<1>4. DOMAIN lines = 1..Len(lines) /\ Len(lines) \in Nat
  BY <1>1, LenProperties
<1>5. ASSUME NEW k \in 1..Len(lines)
      PROVE  part[k] \in Seq(E)
  <2> DEFINE paths == Found(language, lines[k])
             es == [n \in DOMAIN paths |-> [file |-> i, pkg |-> package,
                                            import |-> paths[n], line |-> k]]
  <2>1. lines[k] \in SourceLines
    BY <1>1, <1>4
  <2>2. paths \in Seq(Paths)
    BY <2>1, FoundType
  <2>3. part[k] = es
    BY <1>4
  <2> HIDE DEF paths, package, part
  <2>4. DOMAIN paths = 1..Len(paths) /\ Len(paths) \in Nat /\ paths \in [1..Len(paths) -> Paths]
    BY <2>2, LenProperties
  <2>5. k \in Nat
    BY <1>4
  <2>6. \A path \in Paths : [file |-> i, pkg |-> package, import |-> path, line |-> k] \in E
    BY <1>2, <2>5 DEF EdgesFrom, Edges
  <2> HIDE DEF E
  <2>7. es \in [1..Len(paths) -> E]
    BY <2>4, <2>6
  <2> HIDE DEF es
  <2>8. es \in Seq(E)
    BY <2>4, <2>7
  <2> QED
    BY <2>3, <2>8
<1>6. part \in [1..Len(lines) -> Seq(E)]
  <2>1. part = [k \in 1..Len(lines) |-> part[k]]
    BY <1>4
  <2> HIDE DEF part, E
  <2> QED
    BY <1>5, <2>1
<1> HIDE DEF part, E, lines
<1>7. FlattenSeq(part) \in Seq(E)
  <2>1. 0 \in 0..Len(lines)
    BY <1>4
  <2> QED
    BY <1>4, <1>6, <2>1, FlattenParts, Zenon
<1> QED
  BY <1>2, <1>3, <1>7 DEF E

\* The edges of an entry are edges.
LEMMA EdgesOfType ==
  ASSUME tree \in Seq(Entries), NEW i \in 1..Len(tree)
  PROVE  EdgesOf(i) \in Seq(Edges)
<1>1. i \in Nat /\ tree[i] \in Entries
  BY LenProperties
<1>2. Extract(lang, i) \in Seq(EdgesFrom(i, Package(tree[i])))
  BY <1>1, ExtractType
<1>3. EdgesFrom(i, Package(tree[i])) \subseteq Edges
  BY DEF EdgesFrom
<1> HIDE DEF EdgesFrom
<1>4. Extract(lang, i) \in Seq(Edges)
  BY <1>2, <1>3
<1> QED
  BY <1>4 DEF EdgesOf

\* What the edges of a package import.
ImportsOf(es, p) == {es[k].import : k \in {j \in DOMAIN es : es[j].pkg = p}}

\* The imports of a list of edges, in its order.
ImportsIn(es) == [k \in DOMAIN es |-> es[k].import]

\* The packages of a graph have lists of imports.
Lists(g) == \A p \in DOMAIN g : g[p] \in Seq(Paths)

\* The agreement of a graph with edges.
Agree(g, es) ==
    /\ \A k \in DOMAIN es : es[k].pkg \in DOMAIN g
    /\ \A p \in DOMAIN g : IsInjective(g[p]) /\ Range(g[p]) = ImportsOf(es, p)

\* The imports of a package in two lists of edges are those in both.
LEMMA ImportsOfConcat ==
  ASSUME NEW es \in Seq(Edges), NEW fs \in Seq(Edges), NEW p
  PROVE  ImportsOf(es \o fs, p) = ImportsOf(es, p) \cup ImportsOf(fs, p)
<1> DEFINE cs == es \o fs
<1>1. /\ cs \in Seq(Edges) /\ Len(cs) = Len(es) + Len(fs)
      /\ Len(es) \in Nat /\ Len(fs) \in Nat
      /\ \A k \in 1..Len(es) : cs[k] = es[k]
      /\ \A k \in 1..Len(fs) : cs[Len(es) + k] = fs[k]
  BY ConcatProperties, LenProperties
<1>2. DOMAIN cs = 1..Len(cs) /\ DOMAIN es = 1..Len(es) /\ DOMAIN fs = 1..Len(fs)
  BY <1>1, LenProperties
<1> HIDE DEF cs
<1>3. ASSUME NEW k \in 1..Len(cs)
      PROVE  \/ k \in 1..Len(es) /\ cs[k] = es[k]
             \/ \E n \in 1..Len(fs) : cs[k] = fs[n]
  <2>1. CASE k <= Len(es)
    BY <1>1, <2>1
  <2>2. CASE ~(k <= Len(es))
    <3>1. k - Len(es) \in 1..Len(fs) /\ Len(es) + (k - Len(es)) = k
      BY <1>1, <2>2
    <3> QED
      BY <1>1, <3>1
  <2> QED
    BY <2>1, <2>2
<1>4. ASSUME NEW k \in 1..Len(fs)
      PROVE  Len(es) + k \in 1..Len(cs)
  BY <1>1
<1>5. 1..Len(es) \subseteq 1..Len(cs)
  BY <1>1
<1>6. ImportsOf(cs, p) \subseteq ImportsOf(es, p) \cup ImportsOf(fs, p)
  BY <1>2, <1>3 DEF ImportsOf
<1>7. ImportsOf(es, p) \subseteq ImportsOf(cs, p)
  BY <1>1, <1>2, <1>5 DEF ImportsOf
<1>8. ImportsOf(fs, p) \subseteq ImportsOf(cs, p)
  <2> SUFFICES ASSUME NEW k \in 1..Len(fs), fs[k].pkg = p
               PROVE  fs[k].import \in ImportsOf(cs, p)
    BY <1>2 DEF ImportsOf
  <2>1. Len(es) + k \in DOMAIN cs /\ cs[Len(es) + k] = fs[k]
    BY <1>1, <1>2, <1>4
  <2> QED
    BY <2>1 DEF ImportsOf
<1> QED
  BY <1>6, <1>7, <1>8 DEF cs

\* A graph that agrees with the edges still does when the edges of one more file are
\* added to both.
LEMMA AddToAgrees ==
  ASSUME NEW g, NEW es \in Seq(Edges), Agree(g, es),
         Lists(g), NEW package \in Paths, NEW i, NEW found \in Seq(EdgesFrom(i, package)),
         NEW h, h = AddTo(g, package, ImportsIn(found))
  PROVE  /\ DOMAIN h = DOMAIN g \cup {package}
         /\ Lists(h)
         /\ Agree(h, es \o found)
<1> DEFINE imports == [k \in DOMAIN found |-> found[k].import]
           list == IF package \in DOMAIN g THEN g[package] ELSE <<>>
<1>1. /\ DOMAIN h = DOMAIN g \cup {package}
      /\ \A p \in DOMAIN g : p # package => h[p] = g[p]
      /\ h[package] = Extended(list, imports)
  BY DEF AddTo, ImportsIn
<1>2. found \in Seq(Edges)
  BY DEF EdgesFrom
<1>3. DOMAIN found = 1..Len(found) /\ Len(found) \in Nat /\ DOMAIN es = 1..Len(es)
  BY LenProperties
<1>4. \A k \in DOMAIN found : found[k].pkg = package /\ found[k].import \in Paths
  <2> SUFFICES ASSUME NEW k \in DOMAIN found
               PROVE  found[k].pkg = package /\ found[k].import \in Paths
    OBVIOUS
  <2>1. found[k] \in EdgesFrom(i, package)
    BY <1>3
  <2> QED
    BY <2>1 DEF EdgesFrom, Edges
<1>5. imports \in Seq(Paths)
  <2>1. imports \in [1..Len(found) -> Paths]
    BY <1>3, <1>4
  <2> HIDE DEF imports
  <2> QED
    BY <1>3, <2>1
<1>6. ImportsOf(found, package) = ToSet(imports)
  BY <1>4 DEF ImportsOf, ToSet
<1>7. \A p : p # package => ImportsOf(found, p) = {}
  BY <1>4 DEF ImportsOf
<1>8. list \in Seq(Paths) /\ IsInjective(list) /\ ToSet(list) = ImportsOf(es, package)
  <2>1. CASE package \in DOMAIN g
    <3>1. IsInjective(g[package]) /\ Range(g[package]) = ImportsOf(es, package)
      BY <2>1 DEF Agree
    <3>2. ToSet(g[package]) = Range(g[package])
      BY DEF ToSet, Range
    <3> QED
      BY <2>1, <3>1, <3>2 DEF Lists
  <2>2. CASE package \notin DOMAIN g
    <3>1. ImportsOf(es, package) = {}
      BY <2>2 DEF Agree, ImportsOf
    <3>2. IsInjective(<<>>)
      BY DEF IsInjective
    <3> QED
      BY <2>2, <3>1, <3>2, ToSetEmpty
  <2> QED
    BY <2>1, <2>2
<1> HIDE DEF list, imports
<1>9. /\ Extended(list, imports) \in Seq(Paths)
      /\ IsInjective(Extended(list, imports))
      /\ ToSet(Extended(list, imports)) = ToSet(list) \cup ToSet(imports)
  BY <1>5, <1>8, ExtendedList
<1>10. \A p : ImportsOf(es \o found, p) = ImportsOf(es, p) \cup ImportsOf(found, p)
  BY <1>2, ImportsOfConcat
<1>11. \A k \in DOMAIN (es \o found) : (es \o found)[k].pkg \in DOMAIN h
  <2> SUFFICES ASSUME NEW k \in DOMAIN (es \o found)
               PROVE  (es \o found)[k].pkg \in DOMAIN h
    OBVIOUS
  <2> DEFINE cs == es \o found
  <2>1. /\ cs \in Seq(Edges) /\ Len(cs) = Len(es) + Len(found) /\ Len(es) \in Nat
        /\ \A n \in 1..Len(es) : cs[n] = es[n]
        /\ \A n \in 1..Len(found) : cs[Len(es) + n] = found[n]
    BY <1>2, ConcatProperties, LenProperties
  <2>2. k \in 1..Len(cs)
    BY <2>1, LenProperties
  <2> HIDE DEF cs
  <2>3. CASE k <= Len(es)
    <3>1. k \in DOMAIN es /\ cs[k] = es[k]
      BY <1>3, <2>1, <2>2, <2>3
    <3>2. es[k].pkg \in DOMAIN g
      BY <3>1 DEF Agree
    <3> QED
      BY <1>1, <3>1, <3>2 DEF cs
  <2>4. CASE ~(k <= Len(es))
    <3>1. k - Len(es) \in DOMAIN found /\ Len(es) + (k - Len(es)) = k
      BY <1>3, <2>1, <2>2, <2>4
    <3>2. cs[k] = found[k - Len(es)]
      BY <1>3, <2>1, <3>1
    <3> QED
      BY <1>1, <1>4, <3>1, <3>2 DEF cs
  <2> QED
    BY <2>3, <2>4
<1>12. ASSUME NEW p \in DOMAIN h
       PROVE  /\ h[p] \in Seq(Paths)
              /\ IsInjective(h[p]) /\ Range(h[p]) = ImportsOf(es \o found, p)
  <2>1. CASE p = package
    <3>1. ToSet(h[p]) = Range(h[p])
      BY DEF ToSet, Range
    <3>2. h[p] = Extended(list, imports)
      BY <1>1, <2>1
    <3> QED
      BY <1>6, <1>8, <1>9, <1>10, <2>1, <3>1, <3>2
  <2>2. CASE p # package
    <3>1. p \in DOMAIN g /\ h[p] = g[p]
      BY <1>1, <2>2
    <3>2. IsInjective(g[p]) /\ Range(g[p]) = ImportsOf(es, p)
      BY <3>1 DEF Agree
    <3> QED
      BY <1>7, <1>10, <2>2, <3>1, <3>2 DEF Lists
  <2> QED
    BY <2>1, <2>2
<1> QED
  BY <1>1, <1>11, <1>12 DEF Agree, Lists

-----------------------------------------------------------------------------
(* The invariant is inductive.                                             *)

\* The invariant holds before anything has been read.
LEMMA Initially == ArchInit => IInv
<1> SUFFICES ASSUME ArchInit
             PROVE  IInv
  OBVIOUS
<1>1. rules \in {DefaultRules} \cup RuleFiles /\ tree = <<>> /\ edges = <<>> /\ graph = [p \in {} |-> <<>>]
  BY DEF ArchInit
<1>2. /\ phase = "detect" /\ lang = "go" /\ pos = 1 /\ violations = <<>>
      /\ overdue = FALSE /\ truncated = FALSE
  BY DEF ArchInit
<1>3. DOMAIN edges = {} /\ DOMAIN graph = {} /\ DOMAIN violations = {} /\ Len(tree) = 0
  BY <1>1, <1>2
<1>4. ArchTypeOK
  <2>1. Range(tree) = {}
    BY <1>1 DEF Range
  <2>2. MaxEntries \in Nat
    BY EntriesAssumption
  <2>3. Len(tree) <= MaxEntries /\ pos \in 1..MaxEntries+1 /\ Range(tree) \subseteq Entries
    BY <1>2, <1>3, <2>1, <2>2
  <2>4. overdue \in BOOLEAN /\ truncated \in BOOLEAN /\ lang \in Languages
    BY <1>2 DEF Languages
  <2>5. phase \in {"detect", "walk", "walked", "judged", "answered", "failed"}
    BY <1>2
  <2> QED
    BY <1>1, <1>3, <2>3, <2>4, <2>5 DEF ArchTypeOK
<1>5. Shapes
  <2>1. rules \in Seq(Rules)
    BY <1>1, DefaultRulesType, EntriesAssumption
  <2> QED
    BY <1>1, <1>3, <2>1 DEF Shapes
<1>6. Walking /\ Gathered /\ Stopped /\ Judged
  BY <1>1, <1>2, <1>3 DEF Walking, Gathered, Stopped, Judged
<1>7. GraphAgreesWithEdges
  BY <1>3 DEF GraphAgreesWithEdges
<1> QED
  BY <1>4, <1>5, <1>6, <1>7 DEF IInv

\* The edges of an entry depend on nothing but the directory and the language.
LEMMA SameEdges ==
  ASSUME tree' = tree, lang' = lang
  PROVE  \A i : EdgesOf(i)' = EdgesOf(i)
BY DEF EdgesOf, Extract

\* The judgement depends on nothing but the rules and the edges.
LEMMA SameJudgement ==
  ASSUME rules' = rules, edges' = edges
  PROVE  Evaluate(edges)' = Evaluate(edges)
BY DEF Evaluate, Denied, Hits

\* What a step that gathers nothing leaves as it was.
LEMMA NothingGathered ==
  ASSUME IInv, UNCHANGED <<rules, tree, lang, edges, graph>>
  PROVE  /\ Shapes' /\ GraphAgreesWithEdges'
         /\ rules' \in {DefaultRules} \cup RuleFiles
         /\ Range(tree') \subseteq Entries /\ Len(tree') <= MaxEntries
         /\ lang' \in Languages
         /\ \A k \in DOMAIN edges' : edges'[k].file \in DOMAIN tree'
         /\ \A p \in DOMAIN graph' : \E i \in DOMAIN tree' : Package(tree'[i]) = p
<1>1. Shapes /\ GraphAgreesWithEdges /\ ArchTypeOK
  BY DEF IInv
<1>2. Shapes'
  BY <1>1 DEF Shapes
<1>3. GraphAgreesWithEdges'
  BY <1>1 DEF GraphAgreesWithEdges
<1> QED
  BY <1>1, <1>2, <1>3 DEF ArchTypeOK

\* A step that gathers nothing and judges nothing, and leaves the walk where it is.
LEMMA OnlyThePhase ==
  ASSUME IInv, UNCHANGED <<rules, tree, lang, pos, edges, graph, violations>>,
         overdue' \in BOOLEAN, truncated' \in BOOLEAN,
         phase' \in {"walk", "walked", "answered", "failed", phase},
         phase' = "answered" => phase \in {"judged", "answered"},
         Stopped'
  PROVE  IInv'
<1>1. ArchTypeOK /\ Walking /\ Gathered /\ Judged
  BY DEF IInv
<1>2. ArchTypeOK'
  <2>1. phase' \in {"detect", "walk", "walked", "judged", "answered", "failed"}
    BY <1>1 DEF ArchTypeOK
  <2>2. pos' \in 1..MaxEntries+1 /\ \A k \in DOMAIN violations' : violations'[k][2] \in DOMAIN rules'
    BY <1>1 DEF ArchTypeOK
  <2> QED
    BY <2>1, <2>2, NothingGathered DEF ArchTypeOK
<1>3. Walking'
  BY <1>1 DEF Walking
<1>4. Gathered'
  <2>1. \A i : EdgesOf(i)' = EdgesOf(i)
    BY SameEdges
  <2>2. CASE phase = "detect"
    <3>1. pos = 1 /\ edges = <<>>
      BY <1>1, <2>2 DEF Walking
    <3>2. [i \in 1..pos-1 |-> EdgesOf(i)] \in [{} -> {}]
      BY <3>1
    <3>3. FlattenSeq([i \in 1..pos-1 |-> EdgesOf(i)]) = <<>>
      BY <3>2, FlattenNothing
    <3>4. edges = FlattenSeq([i \in 1..pos-1 |-> EdgesOf(i)])
      BY <3>1, <3>3
    <3> QED
      BY <2>1, <3>4 DEF Gathered
  <2>3. CASE phase # "detect"
    <3>1. edges = FlattenSeq([i \in 1..pos-1 |-> EdgesOf(i)])
      BY <1>1, <2>3 DEF Gathered
    <3> QED
      BY <2>1, <3>1 DEF Gathered
  <2> QED
    BY <2>2, <2>3
<1>5. Judged'
  <2>1. Evaluate(edges)' = Evaluate(edges)
    BY SameJudgement
  <2> QED
    BY <1>1, <2>1 DEF Judged
<1> QED
  BY <1>2, <1>3, <1>4, <1>5, NothingGathered DEF IInv

\* The steps that change nothing but the phase.
LEMMA EndsAndTimeouts ==
  ASSUME IInv,
         LoadRulesFails \/ Cut \/ WalkFails \/ Walked \/ Answer \/ ArchExpire
  PROVE  IInv'
<1>1. ArchTypeOK /\ Walking /\ Stopped
  BY DEF IInv
<1>2. overdue \in BOOLEAN /\ truncated \in BOOLEAN
  BY <1>1 DEF ArchTypeOK
<1>3. CASE LoadRulesFails
  <2>1. Stopped'
    BY <1>3 DEF LoadRulesFails, Stopped
  <2> QED
    BY <1>2, <1>3, <2>1, OnlyThePhase DEF LoadRulesFails
<1>4. CASE Cut
  <2>1. Stopped'
    BY <1>4 DEF Cut, Stopped
  <2> QED
    BY <1>2, <1>4, <2>1, OnlyThePhase DEF Cut
<1>5. CASE WalkFails
  <2>1. Stopped'
    BY <1>5 DEF WalkFails, Stopped
  <2> QED
    BY <1>2, <1>5, <2>1, OnlyThePhase DEF WalkFails
<1>6. CASE Walked
  <2>1. pos = Len(tree) + 1
    <3>1. pos \in 1..Len(tree)+1 /\ pos > Len(tree) /\ Len(tree) \in Nat
      BY <1>1, <1>6, LenProperties DEF Walked, Walking, IInv, Shapes
    <3> QED
      BY <3>1
  <2>2. Stopped'
    BY <1>6, <2>1 DEF Walked, Stopped
  <2> QED
    BY <1>2, <1>6, <2>2, OnlyThePhase DEF Walked
<1>7. CASE Answer
  <2>1. Stopped'
    BY <1>1, <1>7 DEF Answer, Stopped
  <2> QED
    BY <1>2, <1>7, <2>1, OnlyThePhase DEF Answer
<1>8. CASE ArchExpire
  <2>1. Stopped'
    BY <1>1, <1>8 DEF ArchExpire, Stopped
  <2> QED
    BY <1>2, <1>8, <2>1, OnlyThePhase DEF ArchExpire
<1> QED
  BY <1>3, <1>4, <1>5, <1>6, <1>7, <1>8

\* The walk of detectLanguage meets an entry.
LEMMA Meets ==
  ASSUME IInv, NEW entry \in Entries, Meet(entry)
  PROVE  IInv'
<1>1. ArchTypeOK /\ Shapes /\ Walking /\ GraphAgreesWithEdges
  BY DEF IInv
<1>2. /\ phase = "detect" /\ phase' = phase /\ tree' = Append(tree, entry) /\ Len(tree) < MaxEntries
      /\ UNCHANGED <<rules, overdue, lang, pos, edges, graph, violations, truncated>>
  BY DEF Meet
<1>3. pos = 1 /\ edges = <<>> /\ tree \in Seq(Entries) /\ MaxEntries \in Nat
  BY <1>1, <1>2, EntriesAssumption DEF Walking, Shapes
<1>4. /\ tree' \in Seq(Entries) /\ Len(tree') = Len(tree) + 1 /\ Len(tree) \in Nat
      /\ \A i \in 1..Len(tree) : tree'[i] = tree[i]
  BY <1>2, <1>3, AppendProperties, LenProperties
<1>5. DOMAIN tree' = 1..Len(tree') /\ DOMAIN tree = 1..Len(tree) /\ DOMAIN edges = {}
  BY <1>3, <1>4, LenProperties
<1>6. DOMAIN tree \subseteq DOMAIN tree'
  BY <1>4, <1>5
<1>7. ArchTypeOK'
  <2>1. Range(tree') \subseteq Entries
    BY <1>4, <1>5 DEF Range
  <2>2. Len(tree') <= MaxEntries
    BY <1>2, <1>3, <1>4
  <2>3. \A p \in DOMAIN graph' : \E i \in DOMAIN tree' : Package(tree'[i]) = p
    <3> SUFFICES ASSUME NEW p \in DOMAIN graph
                 PROVE  \E i \in DOMAIN tree' : Package(tree'[i]) = p
      BY <1>2
    <3>1. PICK i \in DOMAIN tree : Package(tree[i]) = p
      BY <1>1 DEF ArchTypeOK
    <3>2. i \in DOMAIN tree' /\ tree'[i] = tree[i]
      BY <1>4, <1>5, <1>6
    <3> QED
      BY <3>1, <3>2
  <2>4. \A k \in DOMAIN edges' : edges'[k].file \in DOMAIN tree'
    BY <1>2, <1>5
  <2>5. /\ rules' \in {DefaultRules} \cup RuleFiles
        /\ overdue' \in BOOLEAN /\ truncated' \in BOOLEAN
        /\ phase' \in {"detect", "walk", "walked", "judged", "answered", "failed"}
        /\ lang' \in Languages
        /\ pos' \in 1..MaxEntries+1
        /\ \A k \in DOMAIN violations' : violations'[k][2] \in DOMAIN rules'
    BY <1>1, <1>2 DEF ArchTypeOK
  <2> QED
    BY <2>1, <2>2, <2>3, <2>4, <2>5 DEF ArchTypeOK
<1>8. Shapes'
  BY <1>1, <1>2, <1>4 DEF Shapes
<1>9. Walking'
  BY <1>2, <1>3, <1>4 DEF Walking
<1>10. Gathered' /\ Stopped' /\ Judged'
  BY <1>2 DEF Gathered, Stopped, Judged
<1>11. GraphAgreesWithEdges'
  BY <1>1, <1>2 DEF GraphAgreesWithEdges
<1> QED
  BY <1>7, <1>8, <1>9, <1>10, <1>11 DEF IInv

\* The language has been detected.
LEMMA Detects ==
  ASSUME IInv, Detect
  PROVE  IInv'
<1>1. ArchTypeOK /\ Shapes /\ Walking /\ GraphAgreesWithEdges
  BY DEF IInv
<1>2. /\ phase = "detect" /\ phase' = "walk" /\ lang' = Dominant
      /\ UNCHANGED <<rules, tree, overdue, pos, edges, graph, violations, truncated>>
  BY DEF Detect
<1>3. pos = 1 /\ edges = <<>> /\ lang' \in Languages
  BY <1>1, <1>2, DominantIsLanguage DEF Walking, Shapes
<1>4. ArchTypeOK'
  BY <1>1, <1>2, <1>3 DEF ArchTypeOK
<1>5. Shapes' /\ Walking' /\ Stopped' /\ Judged'
  BY <1>1, <1>2 DEF Shapes, Walking, Stopped, Judged
<1>6. Gathered'
  <2> DEFINE part == [i \in 1..pos-1 |-> EdgesOf(i)]'
  <2>1. part \in [{} -> {}]
    BY <1>2, <1>3
  <2> HIDE DEF part
  <2>2. FlattenSeq(part) = <<>>
    BY <2>1, FlattenNothing
  <2> QED
    BY <1>2, <1>3, <2>2 DEF Gathered, part
<1>7. GraphAgreesWithEdges'
  BY <1>1, <1>2 DEF GraphAgreesWithEdges
<1> QED
  BY <1>4, <1>5, <1>6, <1>7 DEF IInv

\* An entry more that the walk is past.
LEMMA OneMorePart ==
  ASSUME Shapes, Walking, pos <= Len(tree)
  PROVE  /\ pos + 1 \in 1..Len(tree)+1
         /\ FlattenSeq([i \in 1..pos |-> EdgesOf(i)])
              = FlattenSeq([i \in 1..pos-1 |-> EdgesOf(i)]) \o EdgesOf(pos)
<1>1. pos \in 1..Len(tree) /\ Len(tree) \in Nat /\ tree \in Seq(Entries)
  BY LenProperties DEF Shapes, Walking
<1> DEFINE part == [i \in 1..pos |-> EdgesOf(i)]
           first == [i \in 1..pos-1 |-> part[i]]
<1>2. part \in [1..pos -> Seq(Edges)]
  <2>1. \A i \in 1..pos : EdgesOf(i) \in Seq(Edges)
    BY <1>1, EdgesOfType
  <2> QED
    BY <2>1
<1>3. part[pos] = EdgesOf(pos) /\ first = [i \in 1..pos-1 |-> EdgesOf(i)]
  BY <1>1
<1> HIDE DEF part
<1>4. pos \in Nat /\ pos - 1 \in 0..pos
  BY <1>1
<1>5. FlattenSeq(part) = FlattenSeq([i \in 1..pos-1 |-> part[i]]) \o part[pos]
  BY <1>2, <1>4, FlattenParts, Zenon
<1>6. pos + 1 \in 1..Len(tree)+1
  BY <1>1
<1> QED
  BY <1>3, <1>5, <1>6 DEF part

\* The walk passes an entry over.
LEMMA Passes ==
  ASSUME IInv, Pass
  PROVE  IInv'
<1>1. ArchTypeOK /\ Shapes /\ Walking /\ Gathered
  BY DEF IInv
<1>2. /\ phase = "walk" /\ phase' = phase /\ pos <= Len(tree) /\ pos' = pos + 1
      /\ UNCHANGED <<rules, tree, overdue, lang, edges, graph, violations, truncated>>
  BY DEF Pass, Visiting
<1>3. EdgesOf(pos) = <<>>
  BY DEF Pass, EdgesOf
<1>4. /\ pos + 1 \in 1..Len(tree)+1
      /\ FlattenSeq([i \in 1..pos |-> EdgesOf(i)])
           = FlattenSeq([i \in 1..pos-1 |-> EdgesOf(i)]) \o EdgesOf(pos)
  BY <1>1, <1>2, OneMorePart
<1>5. pos \in Nat /\ (pos + 1) - 1 = pos /\ pos + 1 \in 1..MaxEntries+1
  <2>1. Len(tree) \in Nat /\ Len(tree) <= MaxEntries /\ MaxEntries \in Nat
    BY <1>1, EntriesAssumption, LenProperties DEF Shapes, ArchTypeOK
  <2>2. pos \in Nat
    BY <1>1, <2>1 DEF Walking
  <2> QED
    BY <1>4, <2>1, <2>2
<1>6. ArchTypeOK'
  <2>1. /\ overdue' \in BOOLEAN /\ truncated' \in BOOLEAN
        /\ phase' \in {"detect", "walk", "walked", "judged", "answered", "failed"}
        /\ \A k \in DOMAIN violations' : violations'[k][2] \in DOMAIN rules'
    BY <1>1, <1>2 DEF ArchTypeOK
  <2>2. pos' \in 1..MaxEntries+1
    BY <1>2, <1>5
  <2> QED
    BY <1>2, <2>1, <2>2, NothingGathered DEF ArchTypeOK
<1>7. Walking'
  BY <1>2, <1>4 DEF Walking
<1>8. Gathered'
  <2>1. edges = FlattenSeq([i \in 1..pos-1 |-> EdgesOf(i)])
    BY <1>1, <1>2 DEF Gathered
  <2>2. edges \o <<>> = edges
    BY <1>1, ConcatEmptySeq DEF Shapes
  <2>3. edges = FlattenSeq([i \in 1..pos |-> EdgesOf(i)])
    BY <1>3, <1>4, <2>1, <2>2, Zenon
  <2>4. \A i : EdgesOf(i)' = EdgesOf(i)
    BY <1>2, SameEdges
  <2>5. edges' = edges /\ pos' - 1 = pos
    BY <1>2, <1>5
  <2> QED
    BY <2>3, <2>4, <2>5 DEF Gathered
<1>9. Stopped' /\ Judged'
  BY <1>2 DEF Stopped, Judged
<1> QED
  BY <1>2, <1>6, <1>7, <1>8, <1>9, NothingGathered DEF IInv

\* The walk parses a file.
LEMMA Parses ==
  ASSUME IInv, Parse
  PROVE  IInv'
<1> DEFINE found == Extract(lang, pos)
           package == Package(tree[pos])
<1>1. ArchTypeOK /\ Shapes /\ Walking /\ Gathered /\ GraphAgreesWithEdges
  BY DEF IInv
<1>2. /\ phase = "walk" /\ phase' = phase /\ pos <= Len(tree) /\ pos' = pos + 1
      /\ UNCHANGED <<rules, tree, overdue, lang, violations, truncated>>
      /\ edges' = edges \o found
      /\ graph' = AddTo(graph, package, [k \in DOMAIN found |-> found[k].import])
  BY DEF Parse, Visiting
<1>3. EdgesOf(pos) = found
  BY DEF Parse, EdgesOf
<1>4. /\ pos + 1 \in 1..Len(tree)+1
      /\ FlattenSeq([i \in 1..pos |-> EdgesOf(i)])
           = FlattenSeq([i \in 1..pos-1 |-> EdgesOf(i)]) \o EdgesOf(pos)
  BY <1>1, <1>2, OneMorePart
<1>5. /\ pos \in Nat /\ (pos + 1) - 1 = pos /\ pos + 1 \in 1..MaxEntries+1
      /\ pos \in DOMAIN tree
  <2>1. Len(tree) \in Nat /\ Len(tree) <= MaxEntries /\ MaxEntries \in Nat /\ DOMAIN tree = 1..Len(tree)
    BY <1>1, EntriesAssumption, LenProperties DEF Shapes, ArchTypeOK
  <2>2. pos \in Nat
    BY <1>1, <2>1 DEF Walking
  <2> QED
    BY <1>1, <1>2, <1>4, <2>1, <2>2 DEF Walking
<1>6. package \in Paths /\ found \in Seq(EdgesFrom(pos, package))
  <2>1. tree[pos] \in Entries
    BY <1>1, <1>5 DEF Shapes
  <2> QED
    BY <1>5, <2>1, ExtractType
<1> HIDE DEF found, package
<1>7. Agree(graph, edges) /\ edges \in Seq(Edges) /\ Lists(graph)
  BY <1>1 DEF Agree, GraphAgreesWithEdges, ImportsOf, Shapes, Lists
<1>8. /\ DOMAIN graph' = DOMAIN graph \cup {package}
      /\ Lists(graph')
      /\ Agree(graph', edges \o found)
  <2>1. graph' = AddTo(graph, package, ImportsIn(found))
    BY <1>2 DEF ImportsIn
  <2> QED
    BY <1>6, <1>7, <2>1, AddToAgrees, Zenon
<1>9. GraphAgreesWithEdges'
  <2>1. Agree(graph', edges')
    BY <1>2, <1>8
  <2> QED
    BY <2>1 DEF Agree, GraphAgreesWithEdges, ImportsOf
<1>10. found \in Seq(Edges) /\ \A k \in DOMAIN found : found[k].file = pos
  <2>1. DOMAIN found = 1..Len(found)
    BY <1>6, LenProperties
  <2>2. \A k \in DOMAIN found : found[k] \in EdgesFrom(pos, package)
    BY <1>6, <2>1
  <2> QED
    BY <1>6, <2>2 DEF EdgesFrom
<1>11. edges' \in Seq(Edges) /\ \A k \in DOMAIN edges' : edges'[k].file \in DOMAIN tree
  <2> DEFINE cs == edges \o found
  <2>1. /\ cs \in Seq(Edges) /\ Len(cs) = Len(edges) + Len(found)
        /\ Len(edges) \in Nat /\ Len(found) \in Nat
        /\ \A n \in 1..Len(edges) : cs[n] = edges[n]
        /\ \A n \in 1..Len(found) : cs[Len(edges) + n] = found[n]
    BY <1>7, <1>10, ConcatProperties, LenProperties
  <2>2. DOMAIN cs = 1..Len(cs) /\ DOMAIN edges = 1..Len(edges) /\ DOMAIN found = 1..Len(found)
    BY <1>7, <1>10, <2>1, LenProperties
  <2> HIDE DEF cs
  <2>3. \A k \in DOMAIN edges : edges[k].file \in DOMAIN tree
    BY <1>1 DEF ArchTypeOK
  <2>4. ASSUME NEW k \in DOMAIN cs
        PROVE  cs[k].file \in DOMAIN tree
    <3>1. CASE k <= Len(edges)
      <4>1. k \in DOMAIN edges /\ cs[k] = edges[k]
        BY <2>1, <2>2, <3>1
      <4> QED
        BY <2>3, <4>1
    <3>2. CASE ~(k <= Len(edges))
      <4>1. k - Len(edges) \in DOMAIN found /\ Len(edges) + (k - Len(edges)) = k
        BY <2>1, <2>2, <3>2
      <4>2. cs[k] = found[k - Len(edges)]
        BY <2>1, <2>2, <4>1
      <4> QED
        BY <1>5, <1>10, <4>1, <4>2
    <3> QED
      BY <3>1, <3>2
  <2> QED
    BY <1>2, <2>1, <2>4 DEF cs
<1>12. \A p \in DOMAIN graph' : \E i \in DOMAIN tree : Package(tree[i]) = p
  <2>1. \A p \in DOMAIN graph : \E i \in DOMAIN tree : Package(tree[i]) = p
    BY <1>1 DEF ArchTypeOK
  <2> QED
    BY <1>5, <1>8, <2>1 DEF package
<1>13. ArchTypeOK'
  <2>1. /\ rules' \in {DefaultRules} \cup RuleFiles
        /\ Range(tree') \subseteq Entries /\ Len(tree') <= MaxEntries
        /\ overdue' \in BOOLEAN /\ truncated' \in BOOLEAN
        /\ phase' \in {"detect", "walk", "walked", "judged", "answered", "failed"}
        /\ lang' \in Languages
        /\ \A k \in DOMAIN violations' : violations'[k][2] \in DOMAIN rules'
    BY <1>1, <1>2 DEF ArchTypeOK
  <2>2. pos' \in 1..MaxEntries+1
    BY <1>2, <1>5
  <2>3. tree' = tree
    BY <1>2
  <2>4. \A k \in DOMAIN edges' : edges'[k].file \in DOMAIN tree'
    BY <1>11, <2>3
  <2>5. \A p \in DOMAIN graph' : \E i \in DOMAIN tree' : Package(tree'[i]) = p
    BY <1>12, <2>3
  <2> QED
    BY <2>1, <2>2, <2>4, <2>5 DEF ArchTypeOK
<1>14. Shapes'
  BY <1>1, <1>2, <1>8, <1>11 DEF Shapes, Lists
<1>15. Walking'
  BY <1>2, <1>4 DEF Walking
<1>16. Gathered'
  <2>1. edges = FlattenSeq([i \in 1..pos-1 |-> EdgesOf(i)])
    BY <1>1, <1>2 DEF Gathered
  <2>2. edges' = FlattenSeq([i \in 1..pos |-> EdgesOf(i)])
    BY <1>2, <1>3, <1>4, <2>1, Zenon
  <2>3. \A i : EdgesOf(i)' = EdgesOf(i)
    BY <1>2, SameEdges
  <2>4. pos' - 1 = pos
    BY <1>2, <1>5
  <2> QED
    BY <2>2, <2>3, <2>4 DEF Gathered
<1>17. Stopped' /\ Judged'
  BY <1>2 DEF Stopped, Judged
<1> QED
  BY <1>9, <1>13, <1>14, <1>15, <1>16, <1>17 DEF IInv

\* A rule applies to an edge exactly if it speaks of it.
Speaks(i, edge) == Denotes(rules[i].from, edge.pkg) /\ Denotes(rules[i].to, edge.import)

\* The rules that hit an edge are those that speak of it, and if there are any there is a
\* first one.
LEMMA HitsSpeak ==
  ASSUME rules \in Seq(Rules), NEW edge \in Edges
  PROVE  /\ Hits(edge) = {i \in 1..Len(rules) : Speaks(i, edge)}
         /\ Hits(edge) \subseteq 1..Len(rules)
         /\ Hits(edge) # {} => /\ Min(Hits(edge)) \in Hits(edge)
                               /\ \A i \in Hits(edge) : Min(Hits(edge)) <= i
<1>1. DOMAIN rules = 1..Len(rules) /\ Len(rules) \in Nat
  BY LenProperties
<1>2. ASSUME NEW i \in 1..Len(rules)
      PROVE  Applies(rules[i], edge) <=> Speaks(i, edge)
  <2>1. rules[i] \in Rules
    BY <1>1
  <2>2. /\ rules[i].from \in Seq(Seq(Names)) /\ rules[i].to \in Seq(Seq(Names))
        /\ edge.pkg \in Seq(Seq(Names)) /\ edge.import \in Seq(Seq(Names))
    BY <2>1 DEF Rules, Edges, Paths
  <2>3. Matches(rules[i].from, edge.pkg) <=> Denotes(rules[i].from, edge.pkg)
    BY <2>2, MatchesIsDenotes, Zenon
  <2>4. Matches(rules[i].to, edge.import) <=> Denotes(rules[i].to, edge.import)
    BY <2>2, MatchesIsDenotes, Zenon
  <2> QED
    BY <2>3, <2>4 DEF Applies, Speaks
<1>3. Hits(edge) = {i \in 1..Len(rules) : Speaks(i, edge)}
  BY <1>1, <1>2 DEF Hits
<1> DEFINE H == Hits(edge)
<1>4. H \subseteq 1..Len(rules)
  BY <1>3
<1> HIDE DEF H
<1>5. H \subseteq Nat
  BY <1>4
<1>6. H # {} => Min(H) \in H /\ \A i \in H : Min(H) <= i
  BY <1>5, MinIsLeast
<1> QED
  BY <1>3, <1>4, <1>6 DEF H

\* Every violation names a rule.
LEMMA ReportsNameRules ==
  ASSUME rules \in Seq(Rules), edges \in Seq(Edges), NEW k \in DOMAIN Evaluate(edges)
  PROVE  Evaluate(edges)[k][2] \in DOMAIN rules
<1> DEFINE answer == Evaluate(edges)
           D == DeniedIn(edges)
<1>1. ToSet(answer) = {Report(edges[n]) : n \in D}
  BY EvaluateReports
<1>2. answer[k] \in ToSet(answer)
  BY DEF ToSet
<1>3. PICK n \in D : answer[k] = Report(edges[n])
  BY <1>1, <1>2
<1>4. edges[n] \in Edges /\ Hits(edges[n]) # {}
  BY LenProperties DEF DeniedIn, Denied
<1>5. Min(Hits(edges[n])) \in 1..Len(rules)
  BY <1>4, HitsSpeak
<1>6. answer[k][2] = Min(Hits(edges[n]))
  BY <1>3 DEF Report
<1> QED
  BY <1>5, <1>6, LenProperties

\* The edges are judged.
LEMMA Judges ==
  ASSUME IInv, Judge
  PROVE  IInv'
<1>1. ArchTypeOK /\ Shapes /\ Walking /\ Gathered /\ Stopped
  BY DEF IInv
<1>2. /\ phase = "walked" /\ phase' = "judged" /\ violations' = Evaluate(edges)
      /\ UNCHANGED <<rules, tree, overdue, lang, pos, edges, graph, truncated>>
  BY DEF Judge
<1>3. \A k \in DOMAIN violations' : violations'[k][2] \in DOMAIN rules'
  BY <1>1, <1>2, ReportsNameRules DEF Shapes
<1>4. ArchTypeOK'
  <2>1. pos' \in 1..MaxEntries+1 /\ overdue' \in BOOLEAN /\ truncated' \in BOOLEAN
    BY <1>1, <1>2 DEF ArchTypeOK
  <2>2. phase' \in {"detect", "walk", "walked", "judged", "answered", "failed"}
    BY <1>2
  <2> QED
    BY <1>2, <1>3, <2>1, <2>2, NothingGathered DEF ArchTypeOK
<1>5. Walking' /\ Stopped'
  BY <1>1, <1>2 DEF Walking, Stopped
<1>6. Gathered'
  <2>1. edges = FlattenSeq([i \in 1..pos-1 |-> EdgesOf(i)])
    BY <1>1, <1>2 DEF Gathered
  <2>2. \A i : EdgesOf(i)' = EdgesOf(i)
    BY <1>2, SameEdges
  <2> QED
    BY <1>2, <2>1, <2>2 DEF Gathered
<1>7. Judged'
  <2>1. Evaluate(edges)' = Evaluate(edges)
    BY <1>2, SameJudgement
  <2> QED
    BY <1>2, <2>1 DEF Judged
<1> QED
  BY <1>2, <1>4, <1>5, <1>6, <1>7, NothingGathered DEF IInv

\* The invariant holds in every state of an analysis.
THEOREM Invariance == ArchSpec => []IInv
<1>1. IInv /\ [ArchNext]_archVars => IInv'
  <2> SUFFICES ASSUME IInv, [ArchNext]_archVars
               PROVE  IInv'
    OBVIOUS
  <2>1. ASSUME NEW entry \in Entries, Meet(entry)
        PROVE  IInv'
    BY <2>1, Meets
  <2>2. CASE Detect
    BY <2>2, Detects
  <2>3. CASE Pass
    BY <2>3, Passes
  <2>4. CASE Parse
    BY <2>4, Parses
  <2>5. CASE Judge
    BY <2>5, Judges
  <2>6. CASE LoadRulesFails \/ Cut \/ WalkFails \/ Walked \/ Answer \/ ArchExpire
    BY <2>6, EndsAndTimeouts
  <2>7. CASE UNCHANGED archVars
    <3>1. IInv /\ UNCHANGED archVars
      BY <2>7
    <3>2. ArchTypeOK' /\ Shapes' /\ Walking' /\ Stopped' /\ GraphAgreesWithEdges'
      BY <3>1 DEF IInv, archVars, ArchTypeOK, Shapes, Walking, Stopped, GraphAgreesWithEdges
    <3>3. \A i : EdgesOf(i)' = EdgesOf(i)
      BY <3>1, SameEdges DEF archVars
    <3>4. Evaluate(edges)' = Evaluate(edges)
      BY <3>1, SameJudgement DEF archVars
    <3>5. Gathered' /\ Judged'
      BY <3>1, <3>3, <3>4 DEF IInv, archVars, Gathered, Judged
    <3> QED
      BY <3>2, <3>5 DEF IInv
  <2> QED
    BY <2>1, <2>2, <2>3, <2>4, <2>5, <2>6, <2>7 DEF ArchNext
<1> QED
  BY <1>1, Initially, PTL DEF ArchSpec

-----------------------------------------------------------------------------
(* What follows.                                                           *)

\* The variables keep their types: every edge is of an entry that was met, every package
\* of the graph has a file, and every violation names a rule that is in force.
THEOREM TypeCorrect == ArchSpec => []ArchTypeOK
<1>1. IInv => ArchTypeOK
  BY DEF IInv
<1> QED
  BY <1>1, Invariance, PTL

\* The import graph agrees with the edges, whenever the walk stops.
THEOREM GraphAgrees == ArchSpec => []GraphAgreesWithEdges
<1>1. IInv => GraphAgreesWithEdges
  BY DEF IInv
<1> QED
  BY <1>1, Invariance, PTL

\* An answer rests on all imports of the directory, or says that it may not: then the
\* imports are a prefix of all of them.
THEOREM AnswersAreComplete == ArchSpec => []CompleteUnlessTruncated
<1>1. IInv => CompleteUnlessTruncated
  <2> SUFFICES ASSUME IInv, phase = "answered"
               PROVE  IsPrefix(edges, AllEdges) /\ (edges = AllEdges \/ truncated)
    BY DEF CompleteUnlessTruncated
  <2>1. Shapes /\ Walking /\ Gathered /\ Stopped
    BY DEF IInv
  <2> DEFINE N == Len(tree)
             part == [i \in 1..N |-> EdgesOf(i)]
             first == [i \in 1..pos-1 |-> part[i]]
  <2>2. tree \in Seq(Entries) /\ N \in Nat /\ DOMAIN tree = 1..N /\ pos \in 1..N+1
    BY <2>1, LenProperties DEF Shapes, Walking
  <2>3. part \in [1..N -> Seq(Edges)]
    <3>1. \A i \in 1..N : EdgesOf(i) \in Seq(Edges)
      BY <2>2, EdgesOfType
    <3> QED
      BY <3>1
  <2>4. AllEdges = FlattenSeq(part)
    BY <2>2 DEF AllEdges
  <2>5. pos - 1 \in 0..N /\ 1..pos-1 \subseteq 1..N
    BY <2>2
  <2>6. edges = FlattenSeq(first)
    <3>1. first = [i \in 1..pos-1 |-> EdgesOf(i)]
      BY <2>5
    <3>2. edges = FlattenSeq([i \in 1..pos-1 |-> EdgesOf(i)])
      BY <2>1 DEF Gathered
    <3> HIDE DEF first
    <3> QED
      BY <3>1, <3>2
  <2> HIDE DEF part
  <2>7. IsPrefix(FlattenSeq(first), FlattenSeq(part))
    BY <2>2, <2>3, <2>5, FlattenParts, Zenon
  <2>8. edges = AllEdges \/ truncated
    <3>1. CASE truncated
      BY <3>1
    <3>2. CASE pos = N + 1
      <4>1. pos - 1 = N
        BY <2>2, <3>2
      <4>2. part = [i \in 1..N |-> part[i]]
        BY <2>3
      <4>3. first = part
        BY <4>1, <4>2
      <4> HIDE DEF first
      <4> QED
        BY <2>4, <2>6, <4>3
    <3> QED
      BY <2>1, <3>1, <3>2 DEF Stopped
  <2> HIDE DEF first
  <2> QED
    BY <2>4, <2>6, <2>7, <2>8
<1> QED
  BY <1>1, Invariance, PTL

\* The reports that are due, one for each denied edge.
LEMMA DueReports ==
  ASSUME rules \in Seq(Rules), edges \in Seq(Edges),
         NEW due,
         due = {q \in (DOMAIN edges) \X (DOMAIN rules) :
                   /\ ~rules[q[2]].allow /\ Speaks(q[2], edges[q[1]])
                   /\ \A j \in 1..q[2]-1 : ~Speaks(j, edges[q[1]])}
  PROVE  /\ {<<edges[q[1]], q[2]>> : q \in due} = {Report(edges[k]) : k \in DeniedIn(edges)}
         /\ Cardinality(due) = Cardinality(DeniedIn(edges))
<1> DEFINE D == DeniedIn(edges)
           At(k) == Min(Hits(edges[k]))
<1>1. /\ DOMAIN edges = 1..Len(edges) /\ DOMAIN rules = 1..Len(rules)
      /\ Len(edges) \in Nat /\ Len(rules) \in Nat
  BY LenProperties
<1>2. D = {k \in 1..Len(edges) : Denied(edges[k])}
  BY DEF DeniedIn
<1>3. ASSUME NEW k \in 1..Len(edges), NEW i \in 1..Len(rules)
      PROVE  <<k, i>> \in due <=> k \in D /\ i = At(k)
  <2> DEFINE H == Hits(edges[k])
  <2>1. edges[k] \in Edges
    BY <1>1
  <2>2. /\ H = {j \in 1..Len(rules) : Speaks(j, edges[k])}
        /\ H \subseteq 1..Len(rules)
        /\ H # {} => Min(H) \in H /\ \A j \in H : Min(H) <= j
    BY <2>1, HitsSpeak
  <2>3. k \in D <=> H # {} /\ ~rules[Min(H)].allow
    BY <1>2 DEF Denied
  <2>4. <<k, i>> \in due <=> /\ ~rules[i].allow /\ Speaks(i, edges[k])
                             /\ \A j \in 1..i-1 : ~Speaks(j, edges[k])
    BY <1>1
  <2> HIDE DEF H
  <2>5. ASSUME Speaks(i, edges[k]), \A j \in 1..i-1 : ~Speaks(j, edges[k])
        PROVE  H # {} /\ i = Min(H)
    <3>1. i \in H /\ H # {}
      BY <2>2, <2>5
    <3>2. Min(H) \in H /\ Min(H) <= i /\ Min(H) \in 1..Len(rules)
      BY <2>2, <3>1
    <3>3. Min(H) \notin 1..i-1
      BY <2>2, <2>5, <3>2
    <3> QED
      BY <1>1, <3>1, <3>2, <3>3
  <2>6. ASSUME H # {}, i = Min(H)
        PROVE  Speaks(i, edges[k]) /\ \A j \in 1..i-1 : ~Speaks(j, edges[k])
    <3>1. i \in H /\ \A j \in H : i <= j
      BY <2>2, <2>6
    <3>2. Speaks(i, edges[k])
      BY <2>2, <3>1
    <3>3. ASSUME NEW j \in 1..i-1
          PROVE  ~Speaks(j, edges[k])
      <4>1. j \in 1..Len(rules) /\ ~(i <= j)
        BY <1>1
      <4> QED
        BY <2>2, <3>1, <4>1
    <3> QED
      BY <3>2, <3>3
  <2>7. k \in D /\ i = Min(H) <=> H # {} /\ ~rules[i].allow /\ i = Min(H)
    BY <2>3
  <2>8. <<k, i>> \in due <=> k \in D /\ i = Min(H)
    BY <2>4, <2>5, <2>6, <2>7
  <2> QED
    BY <2>8 DEF H
<1>4. ASSUME NEW k \in D
      PROVE  k \in 1..Len(edges) /\ At(k) \in 1..Len(rules) /\ <<k, At(k)>> \in due
  <2>1. k \in 1..Len(edges) /\ edges[k] \in Edges /\ Hits(edges[k]) # {}
    BY <1>1, <1>2 DEF Denied
  <2>2. At(k) \in 1..Len(rules)
    BY <2>1, HitsSpeak
  <2> QED
    BY <1>3, <2>1, <2>2
<1>5. ASSUME NEW q \in due
      PROVE  q = <<q[1], At(q[1])>> /\ q[1] \in D /\ q[2] = At(q[1])
  <2>1. q \in (1..Len(edges)) \X (1..Len(rules))
    BY <1>1
  <2>2. q[1] \in 1..Len(edges) /\ q[2] \in 1..Len(rules) /\ q = <<q[1], q[2]>>
    BY <2>1
  <2>3. <<q[1], q[2]>> \in due
    BY <2>2
  <2>4. q[1] \in D /\ q[2] = At(q[1])
    BY <1>3, <2>2, <2>3
  <2> QED
    BY <2>2, <2>4
<1> HIDE DEF D
<1>6. \A k : Report(edges[k]) = <<edges[k], At(k)>>
  BY DEF Report
<1> HIDE DEF At
<1>7. {<<edges[q[1]], q[2]>> : q \in due} \subseteq {Report(edges[k]) : k \in D}
  <2> SUFFICES ASSUME NEW q \in due
               PROVE  \E k \in D : <<edges[q[1]], q[2]>> = Report(edges[k])
    BY Zenon
  <2>1. q[1] \in D /\ q[2] = At(q[1])
    BY <1>5
  <2> QED
    BY <1>6, <2>1, Zenon
<1>8. {Report(edges[k]) : k \in D} \subseteq {<<edges[q[1]], q[2]>> : q \in due}
  <2> SUFFICES ASSUME NEW k \in D
               PROVE  \E q \in due : Report(edges[k]) = <<edges[q[1]], q[2]>>
    OBVIOUS
  <2> DEFINE q == <<k, At(k)>>
  <2>1. q \in due /\ q[1] = k /\ q[2] = At(k)
    BY <1>4
  <2> HIDE DEF q
  <2> QED
    BY <1>6, <2>1, Zenon
<1>9. Cardinality(due) = Cardinality(D)
  <2> DEFINE b == [k \in D |-> <<k, At(k)>>]
  <2>1. b \in [D -> due]
    BY <1>4
  <2>2. \A k, n \in D : b[k] = b[n] => k = n
    OBVIOUS
  <2>3. \A q \in due : \E k \in D : b[k] = q
    BY <1>5
  <2>4. IsFiniteSet(D)
    <3>1. IsFiniteSet(1..Len(edges))
      BY <1>1, FS_Interval
    <3> QED
      BY <1>2, <3>1, FS_Subset
  <2> HIDE DEF b
  <2>5. b \in Bijection(D, due)
    BY <2>1, <2>2, <2>3 DEF Bijection, Injection, Surjection, IsInjective
  <2>6. ExistsBijection(D, due)
    BY <2>5 DEF ExistsBijection
  <2> QED
    BY <2>4, <2>6, FS_Bijection
<1> QED
  BY <1>7, <1>8, <1>9 DEF D

\* The violations are the edges that the rules deny, each with the rule that does.
THEOREM ViolationsAreRight == ArchSpec => []ViolationsFollowRules
<1>1. IInv => ViolationsFollowRules
  <2> SUFFICES ASSUME IInv, phase \in {"judged", "answered"}
               PROVE  ViolationsFollowRules
    BY DEF ViolationsFollowRules
  <2>1. rules \in Seq(Rules) /\ edges \in Seq(Edges) /\ violations = Evaluate(edges)
    BY DEF IInv, Shapes, Judged
  <2> DEFINE due == {q \in (DOMAIN edges) \X (DOMAIN rules) :
                        /\ ~rules[q[2]].allow /\ Speaks(q[2], edges[q[1]])
                        /\ \A j \in 1..q[2]-1 : ~Speaks(j, edges[q[1]])}
  <2>2. /\ {<<edges[q[1]], q[2]>> : q \in due} = {Report(edges[k]) : k \in DeniedIn(edges)}
        /\ Cardinality(due) = Cardinality(DeniedIn(edges))
    BY <2>1, DueReports
  <2>3. /\ ToSet(violations) = {Report(edges[k]) : k \in DeniedIn(edges)}
        /\ Len(violations) = Cardinality(DeniedIn(edges))
    BY <2>1, EvaluateReports
  <2>4. Range(violations) = ToSet(violations)
    BY DEF ToSet, Range
  <2>5. /\ Range(violations) = {<<edges[q[1]], q[2]>> : q \in due}
        /\ Len(violations) = Cardinality(due)
    BY <2>2, <2>3, <2>4
  <2> QED
    BY <2>5 DEF ViolationsFollowRules, Speaks
<1> QED
  BY <1>1, Invariance, PTL

=============================================================================
