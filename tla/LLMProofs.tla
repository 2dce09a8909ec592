-------------------------------- MODULE LLMProofs -------------------------------
(***************************************************************************)
(* The safety properties of internal/llm: of the prompt cache, which is    *)
(* shown to implement BoundedCache, for any callers, prompts and texts and *)
(* any capacity; and of the circuit breaker that it asks on a miss, for    *)
(* any clients, threshold and cooldown.                                    *)
(***************************************************************************)
EXTENDS PromptCache, CircuitBreaker, SequenceLemmas

-----------------------------------------------------------------------------
(* The inductive invariant of the cache.                                   *)

\* A map, a list and the contents of the entries that describe the same cache.
Consistent(map, list, contents) ==
    /\ map \in [Keys -> EntryIds \cup {NoEntry}]
    /\ list \in Seq(EntryIds)
    /\ Len(list) <= Capacity
    /\ IsInjective(list)
    /\ contents \in [EntryIds -> Entries \cup {Unused}]
    /\ \A e \in ToSet(list) :
          /\ contents[e] \in Entries
          /\ contents[e].response.of = contents[e].key
          /\ map[contents[e].key] = e
    /\ \A k \in Keys : map[k] # NoEntry => map[k] \in ToSet(list) /\ contents[map[k]].key = k

\* The entry a hit still has to read keeps its key, and has a response that has been
\* cached for that key since the hit.
Readable ==
    \A c \in Finding :
        /\ entry[call[c].entry] \in Entries
        /\ entry[call[c].entry].key = call[c].key
        /\ entry[call[c].entry].response \in seen[c]

\* What the backend has answered is an answer to the prompt it was asked.
Answered == \A c \in Callers : call[c].at = "storing" => call[c].response.of = call[c].key

\* The list is in the order in which the keys were used.
Aligned ==
    /\ Len(used) = Len(evictList)
    /\ \A i \in 1..Len(evictList) : used[i] = entry[evictList[i]].key

IInv ==
    /\ TypeOK
    /\ Consistent(items, evictList, entry)
    /\ Readable
    /\ Answered
    /\ Aligned

-----------------------------------------------------------------------------
(* Lists in the order of use.                                              *)

\* Where an element of a list is, and what is not in it would be.
LEMMA PositionIn ==
  ASSUME NEW S, NEW list \in Seq(S), NEW x
  PROVE  /\ Position(list, x) \in 1..(Len(list) + 1)
         /\ x \in ToSet(list) => Position(list, x) <= Len(list) /\ list[Position(list, x)] = x
         /\ x \notin ToSet(list) => Position(list, x) = Len(list) + 1
<1>1. Len(list) \in Nat /\ DOMAIN list = 1..Len(list)
  BY LenProperties
<1>2. CASE x \in ToSet(list)
  <2>1. \E i \in DOMAIN list : list[i] = x
    BY <1>2 DEF ToSet
  <2>2. /\ (CHOOSE i \in DOMAIN list : list[i] = x) \in DOMAIN list
        /\ list[CHOOSE i \in DOMAIN list : list[i] = x] = x
    BY <2>1
  <2> QED
    BY <1>1, <1>2, <2>2 DEF Position
<1>3. CASE x \notin ToSet(list)
  BY <1>1, <1>3 DEF Position
<1> QED
  BY <1>2, <1>3

\* The list after a use of x, position by position.
LEMMA ToFrontValue ==
  ASSUME NEW S, NEW list \in Seq(S), NEW x \in S
  PROVE  /\ ToFront(list, x) \in Seq(S)
         /\ Len(ToFront(list, x)) = IF x \in ToSet(list) THEN Len(list) ELSE Len(list) + 1
         /\ \A i \in 1..Len(ToFront(list, x)) :
               ToFront(list, x)[i] = IF i = 1 THEN x
                                     ELSE IF i <= Position(list, x) THEN list[i - 1]
                                     ELSE list[i]
<1> DEFINE n == Len(list)
           p == Position(list, x)
           a == SubSeq(list, 1, p - 1)
           b == SubSeq(list, p + 1, n)
           u == <<x>>
<1>1. n \in Nat /\ p \in 1..(n + 1) /\ (x \in ToSet(list) <=> p <= n)
  BY PositionIn, LenProperties
<1>2. \A i \in 1..n : list[i] \in S
  BY ElementOfSeq
<1> HIDE DEF n, p
<1>3. /\ a \in Seq(S)
      /\ Len(a) = p - 1
      /\ \A i \in 1..(p - 1) : a[i] = list[i]
  <2>1. \A i \in 1..(p - 1) : list[i] \in S
    BY <1>1, <1>2
  <2>2. p - 1 \in Int /\ p - 1 >= 0
    BY <1>1
  <2>3. /\ a \in Seq(S)
        /\ Len(a) = IF 1 <= p - 1 THEN p - 1 - 1 + 1 ELSE 0
        /\ \A i \in 1..(p - 1 - 1 + 1) : a[i] = list[1 + i - 1]
    BY <2>1, <2>2, SubSeqProperties
  <2> QED
    BY <2>2, <2>3
<1>4. /\ b \in Seq(S)
      /\ Len(b) = IF p <= n THEN n - p ELSE 0
      /\ \A i \in 1..(n - p) : b[i] = list[p + i]
  <2>1. \A i \in (p + 1)..n : list[i] \in S
    BY <1>1, <1>2
  <2>2. p + 1 \in Int /\ n \in Int
    BY <1>1
  <2>3. /\ b \in Seq(S)
        /\ Len(b) = IF p + 1 <= n THEN n - (p + 1) + 1 ELSE 0
        /\ \A i \in 1..(n - (p + 1) + 1) : b[i] = list[p + 1 + i - 1]
    BY <2>1, <2>2, SubSeqProperties
  <2> QED
    BY <1>1, <2>3
<1>5. ToFront(list, x) = u \o (a \o b)
  BY DEF ToFront, RemoveAt, n, p
<1>6. u \in Seq(S) /\ Len(u) = 1 /\ u[1] = x
  BY ToSetSingleton
<1> HIDE DEF a, b, u
<1>7. /\ a \o b \in Seq(S)
      /\ Len(a \o b) = IF p <= n THEN n - 1 ELSE p - 1
      /\ \A i \in 1..Len(a \o b) : (a \o b)[i] = IF i < p THEN list[i] ELSE list[i + 1]
  <2>1. /\ a \o b \in Seq(S)
        /\ Len(a \o b) = Len(a) + Len(b)
        /\ \A i \in 1..(Len(a) + Len(b)) : (a \o b)[i] = IF i <= Len(a) THEN a[i] ELSE b[i - Len(a)]
    BY <1>3, <1>4, ConcatProperties
  <2>2. ASSUME NEW i \in 1..Len(a \o b)
        PROVE  (a \o b)[i] = IF i < p THEN list[i] ELSE list[i + 1]
    <3>1. CASE i < p
      BY <1>1, <1>3, <2>1, <3>1
    <3>2. CASE i >= p
      <4>1. i - Len(a) \in 1..(n - p) /\ p + (i - Len(a)) = i + 1
        BY <1>1, <1>3, <1>4, <2>1, <3>2
      <4>2. b[i - Len(a)] = list[i + 1]
        BY <1>4, <4>1
      <4> QED
        BY <1>1, <1>3, <1>4, <2>1, <3>2, <4>2
    <3> QED
      BY <1>1, <1>3, <1>4, <2>1, <3>1, <3>2
  <2> QED
    BY <1>1, <1>3, <1>4, <2>1, <2>2
<1>8. /\ u \o (a \o b) \in Seq(S)
      /\ Len(u \o (a \o b)) = 1 + Len(a \o b)
      /\ \A i \in 1..(1 + Len(a \o b)) :
            (u \o (a \o b))[i] = IF i <= 1 THEN u[i] ELSE (a \o b)[i - 1]
  <2> DEFINE c == a \o b
  <2>1. c \in Seq(S) /\ Len(c) \in Nat
    BY <1>7, LenProperties
  <2> HIDE DEF c
  <2>2. /\ u \o c \in Seq(S)
        /\ Len(u \o c) = Len(u) + Len(c)
        /\ \A i \in 1..(Len(u) + Len(c)) : (u \o c)[i] = IF i <= Len(u) THEN u[i] ELSE c[i - Len(u)]
    BY <1>6, <2>1, ConcatProperties
  <2>3. /\ u \o c \in Seq(S)
        /\ Len(u \o c) = 1 + Len(c)
        /\ \A i \in 1..(1 + Len(c)) : (u \o c)[i] = IF i <= 1 THEN u[i] ELSE c[i - 1]
    BY <1>6, <2>2
  <2> QED
    BY <2>3 DEF c
<1>9. Len(u \o (a \o b)) = IF x \in ToSet(list) THEN n ELSE n + 1
  BY <1>1, <1>7, <1>8
<1>10. ASSUME NEW i \in 1..Len(u \o (a \o b))
       PROVE  (u \o (a \o b))[i] = IF i = 1 THEN x ELSE IF i <= p THEN list[i - 1] ELSE list[i]
  <2>1. CASE i = 1
    BY <1>6, <1>8, <2>1
  <2>2. CASE i > 1
    <3>1. i - 1 \in 1..Len(a \o b) /\ (i - 1 < p <=> i <= p) /\ i - 1 + 1 = i
      BY <1>1, <1>7, <1>8, <2>2
    <3>2. (u \o (a \o b))[i] = (a \o b)[i - 1]
      BY <1>1, <1>7, <1>8, <2>2
    <3>3. (a \o b)[i - 1] = IF i <= p THEN list[i - 1] ELSE list[i]
      BY <1>7, <3>1
    <3> QED
      BY <2>2, <3>2, <3>3
  <2> QED
    BY <1>1, <1>7, <1>8, <2>1, <2>2
<1> QED
  BY <1>5, <1>8, <1>9, <1>10 DEF n, p

\* A use of x makes no duplicate and takes nothing away.
LEMMA ToFrontElements ==
  ASSUME NEW S, NEW list \in Seq(S), IsInjective(list), NEW x \in S
  PROVE  IsInjective(ToFront(list, x)) /\ ToSet(ToFront(list, x)) = ToSet(list) \cup {x}
<1> DEFINE n == Len(list)
           p == Position(list, x)
           q == ToFront(list, x)
           from(i) == IF i <= p THEN i - 1 ELSE i
<1>1. /\ n \in Nat
      /\ p \in 1..(n + 1)
      /\ p <= n <=> x \in ToSet(list)
      /\ p <= n => list[p] = x
  BY PositionIn, LenProperties
<1>2. /\ q \in Seq(S)
      /\ Len(q) = IF p <= n THEN n ELSE n + 1
      /\ \A i \in 1..Len(q) : q[i] = IF i = 1 THEN x ELSE list[from(i)]
  <2>1. /\ q \in Seq(S)
        /\ Len(q) = IF x \in ToSet(list) THEN n ELSE n + 1
        /\ \A i \in 1..Len(q) : q[i] = IF i = 1 THEN x
                                       ELSE IF i <= p THEN list[i - 1] ELSE list[i]
    BY ToFrontValue
  <2> QED
    BY <1>1, <2>1
<1>3. \A i, j \in 1..n : list[i] = list[j] => i = j
  BY InjectiveQueue
<1>4. ToSet(list) = {list[i] : i \in 1..n} /\ ToSet(q) = {q[i] : i \in 1..Len(q)}
  BY <1>2, ToSetType
<1> HIDE DEF n, p, q
<1>5. \A i \in 2..Len(q) : from(i) \in 1..n /\ from(i) # p
  BY <1>1, <1>2
<1>6. \A i \in 2..Len(q) : list[from(i)] # x
  <2>1. CASE p <= n
    BY <1>1, <1>3, <1>5, <2>1
  <2>2. CASE p > n
    BY <1>1, <1>4, <1>5, <2>2
  <2> QED
    BY <1>1, <2>1, <2>2
<1>7. \A i, j \in 1..Len(q) : q[i] = q[j] => i = j
  <2> SUFFICES ASSUME NEW i \in 1..Len(q), NEW j \in 1..Len(q), q[i] = q[j], i # 1
               PROVE  i = j
    BY <1>2
  <2>1. i \in 2..Len(q)
    BY <1>1, <1>2
  <2>2. j \in 2..Len(q)
    BY <1>1, <1>2, <1>6, <2>1
  <2>3. from(i) = from(j)
    BY <1>2, <1>3, <1>5, <2>1, <2>2
  <2> QED
    BY <1>1, <1>2, <2>1, <2>2, <2>3
<1>8. \A j \in 1..n : list[j] \in ToSet(q)
  <2> SUFFICES ASSUME NEW j \in 1..n
               PROVE  \E i \in 1..Len(q) : q[i] = list[j]
    BY <1>4
  <2>1. CASE j < p
    <3>1. j + 1 \in 1..Len(q) /\ j + 1 # 1 /\ from(j + 1) = j
      BY <1>1, <1>2, <2>1
    <3> QED
      BY <1>2, <3>1
  <2>2. CASE j = p
    BY <1>1, <1>2, <2>2
  <2>3. CASE j > p
    <3>1. j \in 1..Len(q) /\ j # 1 /\ from(j) = j
      BY <1>1, <1>2, <2>3
    <3> QED
      BY <1>2, <3>1
  <2> QED
    BY <1>1, <2>1, <2>2, <2>3
<1>9. 1 \in 1..Len(q) /\ q[1] = x
  BY <1>1, <1>2
<1>10. ToSet(q) = ToSet(list) \cup {x}
  <2>1. \A i \in 1..Len(q) : q[i] \in ToSet(list) \cup {x}
    <3> SUFFICES ASSUME NEW i \in 1..Len(q), i # 1
                 PROVE  q[i] \in ToSet(list)
      BY <1>9
    <3>1. i \in 2..Len(q) /\ from(i) \in 1..n
      BY <1>1, <1>2, <1>5
    <3> HIDE DEF from
    <3>2. list[from(i)] \in ToSet(list)
      BY <1>4, <3>1
    <3> QED
      BY <1>2, <3>2
  <2> HIDE DEF from
  <2> QED
    BY <1>4, <1>8, <1>9, <2>1
<1>11. IsInjective(q)
  BY <1>2, <1>7, InjectiveQueue
<1> QED
  BY <1>10, <1>11 DEF q

\* A list of keys and a list of entries with these keys stay so when one of the entries,
\* and its key, is used.
LEMMA ToFrontTogether ==
  ASSUME NEW list \in Seq(EntryIds), NEW keys \in Seq(Keys), NEW contents,
         IsInjective(list), IsInjective(keys),
         Len(keys) = Len(list),
         \A i \in 1..Len(list) : keys[i] = contents[list[i]].key,
         NEW e \in ToSet(list), contents[e].key \in Keys
  PROVE  /\ Len(ToFront(keys, contents[e].key)) = Len(list)
         /\ Len(ToFront(list, e)) = Len(list)
         /\ \A i \in 1..Len(list) :
               ToFront(keys, contents[e].key)[i] = contents[ToFront(list, e)[i]].key
<1> DEFINE n == Len(list)
           k == contents[e].key
           p == Position(list, e)
<1>1. n \in Nat /\ p \in 1..n /\ list[p] = e /\ e \in EntryIds
  BY PositionIn, LenProperties, ToSetType
<1>2. keys[p] = k
  BY <1>1
<1>3. k \in ToSet(keys)
  BY <1>1, <1>2, ToSetType
<1>4. Position(keys, k) \in 1..n /\ keys[Position(keys, k)] = k
  BY <1>1, <1>3, PositionIn
<1>5. Position(keys, k) = p
  BY <1>1, <1>2, <1>4, InjectiveQueue
<1>6. /\ Len(ToFront(list, e)) = n
      /\ \A i \in 1..n : ToFront(list, e)[i] = IF i = 1 THEN e
                                               ELSE IF i <= p THEN list[i - 1] ELSE list[i]
  BY <1>1, ToFrontValue
<1> HIDE DEF k, p
<1>7. /\ Len(ToFront(keys, k)) = n
      /\ \A i \in 1..n : ToFront(keys, k)[i] = IF i = 1 THEN k
                                               ELSE IF i <= p THEN keys[i - 1] ELSE keys[i]
  <2>1. k \in Keys
    BY DEF k
  <2> QED
    <3>1. /\ Len(ToFront(keys, k)) = Len(keys)
          /\ \A i \in 1..Len(ToFront(keys, k)) :
                ToFront(keys, k)[i] = IF i = 1 THEN k
                                      ELSE IF i <= Position(keys, k) THEN keys[i - 1]
                                      ELSE keys[i]
      BY <1>3, <2>1, ToFrontValue
    <3> QED
      BY <1>5, <3>1
<1>8. ASSUME NEW i \in 1..n
      PROVE  ToFront(keys, k)[i] = contents[ToFront(list, e)[i]].key
  <2>1. CASE i = 1
    BY <1>6, <1>7, <2>1 DEF k
  <2>2. CASE i # 1 /\ i <= p
    <3>1. i - 1 \in 1..n
      BY <1>1, <2>2
    <3> QED
      BY <1>6, <1>7, <2>2, <3>1
  <2>3. CASE i # 1 /\ i > p
    BY <1>1, <1>6, <1>7, <2>3
  <2> QED
    BY <1>1, <2>1, <2>2, <2>3
<1> QED
  BY <1>6, <1>7, <1>8 DEF k

-----------------------------------------------------------------------------
(* What the critical sections do to the cache.                             *)

\* What each kind of call carries.
LEMMA CallType ==
  ASSUME NEW x \in Calls
  PROVE  /\ x = Idle \/ x.at \in {"found", "missed", "storing"}
         /\ x = Idle => x.at = "idle"
         /\ x.at = "found" => x.key \in Keys /\ x.entry \in EntryIds
         /\ x.at = "missed" => x.key \in Keys
         /\ x.at = "storing" => x.key \in Keys /\ x.response \in Responses
BY DEF Calls, Idle

\* The keys of the entries in the list are all different.
LEMMA KeysDiffer ==
  ASSUME NEW map, NEW list, NEW contents, Consistent(map, list, contents),
         NEW keys \in Seq(Keys), Len(keys) = Len(list),
         \A i \in 1..Len(list) : keys[i] = contents[list[i]].key
  PROVE  /\ IsInjective(keys)
         /\ \A k \in Keys : k \in ToSet(keys) <=> map[k] # NoEntry
<1> USE DEF Consistent
<1>1. /\ Len(list) \in Nat
      /\ ToSet(list) = {list[i] : i \in 1..Len(list)}
      /\ ToSet(keys) = {keys[i] : i \in 1..Len(list)}
      /\ ToSet(list) \subseteq EntryIds
  BY LenProperties, ToSetType
<1>2. \A i \in 1..Len(list) : map[keys[i]] = list[i] /\ list[i] # NoEntry
  BY <1>1, NoEntryAssumption
<1>3. \A i, j \in 1..Len(list) : list[i] = list[j] => i = j
  BY InjectiveQueue
<1>4. \A i, j \in 1..Len(list) : keys[i] = keys[j] => i = j
  BY <1>2, <1>3
<1>5. IsInjective(keys)
  BY <1>4, InjectiveQueue
<1>6. \A k \in Keys : k \in ToSet(keys) <=> map[k] # NoEntry
  BY <1>1, <1>2
<1> QED
  BY <1>5, <1>6

\* A hit, or a second answer, moves an entry to the front.
LEMMA TouchConsistent ==
  ASSUME NEW map, NEW list, NEW contents, Consistent(map, list, contents),
         NEW e \in ToSet(list)
  PROVE  Consistent(map, ToFront(list, e), contents)
<1>1. list \in Seq(EntryIds) /\ IsInjective(list) /\ e \in EntryIds
  BY ToSetType DEF Consistent
<1>2. /\ ToFront(list, e) \in Seq(EntryIds)
      /\ Len(ToFront(list, e)) = Len(list)
      /\ IsInjective(ToFront(list, e))
      /\ ToSet(ToFront(list, e)) = ToSet(list)
  <2>1. ToFront(list, e) \in Seq(EntryIds) /\ Len(ToFront(list, e)) = Len(list)
    BY <1>1, ToFrontValue
  <2>2. IsInjective(ToFront(list, e)) /\ ToSet(ToFront(list, e)) = ToSet(list) \cup {e}
    BY <1>1, ToFrontElements
  <2> QED
    BY <2>1, <2>2
<1> QED
  BY <1>2 DEF Consistent

\* A second answer for a key replaces the response of its entry.
LEMMA RefreshConsistent ==
  ASSUME NEW map, NEW list, NEW contents, Consistent(map, list, contents),
         NEW k \in Keys, map[k] # NoEntry, NEW r \in Responses, r.of = k
  PROVE  Consistent(map, list, [contents EXCEPT ![map[k]].response = r])
<1> DEFINE e == map[k]
           new == [contents EXCEPT ![e].response = r]
<1>1. /\ list \in Seq(EntryIds)
      /\ contents \in [EntryIds -> Entries \cup {Unused}]
      /\ e \in ToSet(list)
      /\ contents[e].key = k
      /\ contents[e] \in Entries
  BY DEF Consistent
<1>2. e \in EntryIds
  BY <1>1, ToSetType
<1>3. /\ new[e] \in Entries
      /\ new[e].key = k
      /\ new[e].response = r
      /\ \A f \in EntryIds \ {e} : new[f] = contents[f]
  BY <1>1, <1>2 DEF Entries
<1>4. new \in [EntryIds -> Entries \cup {Unused}]
  BY <1>1, <1>2, <1>3
<1>5. ToSet(list) \subseteq EntryIds
  BY <1>1, ToSetType
<1> HIDE DEF new
<1>6. \A f \in EntryIds : new[f].key = contents[f].key
  BY <1>1, <1>3
<1>7. ASSUME NEW f \in ToSet(list)
      PROVE  /\ new[f] \in Entries
             /\ new[f].response.of = new[f].key
             /\ map[new[f].key] = f
  BY <1>1, <1>3, <1>5, <1>7 DEF Consistent
<1>8. \A j \in Keys : map[j] # NoEntry => map[j] \in ToSet(list) /\ new[map[j]].key = j
  BY <1>5, <1>6 DEF Consistent
<1> HIDE DEF e
<1>9. Consistent(map, list, new)
  BY <1>4, <1>7, <1>8 DEF Consistent
<1> QED
  BY <1>9 DEF new, e

\* A list with all but its last element.
LEMMA FrontValue ==
  ASSUME NEW S, NEW q \in Seq(S), q # <<>>
  PROVE  /\ Front(q) \in Seq(S)
         /\ Len(Front(q)) = Len(q) - 1
         /\ \A i \in 1..(Len(q) - 1) : Front(q)[i] = q[i]
<1> DEFINE n == Len(q)
<1>1. n \in Nat \ {0} /\ \A i \in 1..(n - 1) : q[i] \in S
  BY ToSetNonEmpty, ElementOfSeq
<1> HIDE DEF n
<1>2. 1 \in Int /\ n - 1 \in Int
  BY <1>1
<1>3. /\ SubSeq(q, 1, n - 1) \in Seq(S)
      /\ Len(SubSeq(q, 1, n - 1)) = IF 1 <= n - 1 THEN n - 1 - 1 + 1 ELSE 0
      /\ \A i \in 1..(n - 1 - 1 + 1) : SubSeq(q, 1, n - 1)[i] = q[1 + i - 1]
  BY <1>1, <1>2, SubSeqProperties
<1>4. Front(q) = SubSeq(q, 1, n - 1)
  BY DEF Front, n
<1>5. /\ SubSeq(q, 1, n - 1) \in Seq(S)
      /\ Len(SubSeq(q, 1, n - 1)) = n - 1
      /\ \A i \in 1..(n - 1) : SubSeq(q, 1, n - 1)[i] = q[i]
  BY <1>1, <1>3
<1> QED
  BY <1>4, <1>5 DEF n

\* A list with a new first element and, if that makes it too long, without its last.
Pushed(q, x) ==
    LET longer == <<x>> \o q
    IN  IF Len(longer) > Capacity THEN Front(longer) ELSE longer

\* Such a list, position by position.
LEMMA PushedValue ==
  ASSUME NEW q \in Seq(EntryIds), Len(q) <= Capacity, NEW x \in EntryIds
  PROVE  /\ Pushed(q, x) \in Seq(EntryIds)
         /\ Len(Pushed(q, x)) = IF Len(q) = Capacity THEN Len(q) ELSE Len(q) + 1
         /\ Pushed(q, x)[1] = x
         /\ \A i \in 2..Len(Pushed(q, x)) : Pushed(q, x)[i] = q[i - 1]
         /\ Len(<<x>> \o q) = Len(q) + 1
         /\ Len(q) = Capacity => Last(<<x>> \o q) = q[Len(q)]
<1> DEFINE u == <<x>>
           longer == u \o q
           n == Len(q)
<1>1. u \in Seq(EntryIds) /\ Len(u) = 1 /\ u[1] = x
  BY ToSetSingleton
<1>2. n \in Nat /\ n <= Capacity /\ Capacity \in Nat \ {0}
  BY LenProperties, CapacityAssumption
<1> HIDE DEF u
<1>3. /\ longer \in Seq(EntryIds)
      /\ Len(longer) = n + 1
      /\ longer[1] = x
      /\ \A i \in 2..(n + 1) : longer[i] = q[i - 1]
  <2>1. /\ longer \in Seq(EntryIds)
        /\ Len(longer) = Len(u) + n
        /\ \A i \in 1..(Len(u) + n) : longer[i] = IF i <= Len(u) THEN u[i] ELSE q[i - Len(u)]
    BY <1>1, ConcatProperties
  <2> QED
    BY <1>1, <1>2, <2>1
<1>4. Pushed(q, x) = IF Len(longer) > Capacity THEN Front(longer) ELSE longer
  BY DEF Pushed, u
<1> HIDE DEF longer, n
<1>5. /\ Front(longer) \in Seq(EntryIds)
      /\ Len(Front(longer)) = n
      /\ \A i \in 1..n : Front(longer)[i] = longer[i]
  <2>1. longer # <<>>
    BY <1>2, <1>3, EmptySeq
  <2> QED
    BY SMTT(60), <1>2, <1>3, <2>1, FrontValue
<1>6. CASE n = Capacity
  <2>1. Pushed(q, x) = Front(longer)
    BY <1>2, <1>3, <1>4, <1>6
  <2>2. Last(longer) = q[n]
    BY <1>2, <1>3, <1>6 DEF Last
  <2>3. 1 \in 1..n
    BY <1>2, <1>6
  <2> QED
    BY <1>2, <1>3, <1>5, <1>6, <2>1, <2>2, <2>3 DEF n, longer, u
<1>7. CASE n # Capacity
  <2>1. Pushed(q, x) = longer
    BY <1>2, <1>3, <1>4, <1>7
  <2> QED
    BY <1>2, <1>3, <1>7, <2>1 DEF n, longer, u
<1> QED
  BY <1>6, <1>7

\* The map after an insertion: the key has its entry, and the key of the entry that had
\* to go, if one had to, has none.
MapAfter(map, list, contents, k, e) ==
    [j \in Keys |->
       IF j = k THEN e
       ELSE IF Len(<<e>> \o list) > Capacity /\ j = contents[Last(<<e>> \o list)].key THEN NoEntry
       ELSE map[j]]

\* A new entry for a key that has none is pushed to the front, and the last one leaves
\* both the list and the map if that makes one too many.
LEMMA InsertConsistent ==
  ASSUME NEW map, NEW list, NEW contents, Consistent(map, list, contents),
         NEW k \in Keys, map[k] = NoEntry,
         NEW e \in EntryIds, e \notin ToSet(list),
         NEW r \in Responses, r.of = k
  PROVE  Consistent(MapAfter(map, list, contents, k, e), Pushed(list, e),
                    [contents EXCEPT ![e] = [key |-> k, response |-> r]])
<1> DEFINE n == Len(list)
           l == Pushed(list, e)
           m == MapAfter(map, list, contents, k, e)
           new == [contents EXCEPT ![e] = [key |-> k, response |-> r]]
           full == n = Capacity
<1>1. /\ list \in Seq(EntryIds) /\ n <= Capacity /\ n \in Nat
      /\ contents \in [EntryIds -> Entries \cup {Unused}]
      /\ ToSet(list) = {list[i] : i \in 1..n} /\ ToSet(list) \subseteq EntryIds
  BY LenProperties, ToSetType DEF Consistent
<1>2. \A i, j \in 1..n : list[i] = list[j] => i = j
  BY <1>1, InjectiveQueue DEF Consistent
<1>3. Capacity \in Nat \ {0}
  BY CapacityAssumption
<1>4. /\ l \in Seq(EntryIds)
      /\ Len(l) = IF full THEN n ELSE n + 1
      /\ l[1] = e
      /\ \A i \in 2..Len(l) : l[i] = list[i - 1]
      /\ Len(<<e>> \o list) = n + 1
      /\ full => Last(<<e>> \o list) = list[n]
  BY <1>1, PushedValue
<1>5. \A j \in Keys :
         m[j] = IF j = k THEN e
                ELSE IF full /\ j = contents[list[n]].key THEN NoEntry ELSE map[j]
  BY <1>1, <1>3, <1>4 DEF MapAfter
<1>6. /\ new[e] = [key |-> k, response |-> r]
      /\ new[e] \in Entries
      /\ \A f \in EntryIds \ {e} : new[f] = contents[f]
      /\ new \in [EntryIds -> Entries \cup {Unused}]
  BY <1>1 DEF Entries
<1>7. m \in [Keys -> EntryIds \cup {NoEntry}]
  BY DEF MapAfter, Consistent
<1> HIDE DEF l, m, new
<1>8. \A i \in 2..Len(l) : i - 1 \in 1..n /\ (full => i - 1 # n) /\ l[i] # e
  <2>1. \A i \in 2..Len(l) : i - 1 \in 1..n /\ (full => i - 1 # n)
    BY <1>1, <1>4
  <2> QED
    BY <1>1, <1>4, <2>1
<1>9. IsInjective(l)
  <2>1. \A i, j \in 1..Len(l) : l[i] = l[j] => i = j
    <3> SUFFICES ASSUME NEW i \in 1..Len(l), NEW j \in 1..Len(l), l[i] = l[j], i # 1
                 PROVE  i = j
      BY <1>4
    <3>1. i \in 2..Len(l)
      BY <1>1, <1>4
    <3>2. j \in 2..Len(l)
      BY <1>1, <1>4, <1>8, <3>1
    <3>3. i - 1 = j - 1
      BY ZenonT(60), <1>2, <1>4, <1>8, <3>1, <3>2
    <3> QED
      BY <1>1, <1>4, <3>1, <3>2, <3>3
  <2> QED
    BY <1>4, <2>1, InjectiveQueue
<1>10. ToSet(l) = {l[i] : i \in 1..Len(l)}
  <2>1. DOMAIN l = 1..Len(l)
    BY <1>4, LenProperties
  <2> QED
    BY <2>1 DEF ToSet
<1>11. ASSUME NEW f \in ToSet(l)
       PROVE  /\ new[f] \in Entries
              /\ new[f].response.of = new[f].key
              /\ m[new[f].key] = f
  <2>1. CASE f = e
    BY <1>5, <1>6, <2>1
  <2>2. CASE f # e
    <3>1. PICK i \in 2..Len(l) : f = l[i]
      BY <1>1, <1>4, <1>10, <2>2
    <3>2. f = list[i - 1] /\ f \in ToSet(list) /\ f \in EntryIds
      BY <1>1, <1>4, <1>8, <3>1
    <3>3. /\ new[f] = contents[f]
          /\ contents[f] \in Entries
          /\ contents[f].response.of = contents[f].key
          /\ map[contents[f].key] = f
      BY <1>6, <2>2, <3>2 DEF Consistent
    <3>4. contents[f].key \in Keys /\ contents[f].key # k
      BY <3>2, <3>3, NoEntryAssumption DEF Entries
    <3>5. ASSUME full
          PROVE  contents[f].key # contents[list[n]].key
      <4>1. n \in 1..n
        BY <1>1, <1>3, <3>5
      <4>2. list[n] \in ToSet(list)
        BY <1>1, <4>1
      <4>3. f # list[n]
        BY <1>2, <1>8, <3>1, <3>2, <3>5, <4>1
      <4> QED
        BY <3>3, <4>2, <4>3 DEF Consistent
    <3> QED
      BY <1>5, <3>3, <3>4, <3>5
  <2> QED
    BY <2>1, <2>2
<1>12. ASSUME NEW j \in Keys, m[j] # NoEntry
       PROVE  m[j] \in ToSet(l) /\ new[m[j]].key = j
  <2>1. 1 \in 1..Len(l)
    BY <1>1, <1>3, <1>4
  <2>2. CASE j = k
    BY <1>4, <1>5, <1>6, <1>10, <2>1, <2>2
  <2>3. CASE j # k
    <3>1. m[j] = map[j] /\ map[j] \in ToSet(list) /\ contents[map[j]].key = j
      BY <1>5, <1>12, <2>3 DEF Consistent
    <3>2. PICK i \in 1..n : map[j] = list[i]
      BY <1>1, <3>1
    <3>3. full => i # n
      BY <1>5, <1>12, <2>3, <3>1, <3>2
    <3>4. i + 1 \in 2..Len(l) /\ i + 1 - 1 = i
      BY <1>1, <1>4, <3>3
    <3>5. l[i + 1] = map[j] /\ i + 1 \in 1..Len(l)
      BY <1>4, <3>2, <3>4
    <3>6. map[j] \in ToSet(l) /\ map[j] \in EntryIds /\ map[j] # e
      BY <1>1, <1>10, <3>1, <3>5
    <3> QED
      BY <1>6, <3>1, <3>6
  <2> QED
    BY <2>2, <2>3
<1>13. Len(l) <= Capacity
  BY <1>1, <1>3, <1>4
<1>14. Consistent(m, l, new)
  BY <1>4, <1>6, <1>7, <1>9, <1>11, <1>12, <1>13 DEF Consistent
<1> QED
  BY <1>14 DEF m, l, new

\* Entries that nothing refers to may lose their contents.
LEMMA ForgetConsistent ==
  ASSUME NEW map, NEW list, NEW contents, Consistent(map, list, contents),
         NEW L, ToSet(list) \subseteq L
  PROVE  Consistent(map, list, [e \in EntryIds |-> IF e \in L THEN contents[e] ELSE Unused])
<1> DEFINE kept == [e \in EntryIds |-> IF e \in L THEN contents[e] ELSE Unused]
<1>1. /\ ToSet(list) \subseteq EntryIds
      /\ contents \in [EntryIds -> Entries \cup {Unused}]
  BY ToSetType DEF Consistent
<1>2. \A e \in ToSet(list) : kept[e] = contents[e]
  BY <1>1
<1>3. kept \in [EntryIds -> Entries \cup {Unused}]
  BY <1>1
<1> HIDE DEF kept
<1>4. Consistent(map, list, kept)
  BY <1>2, <1>3 DEF Consistent
<1> QED
  BY <1>4 DEF kept

-----------------------------------------------------------------------------
(* The history of uses.                                                    *)

\* A step uses the key of a hit, or the key of an answer that is stored, or none.
LEMMA UsedKeysOf ==
  ASSUME TypeOK, NEW c \in Callers, NEW x \in Calls, call' = [call EXCEPT ![c] = x]
  PROVE  UsedKeys = IF call[c] = Idle /\ x.at = "found" THEN {x.key}
                    ELSE IF call[c].at = "storing" /\ x = Idle THEN {call[c].key} ELSE {}
<1>1. \A d \in Callers : call[d] \in Calls /\ call'[d] = IF d = c THEN x ELSE call[d]
  BY DEF TypeOK
<1>2. \A d \in Callers : call[d] = Idle => call[d].at = "idle"
  BY <1>1, CallType
<1>3. {d \in Callers : call[d] = Idle /\ call'[d].at = "found"}
        = IF call[c] = Idle /\ x.at = "found" THEN {c} ELSE {}
  BY <1>1, <1>2
<1>4. {d \in Callers : call[d].at = "storing" /\ call'[d] = Idle}
        = IF call[c].at = "storing" /\ x = Idle THEN {c} ELSE {}
  BY <1>1, <1>2
<1>5. call'[c] = x
  BY <1>1
<1>6. ~(call[c] = Idle /\ call[c].at = "storing")
  BY <1>2
<1> QED
  BY <1>3, <1>4, <1>5, <1>6 DEF UsedKeys

\* A key that is used again moves to the front; a new one is put there, and the one used
\* the longest time ago is forgotten if that makes one too many.
LEMMA LatestValue ==
  ASSUME used \in Seq(Keys), Len(used) <= Capacity, NEW k \in Keys
  PROVE  /\ k \in ToSet(used) => Latest(k) = ToFront(used, k)
         /\ k \notin ToSet(used) =>
               /\ Latest(k) \in Seq(Keys)
               /\ Len(Latest(k)) = IF Len(used) = Capacity THEN Len(used) ELSE Len(used) + 1
               /\ Latest(k)[1] = k
               /\ \A i \in 2..Len(Latest(k)) : Latest(k)[i] = used[i - 1]
<1> DEFINE list == ToFront(used, k)
           n == Len(used)
<1>1. n \in Nat /\ Capacity \in Nat \ {0}
  BY LenProperties, CapacityAssumption
<1>2. /\ list \in Seq(Keys)
      /\ Len(list) = IF k \in ToSet(used) THEN n ELSE n + 1
      /\ \A i \in 1..Len(list) : list[i] = IF i = 1 THEN k
                                           ELSE IF i <= Position(used, k) THEN used[i - 1]
                                           ELSE used[i]
  <2>1. list \in Seq(Keys)
    BY ToFrontValue
  <2>2. Len(list) = IF k \in ToSet(used) THEN n ELSE n + 1
    BY ToFrontValue
  <2>3. \A i \in 1..Len(list) : list[i] = IF i = 1 THEN k
                                          ELSE IF i <= Position(used, k) THEN used[i - 1]
                                          ELSE used[i]
    BY ToFrontValue
  <2> QED
    BY <2>1, <2>2, <2>3
<1>3. Latest(k) = IF Len(list) > Capacity THEN Front(list) ELSE list
  BY DEF Latest
<1>4. k \notin ToSet(used) => Position(used, k) = n + 1
  BY PositionIn
<1> HIDE DEF list
<1>5. CASE k \in ToSet(used)
  BY <1>1, <1>2, <1>3, <1>5 DEF list
<1>6. CASE k \notin ToSet(used)
  <2>1. Len(list) = n + 1 /\ list[1] = k /\ \A i \in 2..(n + 1) : list[i] = used[i - 1]
    BY <1>1, <1>2, <1>4, <1>6
  <2>2. /\ Front(list) \in Seq(Keys)
        /\ Len(Front(list)) = n
        /\ \A i \in 1..n : Front(list)[i] = list[i]
    <3>1. list # <<>>
      BY <1>1, <2>1, EmptySeq
    <3> QED
      BY <1>1, <1>2, <2>1, <3>1, FrontValue
  <2>3. CASE n = Capacity
    <3>1. Latest(k) = Front(list) /\ 1 \in 1..n
      BY <1>1, <1>3, <2>1, <2>3
    <3> QED
      BY <1>1, <1>6, <2>1, <2>2, <2>3, <3>1
  <2>4. CASE n # Capacity
    <3>1. Latest(k) = list
      BY <1>1, <1>3, <2>1, <2>4
    <3> QED
      BY <1>1, <1>2, <1>6, <2>1, <2>4, <3>1
  <2> QED
    BY <2>3, <2>4
<1> QED
  BY <1>5, <1>6

-----------------------------------------------------------------------------
(* The steps.                                                              *)

\* An entry that is listed or that a hit still reads keeps the contents of the step.
LEMMA ObserveEffect ==
  ASSUME NEW contents, Observe(contents), Consistent(items', evictList', contents)
  PROVE  /\ Consistent(items', evictList', entry')
         /\ \A e \in EntryIds : e \in Live' => entry'[e] = contents[e]
         /\ \A k \in Keys : CachedFor(k, items', entry') = CachedFor(k, items', contents)
<1>1. /\ entry' = [e \in EntryIds |-> IF e \in Live' THEN contents[e] ELSE Unused]
      /\ ToSet(evictList') \subseteq Live'
  BY DEF Observe, Live
<1>2. Consistent(items', evictList', entry')
  BY <1>1, ForgetConsistent
<1>3. \A e \in EntryIds : e \in Live' => entry'[e] = contents[e]
  BY <1>1
<1>4. ASSUME NEW k \in Keys, items'[k] # NoEntry
      PROVE  entry'[items'[k]] = contents[items'[k]]
  <2>1. items'[k] \in ToSet(evictList') /\ evictList' \in Seq(EntryIds)
    BY <1>4 DEF Consistent
  <2> QED
    BY <1>1, <1>3, <2>1, ToSetType
<1> QED
  BY <1>2, <1>3, <1>4 DEF CachedFor

\* What a step has to ensure, so that the invariant holds after it.
LEMMA ObserveKeeps ==
  ASSUME IInv, NEW contents, Observe(contents), Consistent(items', evictList', contents),
         flushes' \in 0..MaxFlushes,
         call' \in [Callers -> Calls],
         Answered',
         used' \in Seq(Keys),
         Len(used') = Len(evictList'),
         \A i \in 1..Len(evictList') : used'[i] = contents[evictList'[i]].key,
         \A c \in Callers : call'[c].at = "found" =>
            /\ contents[call'[c].entry] \in Entries
            /\ contents[call'[c].entry].key = call'[c].key
            /\ contents[call'[c].entry].response
                  \in seen[c] \cup CachedFor(call'[c].key, items', contents)
  PROVE  IInv'
<1>1. /\ Consistent(items', evictList', entry')
      /\ \A e \in EntryIds : e \in Live' => entry'[e] = contents[e]
      /\ \A k \in Keys : CachedFor(k, items', entry') = CachedFor(k, items', contents)
  BY ObserveEffect
<1>2. \A c \in Callers : call'[c].at = "found" =>
         call'[c].key \in Keys /\ call'[c].entry \in EntryIds
  BY CallType
<1>3. seen' = [c \in Callers |->
                 IF call'[c].at = "found"
                 THEN seen[c] \cup CachedFor(call'[c].key, items', entry') ELSE {}]
  BY DEF Observe
<1>4. \A k \in Keys : CachedFor(k, items', entry') \subseteq Responses
  <2> SUFFICES ASSUME NEW k \in Keys, items'[k] # NoEntry
               PROVE  entry'[items'[k]].response \in Responses
    BY DEF CachedFor
  <2>1. entry'[items'[k]] \in Entries
    BY <1>1 DEF Consistent
  <2> QED
    BY <2>1 DEF Entries
<1>5. TypeOK'
  <2>1. seen' \in [Callers -> SUBSET Responses]
    BY <1>2, <1>3, <1>4 DEF IInv, TypeOK
  <2> QED
    BY <1>1, <2>1 DEF TypeOK, Consistent
<1>6. Readable'
  <2> SUFFICES ASSUME NEW c \in Callers, call'[c].at = "found"
               PROVE  /\ entry'[call'[c].entry] \in Entries
                      /\ entry'[call'[c].entry].key = call'[c].key
                      /\ entry'[call'[c].entry].response \in seen'[c]
    BY DEF Readable, Finding
  <2>1. call'[c].entry \in Live'
    BY DEF Live, Finding
  <2>2. entry'[call'[c].entry] = contents[call'[c].entry]
    BY <1>1, <1>2, <2>1
  <2> QED
    BY <1>1, <1>2, <1>3, <2>2
<1>7. Aligned'
  <2>1. evictList' \in Seq(EntryIds) /\ ToSet(evictList') \subseteq Live'
    BY <1>1 DEF Consistent, Live
  <2>2. \A i \in 1..Len(evictList') : entry'[evictList'[i]] = contents[evictList'[i]]
    BY <1>1, <2>1, ToSetType, ElementOfSeq
  <2> QED
    BY <2>2 DEF Aligned
<1> QED
  BY <1>1, <1>5, <1>6, <1>7 DEF IInv

\* What the abstract map holds.
Cached == [k \in Keys |-> CachedFor(k, items, entry)]

\* The keys in the history of uses are the cached ones.
LEMMA UsedAreCached ==
  ASSUME IInv
  PROVE  /\ IsInjective(used)
         /\ Len(used) <= Capacity
         /\ \A k \in Keys : k \in ToSet(used) <=> items[k] # NoEntry
<1>1. used \in Seq(Keys) /\ Len(used) = Len(evictList) /\ Len(evictList) <= Capacity
  BY DEF IInv, TypeOK, Aligned
<1> QED
  BY <1>1, KeysDiffer DEF IInv, Aligned

\* A step that uses nothing and changes nothing but a call, which does not become a hit.
LEMMA CallOnly ==
  ASSUME IInv, NEW c \in Callers, NEW x \in Calls, x.at # "found",
         x.at = "storing" => x.response.of = x.key,
         call[c].at # "storing",
         call' = [call EXCEPT ![c] = x],
         UNCHANGED <<items, evictList, flushes>>, Observe(entry)
  PROVE  IInv' /\ used' = used /\ Cached' = Cached
<1>1. UsedKeys = {}
  BY UsedKeysOf DEF IInv
<1>2. used' = used
  BY <1>1 DEF Observe
<1>3. Consistent(items', evictList', entry)
  BY DEF IInv
<1>4. call' \in [Callers -> Calls] /\ \A d \in Callers : call'[d] = IF d = c THEN x ELSE call[d]
  BY DEF IInv, TypeOK
<1>5. Answered'
  BY <1>4 DEF IInv, Answered
<1>6. ASSUME NEW d \in Callers, call'[d].at = "found"
      PROVE  /\ entry[call'[d].entry] \in Entries
             /\ entry[call'[d].entry].key = call'[d].key
             /\ entry[call'[d].entry].response
                   \in seen[d] \cup CachedFor(call'[d].key, items', entry)
  BY <1>4, <1>6 DEF IInv, Readable, Finding
<1>7. IInv'
  BY <1>2, <1>3, <1>4, <1>5, <1>6, ObserveKeeps DEF IInv, TypeOK, Aligned
<1>8. Cached' = Cached
  BY <1>3, ObserveEffect DEF Cached
<1> QED
  BY <1>2, <1>7, <1>8

\* A lookup that misses, the return of a hit, and the answer or the failure of the
\* backend are such steps.
LEMMA QuietKeeps ==
  ASSUME IInv, NEW c \in Callers,
         \/ \E k \in Keys : Lookup(c, k) /\ items[k] = NoEntry
         \/ ReturnHit(c) \/ BackendAnswers(c) \/ BackendFails(c)
  PROVE  IInv' /\ used' = used /\ Cached' = Cached
<1>1. ASSUME NEW k \in Keys, Lookup(c, k), items[k] = NoEntry
      PROVE  IInv' /\ used' = used /\ Cached' = Cached
  <2> DEFINE x == [at |-> "missed", key |-> k]
  <2>1. x \in Calls /\ x.at # "found" /\ x.at # "storing" /\ call[c].at # "storing"
    BY <1>1 DEF Calls, Idle, Lookup
  <2>2. /\ call' = [call EXCEPT ![c] = x]
        /\ UNCHANGED <<items, evictList, flushes>>
        /\ Observe(entry)
    BY <1>1 DEF Lookup
  <2> HIDE DEF x
  <2> QED
    BY <2>1, <2>2, CallOnly
<1>2. CASE ReturnHit(c) \/ BackendFails(c)
  <2>1. Idle \in Calls /\ Idle.at # "found" /\ Idle.at # "storing" /\ call[c].at # "storing"
    BY <1>2 DEF Calls, Idle, ReturnHit, BackendFails
  <2>2. /\ call' = [call EXCEPT ![c] = Idle]
        /\ UNCHANGED <<items, evictList, flushes>>
        /\ Observe(entry)
    BY <1>2 DEF ReturnHit, BackendFails
  <2> QED
    BY <2>1, <2>2, CallOnly
<1>3. CASE BackendAnswers(c)
  <2>1. call[c].at = "missed" /\ call[c].key \in Keys
    BY <1>3, CallType DEF IInv, TypeOK, BackendAnswers
  <2>2. PICK text \in Texts :
           call' = [call EXCEPT ![c] =
                      [at |-> "storing", key |-> call[c].key,
                       response |-> [of |-> call[c].key, text |-> text]]]
    BY <1>3 DEF BackendAnswers
  <2> DEFINE x == [at |-> "storing", key |-> call[c].key,
                   response |-> [of |-> call[c].key, text |-> text]]
  <2>3. x \in Calls /\ x.at # "found" /\ x.response.of = x.key
    BY <2>1 DEF Calls, Responses
  <2>4. /\ call' = [call EXCEPT ![c] = x]
        /\ UNCHANGED <<items, evictList, flushes>>
        /\ Observe(entry)
    BY <1>3, <2>2 DEF BackendAnswers
  <2> HIDE DEF x
  <2> QED
    BY <2>1, <2>3, <2>4, CallOnly
<1> QED
  BY <1>1, <1>2, <1>3

\* A hit uses its key: the entry and the key move to the front together.
LEMMA HitKeeps ==
  ASSUME IInv, NEW c \in Callers, NEW k \in Keys, Lookup(c, k), items[k] # NoEntry
  PROVE  /\ IInv'
         /\ k \in ToSet(used) /\ used' = Latest(k)
         /\ Cached' = Cached
<1> DEFINE e == items[k]
           x == [at |-> "found", key |-> k, entry |-> e]
<1>1. /\ call[c] = Idle
      /\ call' = [call EXCEPT ![c] = x]
      /\ evictList' = ToFront(evictList, e)
      /\ items' = items
      /\ flushes' = flushes
      /\ Observe(entry)
  BY DEF Lookup, MoveToFront
<1>2. /\ evictList \in Seq(EntryIds)
      /\ IsInjective(evictList)
      /\ e \in ToSet(evictList)
      /\ entry[e].key = k
      /\ entry[e] \in Entries
  BY DEF IInv, Consistent
<1>3. e \in EntryIds
  BY <1>2, ToSetType
<1>4. x \in Calls /\ x.at = "found" /\ x.key = k /\ x.entry = e
  BY <1>3 DEF Calls
<1> HIDE DEF x
<1>5. UsedKeys = {k}
  BY <1>1, <1>4, UsedKeysOf DEF IInv
<1>6. /\ used \in Seq(Keys)
      /\ IsInjective(used)
      /\ Len(used) <= Capacity
      /\ Len(used) = Len(evictList)
      /\ \A i \in 1..Len(evictList) : used[i] = entry[evictList[i]].key
      /\ k \in ToSet(used)
  BY UsedAreCached DEF IInv, TypeOK, Aligned
<1>7. used' = Latest(k) /\ Latest(k) = ToFront(used, k)
  BY <1>1, <1>5, <1>6, LatestValue DEF Observe
<1>8. Consistent(items', evictList', entry)
  BY <1>1, <1>2, TouchConsistent DEF IInv
<1>9. /\ used' \in Seq(Keys)
      /\ Len(used') = Len(evictList')
      /\ \A i \in 1..Len(evictList') : used'[i] = entry[evictList'[i]].key
  <2>1. ToFront(used, k) \in Seq(Keys)
    BY <1>6, ToFrontValue
  <2>2. /\ Len(ToFront(used, entry[e].key)) = Len(evictList)
        /\ Len(ToFront(evictList, e)) = Len(evictList)
        /\ \A i \in 1..Len(evictList) :
              ToFront(used, entry[e].key)[i] = entry[ToFront(evictList, e)[i]].key
    BY <1>2, <1>6, ToFrontTogether
  <2> QED
    BY <1>1, <1>2, <1>7, <2>1, <2>2
<1>10. call' \in [Callers -> Calls] /\ \A d \in Callers : call'[d] = IF d = c THEN x ELSE call[d]
  BY <1>1, <1>4 DEF IInv, TypeOK
<1>11. Answered'
  BY <1>4, <1>10 DEF IInv, Answered
<1>12. ASSUME NEW d \in Callers, call'[d].at = "found"
       PROVE  /\ entry[call'[d].entry] \in Entries
              /\ entry[call'[d].entry].key = call'[d].key
              /\ entry[call'[d].entry].response
                    \in seen[d] \cup CachedFor(call'[d].key, items', entry)
  <2>1. CASE d = c
    BY <1>1, <1>2, <1>4, <1>10, <2>1 DEF CachedFor
  <2>2. CASE d # c
    BY <1>10, <1>12, <2>2 DEF IInv, Readable, Finding
  <2> QED
    BY <2>1, <2>2
<1>13. IInv'
  BY <1>1, <1>8, <1>9, <1>10, <1>11, <1>12, ObserveKeeps DEF IInv, TypeOK
<1>14. Cached' = Cached
  BY <1>1, <1>8, ObserveEffect DEF Cached
<1> QED
  BY <1>6, <1>7, <1>13, <1>14

\* What the abstract map holds once r is stored for k, the prompts in list being cached.
After(k, r, list) ==
    [j \in Keys |-> IF j = k THEN {r} ELSE IF j \in ToSet(list) THEN Cached[j] ELSE {}]

\* A stored response is for a prompt, and the key is used.
LEMMA StoredCall ==
  ASSUME IInv, NEW c \in Callers, call[c].at = "storing", call' = [call EXCEPT ![c] = Idle]
  PROVE  /\ call[c].key \in Keys
         /\ call[c].response \in Responses
         /\ call[c].response.of = call[c].key
         /\ UsedKeys = {call[c].key}
         /\ call' \in [Callers -> Calls]
         /\ \A d \in Callers : call'[d] = IF d = c THEN Idle ELSE call[d]
         /\ Answered'
<1>1. /\ call[c].key \in Keys
      /\ call[c].response \in Responses
      /\ call[c].response.of = call[c].key
  BY CallType DEF IInv, TypeOK, Answered
<1>2. Idle \in Calls /\ Idle.at = "idle" /\ call[c] # Idle
  BY DEF Calls, Idle
<1>3. UsedKeys = {call[c].key}
  BY <1>2, UsedKeysOf DEF IInv
<1>4. call' \in [Callers -> Calls] /\ \A d \in Callers : call'[d] = IF d = c THEN Idle ELSE call[d]
  BY <1>2 DEF IInv, TypeOK
<1>5. Answered'
  BY <1>2, <1>4 DEF IInv, Answered
<1> QED
  BY <1>1, <1>3, <1>4, <1>5

\* Another caller was first: its entry gets the new response and moves to the front.
LEMMA RefreshKeeps ==
  ASSUME IInv, NEW c \in Callers, Store(c), Refresh(c)
  PROVE  /\ IInv'
         /\ used' = Latest(call[c].key)
         /\ Cached' = After(call[c].key, call[c].response, used')
<1> DEFINE k == call[c].key
           r == call[c].response
           e == items[k]
           new == [entry EXCEPT ![e].response = r]
<1>1. /\ call[c].at = "storing"
      /\ call' = [call EXCEPT ![c] = Idle]
      /\ flushes' = flushes
      /\ e # NoEntry
      /\ items' = items
      /\ evictList' = ToFront(evictList, e)
      /\ Observe(new)
  BY DEF Store, Refresh, MoveToFront
<1>2. /\ k \in Keys /\ r \in Responses /\ r.of = k
      /\ UsedKeys = {k}
      /\ call' \in [Callers -> Calls]
      /\ \A d \in Callers : call'[d] = IF d = c THEN Idle ELSE call[d]
      /\ Answered'
  BY <1>1, StoredCall
<1> HIDE DEF k, r
<1>3. /\ evictList \in Seq(EntryIds)
      /\ IsInjective(evictList)
      /\ e \in ToSet(evictList)
      /\ entry \in [EntryIds -> Entries \cup {Unused}]
      /\ entry[e].key = k
      /\ entry[e] \in Entries
  BY <1>1, <1>2 DEF IInv, Consistent
<1>4. e \in EntryIds
  BY <1>3, ToSetType
<1>5. /\ new[e].response = r
      /\ new[e].key = k
      /\ new[e] \in Entries
      /\ \A f \in EntryIds : f # e => new[f] = entry[f]
  BY <1>2, <1>3, <1>4 DEF Entries
<1>6. Consistent(items, evictList, new)
  BY <1>1, <1>2, RefreshConsistent DEF IInv
<1> HIDE DEF new
<1>7. Consistent(items', evictList', new)
  BY <1>1, <1>3, <1>6, TouchConsistent
<1>8. /\ used \in Seq(Keys)
      /\ IsInjective(used)
      /\ Len(used) <= Capacity
      /\ Len(used) = Len(evictList)
      /\ \A i \in 1..Len(evictList) : used[i] = entry[evictList[i]].key
      /\ k \in ToSet(used)
  BY <1>1, <1>2, UsedAreCached DEF IInv, TypeOK, Aligned
<1>9. \A f \in EntryIds : new[f].key = entry[f].key
  BY <1>3, <1>5
<1>10. \A i \in 1..Len(evictList) : used[i] = new[evictList[i]].key
  BY <1>3, <1>8, <1>9, ElementOfSeq
<1>11. used' = Latest(k) /\ Latest(k) = ToFront(used, k)
  BY <1>1, <1>2, <1>8, LatestValue DEF Observe
<1>12. /\ used' \in Seq(Keys)
       /\ Len(used') = Len(evictList')
       /\ \A i \in 1..Len(evictList') : used'[i] = new[evictList'[i]].key
  <2>1. ToFront(used, k) \in Seq(Keys)
    BY <1>2, <1>8, ToFrontValue
  <2>2. /\ Len(ToFront(used, new[e].key)) = Len(evictList)
        /\ Len(ToFront(evictList, e)) = Len(evictList)
        /\ \A i \in 1..Len(evictList) :
              ToFront(used, new[e].key)[i] = new[ToFront(evictList, e)[i]].key
    BY <1>2, <1>3, <1>5, <1>8, <1>10, ToFrontTogether
  <2> QED
    BY <1>1, <1>5, <1>11, <2>1, <2>2
<1>13. ASSUME NEW d \in Callers, call'[d].at = "found"
       PROVE  /\ new[call'[d].entry] \in Entries
              /\ new[call'[d].entry].key = call'[d].key
              /\ new[call'[d].entry].response
                    \in seen[d] \cup CachedFor(call'[d].key, items', new)
  <2>1. d # c /\ call'[d] = call[d]
    BY <1>2, <1>13 DEF Idle
  <2>2. /\ call[d].entry \in EntryIds
        /\ entry[call[d].entry] \in Entries
        /\ entry[call[d].entry].key = call[d].key
        /\ entry[call[d].entry].response \in seen[d]
    BY <1>13, <2>1, CallType DEF IInv, TypeOK, Readable, Finding
  <2>3. CASE call[d].entry = e
    BY <1>1, <1>3, <1>5, <2>1, <2>2, <2>3 DEF CachedFor
  <2>4. CASE call[d].entry # e
    BY <1>5, <2>1, <2>2, <2>4
  <2> QED
    BY <2>3, <2>4
<1>14. flushes' \in 0..MaxFlushes
  BY <1>1 DEF IInv, TypeOK
<1>15. IInv'
  BY <1>1, <1>2, <1>7, <1>12, <1>13, <1>14, ObserveKeeps
<1>16. Cached' = After(k, r, used')
  <2>1. \A j \in Keys : CachedFor(j, items', entry') = CachedFor(j, items', new)
    BY <1>1, <1>7, ObserveEffect
  <2>2. CachedFor(k, items', new) = {r}
    BY <1>1, <1>5 DEF CachedFor
  <2>3. ASSUME NEW j \in Keys, j # k
        PROVE  CachedFor(j, items', new) = CachedFor(j, items, entry)
    <3>1. items[j] # NoEntry => items[j] \in EntryIds /\ items[j] # e
      BY <1>1, <1>2, <1>3, <2>3 DEF IInv, Consistent
    <3> QED
      BY <1>1, <1>5, <3>1 DEF CachedFor
  <2>4. \A j \in Keys : j \in ToSet(used') <=> items'[j] # NoEntry
    BY <1>7, <1>12, KeysDiffer
  <2>5. \A j \in Keys : j # k /\ j \notin ToSet(used') => CachedFor(j, items', new) = {}
    BY <2>4 DEF CachedFor
  <2> QED
    BY <1>2, <2>1, <2>2, <2>3, <2>5 DEF Cached, After
<1> QED
  BY <1>11, <1>15, <1>16 DEF k, r

\* The key is new: it gets an entry, and the one used the longest time ago goes if there
\* is one too many.
LEMMA InsertKeeps ==
  ASSUME IInv, NEW c \in Callers, Store(c), Insert(c)
  PROVE  /\ IInv'
         /\ used' = Latest(call[c].key)
         /\ Cached' = After(call[c].key, call[c].response, used')
<1> DEFINE k == call[c].key
           r == call[c].response
<1>1. PICK e \in EntryIds \ Live :
         /\ evictList' = Pushed(evictList, e)
         /\ items' = MapAfter(items, evictList, entry, k, e)
         /\ Observe([entry EXCEPT ![e] = [key |-> k, response |-> r]])
  BY DEF Insert, Pushed, MapAfter
<1> DEFINE new == [entry EXCEPT ![e] = [key |-> k, response |-> r]]
           n == Len(evictList)
<1>2. /\ call[c].at = "storing"
      /\ call' = [call EXCEPT ![c] = Idle]
      /\ flushes' = flushes
      /\ items[k] = NoEntry
      /\ e \notin ToSet(evictList)
      /\ Observe(new)
  BY <1>1 DEF Store, Insert, Live
<1>3. /\ k \in Keys /\ r \in Responses /\ r.of = k
      /\ UsedKeys = {k}
      /\ call' \in [Callers -> Calls]
      /\ \A d \in Callers : call'[d] = IF d = c THEN Idle ELSE call[d]
      /\ Answered'
  BY <1>2, StoredCall
<1> HIDE DEF k, r
<1>4. /\ evictList \in Seq(EntryIds)
      /\ n <= Capacity
      /\ ToSet(evictList) \subseteq EntryIds
      /\ entry \in [EntryIds -> Entries \cup {Unused}]
  BY ToSetType DEF IInv, Consistent
<1>5. /\ new[e] = [key |-> k, response |-> r]
      /\ \A f \in EntryIds : f # e => new[f] = entry[f]
  BY <1>4
<1>6. Consistent(items', evictList', new)
  BY <1>1, <1>2, <1>3, InsertConsistent DEF IInv
<1> HIDE DEF new
<1>7. /\ used \in Seq(Keys)
      /\ Len(used) = n
      /\ \A i \in 1..n : used[i] = entry[evictList[i]].key
      /\ k \notin ToSet(used)
  BY <1>2, <1>3, UsedAreCached DEF IInv, TypeOK, Aligned
<1>8. used' = Latest(k)
  BY <1>2, <1>3 DEF Observe
<1>9. /\ Latest(k) \in Seq(Keys)
      /\ Len(Latest(k)) = IF n = Capacity THEN n ELSE n + 1
      /\ Latest(k)[1] = k
      /\ \A i \in 2..Len(Latest(k)) : Latest(k)[i] = used[i - 1]
  BY <1>3, <1>4, <1>7, LatestValue
<1>10. /\ Len(evictList') = IF n = Capacity THEN n ELSE n + 1
       /\ evictList'[1] = e
       /\ \A i \in 2..Len(evictList') : evictList'[i] = evictList[i - 1]
  <2>1. evictList \in Seq(EntryIds) /\ n <= Capacity /\ e \in EntryIds
    BY <1>4
  <2>2. /\ Len(Pushed(evictList, e)) = IF n = Capacity THEN n ELSE n + 1
        /\ Pushed(evictList, e)[1] = e
        /\ \A i \in 2..Len(Pushed(evictList, e)) : Pushed(evictList, e)[i] = evictList[i - 1]
    BY <2>1, PushedValue
  <2> QED
    BY <1>1, <2>2
<1>11. /\ used' \in Seq(Keys)
       /\ Len(used') = Len(evictList')
       /\ \A i \in 1..Len(evictList') : used'[i] = new[evictList'[i]].key
  <2>1. n \in Nat /\ Len(evictList') \in Nat
    BY <1>4, <1>10, LenProperties
  <2>2. ASSUME NEW i \in 1..Len(evictList')
        PROVE  used'[i] = new[evictList'[i]].key
    <3>1. CASE i = 1
      BY <1>5, <1>8, <1>9, <1>10, <3>1
    <3>2. CASE i # 1
      <4>1. i \in 2..Len(evictList') /\ i - 1 \in 1..n
        BY <1>10, <2>1, <3>2
      <4>2. used'[i] = used[i - 1] /\ evictList'[i] = evictList[i - 1]
        BY <1>8, <1>9, <1>10, <4>1
      <4>3. evictList[i - 1] \in ToSet(evictList)
        BY <1>4, <4>1, ToSetType
      <4>4. evictList[i - 1] \in EntryIds /\ evictList[i - 1] # e
        BY <1>2, <1>4, <4>3
      <4> QED
        BY <1>5, <1>7, <4>1, <4>2, <4>4
    <3> QED
      BY <3>1, <3>2
  <2> QED
    BY <1>8, <1>9, <1>10, <2>2
<1>12. ASSUME NEW d \in Callers, call'[d].at = "found"
       PROVE  /\ new[call'[d].entry] \in Entries
              /\ new[call'[d].entry].key = call'[d].key
              /\ new[call'[d].entry].response
                    \in seen[d] \cup CachedFor(call'[d].key, items', new)
  <2>1. d # c /\ call'[d] = call[d]
    BY <1>3, <1>12 DEF Idle
  <2>2. call[d].entry \in EntryIds /\ call[d].entry # e
    BY <1>1, <1>12, <2>1, CallType DEF IInv, TypeOK, Live, Finding
  <2> QED
    BY <1>5, <1>12, <2>1, <2>2 DEF IInv, Readable, Finding
<1>13. flushes' \in 0..MaxFlushes
  BY <1>2 DEF IInv, TypeOK
<1>14. IInv'
  BY <1>2, <1>3, <1>6, <1>11, <1>12, <1>13, ObserveKeeps
<1>15. Cached' = After(k, r, used')
  <2>1. \A j \in Keys : CachedFor(j, items', entry') = CachedFor(j, items', new)
    BY <1>2, <1>6, ObserveEffect
  <2>2. items'[k] = e /\ e # NoEntry
    BY <1>1, <1>3, NoEntryAssumption DEF MapAfter
  <2>3. CachedFor(k, items', new) = {r}
    BY <1>5, <2>2 DEF CachedFor
  <2>4. \A j \in Keys : j \in ToSet(used') <=> items'[j] # NoEntry
    BY <1>6, <1>11, KeysDiffer
  <2>5. ASSUME NEW j \in Keys, j # k, j \in ToSet(used')
        PROVE  CachedFor(j, items', new) = CachedFor(j, items, entry)
    <3>1. items'[j] = items[j] /\ items[j] # NoEntry
      BY <1>1, <2>4, <2>5 DEF MapAfter
    <3>2. items[j] \in EntryIds /\ items[j] # e
      BY <1>2, <1>4, <3>1 DEF IInv, Consistent
    <3> QED
      BY <1>5, <3>1, <3>2 DEF CachedFor
  <2>6. \A j \in Keys : j \notin ToSet(used') => CachedFor(j, items', new) = {}
    BY <2>4 DEF CachedFor
  <2> QED
    BY <1>3, <2>1, <2>3, <2>5, <2>6 DEF Cached, After
<1> QED
  BY <1>8, <1>14, <1>15 DEF k, r

\* A flush leaves nothing in the cache, but the entries that hits still read.
LEMMA ClearKeeps ==
  ASSUME IInv, Clear
  PROVE  IInv' /\ used' = <<>> /\ Cached' = [k \in Keys |-> {}]
<1>1. /\ flushes < MaxFlushes /\ flushes' = flushes + 1
      /\ items' = [k \in Keys |-> NoEntry]
      /\ evictList' = <<>>
      /\ call' = call
      /\ Observe(entry)
  BY DEF Clear
<1>2. flushes \in 0..MaxFlushes /\ MaxFlushes \in Nat
  BY CapacityAssumption DEF IInv, TypeOK
<1>3. used' = <<>>
  BY <1>1, <1>2 DEF Observe
<1>4. /\ <<>> \in Seq(EntryIds) /\ <<>> \in Seq(Keys) /\ Len(<<>>) = 0
      /\ ToSet(<<>>) = {} /\ IsInjective(<<>>)
  BY EmptySeq, ToSetEmpty DEF IsInjective
<1>5. Consistent(items', evictList', entry)
  BY <1>1, <1>4, CapacityAssumption DEF IInv, Consistent
<1>6. Answered'
  BY <1>1 DEF IInv, Answered
<1>7. IInv'
  <2>1. flushes' \in 0..MaxFlushes
    BY <1>1, <1>2
  <2>2. \A c \in Callers : call'[c].at = "found" =>
           /\ entry[call'[c].entry] \in Entries
           /\ entry[call'[c].entry].key = call'[c].key
           /\ entry[call'[c].entry].response
                 \in seen[c] \cup CachedFor(call'[c].key, items', entry)
    BY <1>1 DEF IInv, Readable, Finding
  <2>3. call' \in [Callers -> Calls]
    BY <1>1 DEF IInv, TypeOK
  <2>4. \A i \in 1..Len(evictList') : used'[i] = entry[evictList'[i]].key
    BY <1>1, <1>4
  <2> QED
    BY <1>1, <1>3, <1>4, <1>5, <1>6, <2>1, <2>2, <2>3, <2>4, ObserveKeeps
<1>8. Cached' = [k \in Keys |-> {}]
  BY <1>1, <1>5, ObserveEffect DEF Cached, CachedFor
<1> QED
  BY <1>3, <1>7, <1>8

-----------------------------------------------------------------------------
(* The theorems.                                                           *)

\* The invariant of the cache holds while the cache is empty.
LEMMA InitIInv ==
  ASSUME Init
  PROVE  IInv
<1>1. /\ <<>> \in Seq(EntryIds) /\ <<>> \in Seq(Keys) /\ Len(<<>>) = 0
      /\ ToSet(<<>>) = {} /\ IsInjective(<<>>)
  BY EmptySeq, ToSetEmpty DEF IsInjective
<1>2. Idle \in Calls /\ Idle.at = "idle"
  BY DEF Calls, Idle
<1>3. TypeOK
  BY <1>1, <1>2, CapacityAssumption DEF Init, TypeOK
<1>4. Consistent(items, evictList, entry)
  BY <1>1, CapacityAssumption DEF Init, Consistent
<1>5. Readable /\ Answered /\ Aligned
  BY <1>1, <1>2 DEF Init, Readable, Answered, Aligned, Finding
<1> QED
  BY <1>3, <1>4, <1>5 DEF IInv

\* Each step of the cache keeps its invariant.
LEMMA NextIInv ==
  ASSUME IInv, [Next]_vars
  PROVE  IInv'
<1>1. ASSUME NEW c \in Callers, NEW k \in Keys, Lookup(c, k)
      PROVE  IInv'
  BY <1>1, QuietKeeps, HitKeeps
<1>2. ASSUME NEW c \in Callers, ReturnHit(c) \/ BackendAnswers(c) \/ BackendFails(c)
      PROVE  IInv'
  BY <1>2, QuietKeeps
<1>3. ASSUME NEW c \in Callers, Store(c)
      PROVE  IInv'
  <2>1. Refresh(c) \/ Insert(c)
    BY <1>3 DEF Store
  <2> QED
    BY <1>3, <2>1, RefreshKeeps, InsertKeeps
<1>4. CASE Clear
  BY <1>4, ClearKeeps
<1>5. CASE UNCHANGED vars
  BY <1>5 DEF vars, IInv, TypeOK, Consistent, Readable, Answered, Aligned, Finding
<1> QED
  BY <1>1, <1>2, <1>3, <1>4, <1>5 DEF Next

\* The invariant of the cache holds in every state.
LEMMA Invariance == Spec => []IInv
<1>1. Init => IInv
  BY InitIInv
<1>2. IInv /\ [Next]_vars => IInv'
  BY NextIInv
<1> QED
  BY <1>1, <1>2, PTL DEF Spec

\* The cache never holds more than Capacity entries, and no lookup, answer, eviction or
\* flush leaves a variable outside its type.
THEOREM TypeCorrect == Spec => []TypeOK
<1>1. IInv => TypeOK
  BY DEF IInv
<1> QED
  BY <1>1, Invariance, PTL

\* The map and the list describe the same entries, in every interleaving of any number of
\* callers that miss, hit, store and flush together.
THEOREM CacheCoherent == Spec => []Coherent
<1>1. ASSUME IInv
      PROVE  Coherent
  <2>1. /\ evictList \in Seq(EntryIds)
        /\ Len(evictList) \in Nat
        /\ DOMAIN evictList = 1..Len(evictList)
        /\ ToSet(evictList) = {evictList[i] : i \in 1..Len(evictList)}
    BY <1>1, LenProperties, ToSetType DEF IInv, Consistent
  <2>2. \A i \in DOMAIN evictList : items[entry[evictList[i]].key] = evictList[i]
    BY <1>1, <2>1 DEF IInv, Consistent
  <2>3. \A k \in Keys :
           items[k] # NoEntry =>
              /\ items[k] \in ToSet(evictList)
              /\ entry[items[k]].key = k
              /\ entry[items[k]].response.of = k
    BY <1>1 DEF IInv, Consistent
  <2>4. IsInjective(evictList)
    BY <1>1 DEF IInv, Consistent
  <2> QED
    BY <2>2, <2>3, <2>4 DEF Coherent
<1> QED
  BY <1>1, Invariance, PTL

\* What a hit returns was the cached response of its prompt at some moment since it
\* looked it up, although the entry is read outside the mutex.
THEOREM HitsAreAtomic == Spec => []HitIsAtomic
<1>1. IInv => HitIsAtomic
  BY DEF IInv, Readable, HitIsAtomic
<1> QED
  BY <1>1, Invariance, PTL

-----------------------------------------------------------------------------
(* The refinement.                                                         *)

\* The abstract map reckons the uses as the history of the concurrent cache does.
LEMMA SameUse ==
  ASSUME NEW k \in Keys
  PROVE  LRU!Used(k) = Latest(k)
BY DEF LRU!Used, Latest, LRU!ToFront, ToFront, LRU!Position, Position, LRU!Front, Front,
       LRU!RemoveAt, RemoveAt, LRU!ToSet, ToSet

\* A hit reads the map, a stored answer writes it, a flush empties it, and no other step
\* of a caller changes it.
LEMMA StepImplements ==
  ASSUME IInv, [Next]_vars
  PROVE  [LRU!Next]_<<used, Cached>>
<1>1. ASSUME NEW c \in Callers, NEW k \in Keys, Lookup(c, k)
      PROVE  [LRU!Next]_<<used, Cached>>
  <2>1. CASE items[k] = NoEntry
    BY <1>1, <2>1, QuietKeeps
  <2>2. CASE items[k] # NoEntry
    <3>1. k \in ToSet(used) /\ used' = LRU!Used(k) /\ Cached' = Cached
      BY <1>1, <2>2, HitKeeps, SameUse
    <3>2. LRU!Read(k)
      BY <3>1 DEF LRU!Read, Cached, LRU!ToSet, ToSet
    <3> QED
      BY <3>2 DEF LRU!Next
  <2> QED
    BY <2>1, <2>2
<1>2. ASSUME NEW c \in Callers, ReturnHit(c) \/ BackendAnswers(c) \/ BackendFails(c)
      PROVE  [LRU!Next]_<<used, Cached>>
  BY <1>2, QuietKeeps
<1>3. ASSUME NEW c \in Callers, Store(c)
      PROVE  [LRU!Next]_<<used, Cached>>
  <2> DEFINE k == call[c].key
             r == call[c].response
  <2>1. k \in Keys /\ r \in Responses /\ r.of = k
    BY <1>3, CallType DEF Store, IInv, TypeOK, Answered
  <2>2. used' = Latest(k) /\ Cached' = After(k, r, used')
    <3>1. Refresh(c) \/ Insert(c)
      BY <1>3 DEF Store
    <3> QED
      BY <1>3, <3>1, RefreshKeeps, InsertKeeps
  <2> HIDE DEF k, r
  <2>3. used' = LRU!Used(k)
    BY <2>1, <2>2, SameUse
  <2>4. Cached' = [j \in Keys |-> IF j = k THEN {r}
                                  ELSE IF j \in ToSet(used') THEN Cached[j] ELSE {}]
    BY <2>2 DEF After
  <2>5. LRU!Write(k, r)
    BY <2>1, <2>3, <2>4 DEF LRU!Write, Cached, LRU!ToSet, ToSet
  <2>6. r \in LRU!Responses
    BY <2>1 DEF LRU!Responses, Responses
  <2> QED
    BY <2>1, <2>5, <2>6 DEF LRU!Next
<1>4. CASE Clear
  <2>1. LRU!Flush
    BY <1>4, ClearKeeps DEF LRU!Flush, Cached
  <2> QED
    BY <2>1 DEF LRU!Next
<1>5. CASE UNCHANGED vars
  BY <1>5 DEF vars, Cached, CachedFor
<1> QED
  BY <1>1, <1>2, <1>3, <1>4, <1>5 DEF Next

\* The concurrent cache implements the bounded map that keeps the Capacity prompts used
\* last: no interleaving of callers duplicates a prompt, evicts one out of turn, or loses
\* one that was not due.
THEOREM Implements == Spec => ImplementsLRU
<1>1. Init => LRU!Init
  BY DEF Init, LRU!Init, CachedFor
<1>2. IInv /\ [Next]_vars => [LRU!Next]_<<used, [k \in Keys |-> CachedFor(k, items, entry)]>>
  BY StepImplements DEF Cached
<1> QED
  BY <1>1, <1>2, Invariance, PTL DEF Spec, ImplementsLRU, LRU!Spec

-----------------------------------------------------------------------------
(* The circuit breaker.                                                    *)

\* The history variables describe the two fields of the breaker that the
\* branches read, as long as those branches can be reached.
HistoryAgrees ==
    /\ state = "CLOSED" => failures = streak
    /\ state = "OPEN" => elapsed = openFor

BreakerIInv ==
    /\ BreakerTypeOK
    /\ ClosedIffBelowThreshold
    /\ ProbeInFlight
    /\ HistoryAgrees

\* The variables keep their types: BreakerInit and every critical section of Complete
\* only store states, counts and ages of the declared ranges.
THEOREM BreakerTypeCorrect == BreakerSpec => []BreakerTypeOK
<1> USE CooldownAssumption DEF BreakerTypeOK, States, Reasons, Answers, Points
<1>1. BreakerInit => BreakerTypeOK
  BY DEF BreakerInit
<1>2. BreakerTypeOK /\ [BreakerNext]_breakerVars => BreakerTypeOK'
  <2> SUFFICES ASSUME BreakerTypeOK, [BreakerNext]_breakerVars
               PROVE  BreakerTypeOK'
    OBVIOUS
  <2>1. CASE \E c \in Clients : Begin(c)
    BY <2>1 DEF Begin, CurrentState
  <2>2. CASE \E c \in Clients : PrimarySucceeds(c)
    BY <2>2 DEF PrimarySucceeds, OnSuccess
  <2>3. CASE \E c \in Clients : PrimaryFails(c)
    BY <2>3 DEF PrimaryFails, OnFailure
  <2>4. CASE \E c \in Clients : FallbackReturns(c)
    <3> PICK c \in Clients : FallbackReturns(c)
      BY <2>4
    <3>1. answer' \in [Clients -> Answers]
      BY DEF FallbackReturns
    <3> QED
      BY <3>1 DEF FallbackReturns, breaker, history
  <2>5. CASE \E c \in Clients : Expire(c)
    BY <2>5 DEF Expire, breaker, history
  <2>6. CASE Tick
    BY <2>6 DEF Tick
  <2>7. CASE Outage
    BY <2>7 DEF Outage, breaker, history
  <2>8. CASE Recover
    BY <2>8 DEF Recover, breaker, history
  <2>9. CASE UNCHANGED breakerVars
    BY <2>9 DEF breakerVars
  <2> QED
    BY <2>1, <2>2, <2>3, <2>4, <2>5, <2>6, <2>7, <2>8, <2>9 DEF BreakerNext
<1> QED
  BY <1>1, <1>2, PTL DEF BreakerSpec

-----------------------------------------------------------------------------

\* Every step of the breaker preserves the inductive invariant: the threshold and
\* the state move together, and the circuit leaves HALF_OPEN in the very step in
\* which a call leaves the primary.
LEMMA BreakerStep == BreakerIInv /\ [BreakerNext]_breakerVars /\ BreakerTypeOK' => BreakerIInv'
<1> SUFFICES ASSUME BreakerIInv, [BreakerNext]_breakerVars, BreakerTypeOK'
             PROVE  (ClosedIffBelowThreshold /\ ProbeInFlight /\ HistoryAgrees)'
  BY DEF BreakerIInv
<1> USE ThresholdAssumption, CooldownAssumption
    DEF BreakerIInv, BreakerTypeOK, States, Points, ClosedIffBelowThreshold, ProbeInFlight, HistoryAgrees
<1>1. ASSUME NEW c \in Clients, Begin(c)
      PROVE  (ClosedIffBelowThreshold /\ ProbeInFlight /\ HistoryAgrees)'
  <2>1. (ClosedIffBelowThreshold /\ HistoryAgrees)'
    BY <1>1 DEF Begin, CurrentState
  <2>2. ProbeInFlight'
    BY <1>1 DEF Begin, CurrentState
  <2> QED
    BY <2>1, <2>2
<1>2. ASSUME NEW c \in Clients, PrimarySucceeds(c)
      PROVE  (ClosedIffBelowThreshold /\ ProbeInFlight /\ HistoryAgrees)'
  BY <1>2 DEF PrimarySucceeds, OnSuccess
<1>3. ASSUME NEW c \in Clients, PrimaryFails(c)
      PROVE  (ClosedIffBelowThreshold /\ ProbeInFlight /\ HistoryAgrees)'
  BY <1>3 DEF PrimaryFails, OnFailure
<1>4. ASSUME NEW c \in Clients, FallbackReturns(c)
      PROVE  (ClosedIffBelowThreshold /\ ProbeInFlight /\ HistoryAgrees)'
  BY <1>4 DEF FallbackReturns, breaker, history
<1>5. ASSUME NEW c \in Clients, Expire(c)
      PROVE  (ClosedIffBelowThreshold /\ ProbeInFlight /\ HistoryAgrees)'
  BY <1>5 DEF Expire, breaker, history
<1>6. CASE Tick
  BY <1>6 DEF Tick
<1>7. CASE Outage
  BY <1>7 DEF Outage, breaker, history
<1>8. CASE Recover
  BY <1>8 DEF Recover, breaker, history
<1>9. CASE UNCHANGED breakerVars
  BY <1>9 DEF breakerVars
<1> QED
  BY <1>1, <1>2, <1>3, <1>4, <1>5, <1>6, <1>7, <1>8, <1>9 DEF BreakerNext

\* BreakerIInv is an invariant of the specification.
THEOREM BreakerInvariance == BreakerSpec => []BreakerIInv
<1>1. BreakerInit => BreakerIInv
  BY ThresholdAssumption, CooldownAssumption
  DEF BreakerInit, BreakerIInv, BreakerTypeOK, States, Points, Answers, Reasons,
      ClosedIffBelowThreshold, ProbeInFlight, HistoryAgrees
<1>2. BreakerIInv /\ [BreakerNext]_breakerVars /\ BreakerTypeOK' => BreakerIInv'
  BY BreakerStep
<1> QED
  BY <1>1, <1>2, BreakerTypeCorrect, PTL DEF BreakerSpec

\* The state of the circuit and the failure count never disagree about whether
\* the threshold has been reached.
THEOREM ThresholdSafety == BreakerSpec => []ClosedIffBelowThreshold
<1>1. BreakerIInv => ClosedIffBelowThreshold
  BY DEF BreakerIInv
<1> QED
  BY <1>1, BreakerInvariance, PTL

\* A HALF_OPEN circuit always has a call in flight whose outcome will decide it.
THEOREM ProbeSafety == BreakerSpec => []ProbeInFlight
<1>1. BreakerIInv => ProbeInFlight
  BY DEF BreakerIInv
<1> QED
  BY <1>1, BreakerInvariance, PTL

\* A CLOSED circuit opens exactly in the step that records the threshold-th
\* failure in a row, whatever stale outcomes are recorded around it.
THEOREM OpensOnStreak == BreakerSpec => OpensExactlyOnStreak
<1>1. BreakerIInv /\ [BreakerNext]_breakerVars
        => [state = "CLOSED" => (state' = "OPEN" <=> streak' >= Threshold)]_breakerVars
  <2> SUFFICES ASSUME BreakerIInv, BreakerNext, state = "CLOSED"
               PROVE  state' = "OPEN" <=> streak' >= Threshold
    OBVIOUS
  <2> USE ThresholdAssumption
      DEF BreakerIInv, BreakerTypeOK, States, ClosedIffBelowThreshold, HistoryAgrees
  <2>1. CASE \E c \in Clients : PrimaryFails(c)
    BY <2>1 DEF PrimaryFails, OnFailure
  <2>2. CASE \E c \in Clients : PrimarySucceeds(c)
    BY <2>2 DEF PrimarySucceeds, OnSuccess
  <2>3. CASE \E c \in Clients : Begin(c)
    BY <2>3 DEF Begin, CurrentState
  <2>4. CASE \E c \in Clients : FallbackReturns(c) \/ Expire(c)
    BY <2>4 DEF FallbackReturns, Expire, breaker, history
  <2>5. CASE Tick \/ Outage \/ Recover
    BY <2>5 DEF Tick, Outage, Recover, breaker, history
  <2> QED
    BY <2>1, <2>2, <2>3, <2>4, <2>5 DEF BreakerNext
<1> QED
  BY <1>1, BreakerInvariance, PTL DEF BreakerSpec, OpensExactlyOnStreak

\* A call is kept from the primary exactly while the circuit is OPEN and tripped
\* less than a cooldown ago.
THEOREM FailFast == BreakerSpec => FailFastExactlyForCooldown
<1> DEFINE Gate == \A c \in Clients :
              pc[c] = "idle" /\ pc'[c] # "idle"
                => (pc'[c] = "fallback" <=> state = "OPEN" /\ openFor < Cooldown)
<1>1. BreakerIInv /\ [BreakerNext]_breakerVars => [Gate]_breakerVars
  <2> SUFFICES ASSUME BreakerIInv, BreakerNext, NEW c \in Clients,
                      pc[c] = "idle", pc'[c] # "idle"
               PROVE  pc'[c] = "fallback" <=> state = "OPEN" /\ openFor < Cooldown
    OBVIOUS
  <2> USE DEF BreakerIInv, BreakerTypeOK, States, Points
  <2>1. Begin(c)
    <3>1. ASSUME NEW d \in Clients, d # c
          PROVE  ~(Begin(d) \/ PrimarySucceeds(d) \/ PrimaryFails(d)
                    \/ FallbackReturns(d) \/ Expire(d))
      BY <3>1 DEF Begin, PrimarySucceeds, PrimaryFails, FallbackReturns, Expire
    <3>2. ~(PrimarySucceeds(c) \/ PrimaryFails(c) \/ FallbackReturns(c) \/ Expire(c))
      BY DEF PrimarySucceeds, PrimaryFails, FallbackReturns, Expire
    <3>3. ~(Tick \/ Outage \/ Recover)
      BY DEF Tick, Outage, Recover
    <3> QED
      BY <3>1, <3>2, <3>3 DEF BreakerNext
  <2>2. pc'[c] = "fallback" <=> CurrentState = "OPEN"
    BY <2>1 DEF Begin
  <2>3. CurrentState = "OPEN" <=> state = "OPEN" /\ openFor < Cooldown
    BY CooldownAssumption DEF CurrentState, HistoryAgrees
  <2> QED
    BY <2>2, <2>3
<1> QED
  BY <1>1, BreakerInvariance, PTL DEF BreakerSpec, FailFastExactlyForCooldown

=============================================================================
