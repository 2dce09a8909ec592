----------------------------- MODULE ScannersProofs ---------------------------
(***************************************************************************)
(* The properties of the tools that read a text or a directory, for texts  *)
(* of any length.                                                          *)
(*                                                                         *)
(* A section for each handler shows what its recursive functions make of a *)
(* text, by going along it.  The invariant then says which texts there are *)
(* and that an answer is what the handler makes of the text, whatever else *)
(* has happened in between; the theorems apply the one to the other.       *)
(***************************************************************************)
EXTENDS Scanners, SequenceLemmas

-----------------------------------------------------------------------------
(* Diffs.                                                                  *)

ScanStates == [file : FileNames, line : Nat, found : Seq(Secrets)]

\* What one line adds to the findings.
Hits(scan, line) ==
    IF line.kind = "added" /\ ~LikeHeader(line)
    THEN {Finding(scan, line.secrets[n]) : n \in DOMAIN line.secrets} ELSE {}

\* What one line does to each part of the state of Scan.
LEMMA LineScanned ==
  ASSUME NEW scan \in ScanStates, NEW line, IsDiffLine(line)
  PROVE  /\ ScanLine(scan, line) \in ScanStates
         /\ ScanLine(scan, line).file = IF LikeHeader(line) THEN line.file ELSE scan.file
         /\ line.kind = "hunk" => ScanLine(scan, line).line = line.start
         /\ line.kind \in {"context", "marker"} \/ (line.kind = "added" /\ ~LikeHeader(line)) =>
               ScanLine(scan, line).line = scan.line + 1
         /\ line.kind \in {"header", "old header", "removed"} =>
               ScanLine(scan, line).line = scan.line
         /\ Range(ScanLine(scan, line).found) = Range(scan.found) \cup Hits(scan, line)
<1> DEFINE r == ScanLine(scan, line)
<1>1. scan.file \in FileNames /\ scan.line \in Nat /\ scan.found \in Seq(Secrets)
  BY DEF ScanStates
<1>2. CASE LikeHeader(line)
  <2>1. r = [scan EXCEPT !.file = line.file]
    BY <1>2 DEF ScanLine, LikeHeader, LikeOldHeader
  <2>2. line.kind \in {"header", "added"} /\ line.file \in FileNames
    BY <1>2 DEF LikeHeader, IsDiffLine, FileNames
  <2>3. r = [file |-> line.file, line |-> scan.line, found |-> scan.found]
    BY <2>1 DEF ScanStates
  <2> QED
    BY <1>1, <1>2, <2>2, <2>3 DEF ScanStates, Hits
<1>3. CASE line.kind = "hunk"
  <2>1. ~LikeHeader(line)
    BY <1>3 DEF LikeHeader
  <2>2. r = [scan EXCEPT !.line = line.start]
    BY <1>3, <2>1 DEF ScanLine, LikeHeader, LikeOldHeader
  <2>3. r = [file |-> scan.file, line |-> line.start, found |-> scan.found] /\ line.start \in Nat
    BY <1>3, <2>2 DEF ScanStates, IsDiffLine
  <2> QED
    BY <1>1, <1>3, <2>1, <2>3 DEF ScanStates, Hits
<1>4. CASE line.kind = "added" /\ ~LikeHeader(line)
  <2> DEFINE hits == [n \in DOMAIN line.secrets |-> Finding(scan, line.secrets[n])]
  <2>1. ~LikeOldHeader(line)
    BY <1>4 DEF LikeOldHeader
  <2>2. r = [scan EXCEPT !.found = @ \o hits, !.line = @ + 1]
    BY <1>4, <2>1 DEF ScanLine
  <2>3. line.secrets \in Seq(STRING)
    BY <1>4 DEF IsDiffLine
  <2>4. hits \in Seq(Secrets) /\ Range(hits) = Hits(scan, line)
    <3>1. DOMAIN line.secrets = 1..Len(line.secrets) /\ Len(line.secrets) \in Nat
      BY <2>3, LenProperties
    <3>2. \A n \in DOMAIN line.secrets : line.secrets[n] \in STRING
      BY <2>3, ElementOfSeq, <3>1
    <3>3. hits \in [1..Len(line.secrets) -> Secrets]
      BY <1>1, <3>1, <3>2 DEF Finding, Secrets
    <3>4. hits \in Seq(Secrets)
      BY <3>1, <3>3, SeqDef
    <3> QED
      BY <1>4, <3>4 DEF Range, Hits
  <2> HIDE DEF hits
  <2>5. r = [file |-> scan.file, line |-> scan.line + 1, found |-> scan.found \o hits]
    BY <2>2 DEF ScanStates
  <2>6. /\ scan.found \o hits \in Seq(Secrets)
        /\ Range(scan.found \o hits) = Range(scan.found) \cup Range(hits)
    BY <1>1, <2>4, ConcatProperties, RangeConcatenation
  <2> QED
    BY <1>1, <1>4, <2>4, <2>5, <2>6 DEF ScanStates
<1>5. CASE line.kind \in {"old header", "removed"}
  <2>1. ~LikeHeader(line)
    BY <1>5 DEF LikeHeader
  <2>2. r = scan
    BY <1>5, <2>1 DEF ScanLine, LikeOldHeader
  <2> QED
    BY <1>1, <1>5, <2>1, <2>2 DEF Hits
<1>6. CASE line.kind \in {"context", "marker"}
  <2>1. ~LikeHeader(line) /\ ~LikeOldHeader(line)
    BY <1>6 DEF LikeHeader, LikeOldHeader
  <2>2. r = [scan EXCEPT !.line = @ + 1]
    BY <1>6, <2>1 DEF ScanLine
  <2>3. r = [file |-> scan.file, line |-> scan.line + 1, found |-> scan.found]
    BY <2>2 DEF ScanStates
  <2>4. r \in ScanStates
    BY <1>1, <2>3 DEF ScanStates
  <2>5. r.file = scan.file /\ r.line = scan.line + 1 /\ r.found = scan.found
    BY <2>3
  <2>6. Hits(scan, line) = {}
    BY <1>6 DEF Hits
  <2> HIDE DEF r
  <2> QED
    BY <1>6, <2>1, <2>4, <2>5, <2>6 DEF r
<1>7. \/ LikeHeader(line) \/ line.kind = "hunk" \/ (line.kind = "added" /\ ~LikeHeader(line))
      \/ line.kind \in {"old header", "removed"} \/ line.kind \in {"context", "marker"}
  BY DEF IsDiffLine, LikeHeader
<1> QED
  BY <1>2, <1>3, <1>4, <1>5, <1>6, <1>7

\* The definition of Scan computes what it says, a line after the other.
LEMMA ScanSteps ==
  ASSUME NEW L, \A line \in L : IsDiffLine(line), NEW diff \in Seq(L)
  PROVE  /\ Len(diff) \in Nat /\ \A k \in 1..Len(diff) : IsDiffLine(diff[k])
         /\ Scanned(diff)[0] = [file |-> "", line |-> 0, found |-> <<>>]
         /\ \A k \in 0..Len(diff) : Scanned(diff)[k] \in ScanStates
         /\ \A k \in 1..Len(diff) : Scanned(diff)[k] = ScanLine(Scanned(diff)[k-1], diff[k])
<1> DEFINE N == Len(diff)
           start == [file |-> "", line |-> 0, found |-> <<>>]
           step == [x \in ScanStates \X (1..N) |-> ScanLine(x[1], diff[x[2]])]
           body(f, k) == IF k = 0 THEN start ELSE ScanLine(f[k-1], diff[k])
<1>1. N \in Nat /\ \A k \in 1..N : IsDiffLine(diff[k])
  BY LenProperties, ElementOfSeq
<1>2. start \in ScanStates
  <2>1. <<>> \in Seq(Secrets)
    OBVIOUS
  <2> QED
    BY <2>1 DEF ScanStates, FileNames
<1>3. step \in [ScanStates \X (1..N) -> ScanStates]
  BY <1>1, LineScanned
<1>4. \A x \in ScanStates, k \in 1..N : step[<<x, k>>] = ScanLine(x, diff[k])
  OBVIOUS
<1> HIDE DEF step, start
<1>5. PICK h : Computes(h, ScanStates, N, start, step)
  BY <1>1, <1>2, <1>3, Recursion, Zenon
<1>6. h = [k \in 0..N |-> body(h, k)]
  <2>1. ASSUME NEW k \in 0..N
        PROVE  h[k] = body(h, k)
    <3>1. CASE k = 0
      BY <1>5, <3>1 DEF Computes
    <3>2. CASE k # 0
      <4>1. k \in 1..N /\ k - 1 \in 0..N
        BY <1>1, <3>2
      <4>2. h[k-1] \in ScanStates /\ h[k] = step[<<h[k-1], k>>]
        BY <1>5, <4>1 DEF Computes
      <4> QED
        BY <1>4, <3>2, <4>1, <4>2
    <3> QED
      BY <3>1, <3>2
  <2> HIDE DEF body
  <2> QED
    BY <1>5, <2>1 DEF Computes
<1> DEFINE s == Scanned(diff)
<1>7. s = [k \in 0..N |-> body(s, k)]
  <2>1. s = CHOOSE f : f = [k \in 0..N |-> body(f, k)]
    BY DEF Scanned, start
  <2> HIDE DEF s, body
  <2> QED
    BY <1>6, <2>1
<1> HIDE DEF s
<1>8. s[0] = start /\ \A k \in 1..N : s[k] = ScanLine(s[k-1], diff[k])
  BY <1>1, <1>7
<1> DEFINE G == {k \in 0..N : s[k] \in ScanStates}
<1>9. 0 \in G
  BY <1>1, <1>2, <1>8
<1>10. ASSUME NEW k \in 1..N, k - 1 \in G
       PROVE  k \in G
  <2>1. k \in 0..N /\ s[k-1] \in ScanStates /\ IsDiffLine(diff[k])
    BY <1>1, <1>10
  <2>2. s[k] \in ScanStates
    BY <1>8, <2>1, LineScanned
  <2> QED
    BY <2>1, <2>2
<1> HIDE DEF G
<1>11. \A k \in 0..N : k \in G
  BY <1>1, <1>9, <1>10, UpTo, Zenon
<1> QED
  BY <1>1, <1>8, <1>11 DEF G, s, start

\* The last line of a kind up to k: there is none after it.
LEMMA LastOfIs ==
  ASSUME NEW diff, NEW k \in Nat, NEW kind
  PROVE  /\ LastOf(diff, k, kind) \in 0..k
         /\ LastOf(diff, k, kind) # 0 => diff[LastOf(diff, k, kind)].kind = kind
         /\ \A j \in LastOf(diff, k, kind)+1..k : diff[j].kind # kind
<1> DEFINE T == {0} \cup {j \in 1..k : diff[j].kind = kind}
<1>1. T \subseteq Nat /\ T # {} /\ \A n \in T : n <= k
  OBVIOUS
<1>2. Max(T) \in T /\ \A n \in T : n <= Max(T)
  <2> HIDE DEF T
  <2> QED
    BY <1>1, MaxIsGreatest
<1>3. LastOf(diff, k, kind) = Max(T)
  BY DEF LastOf
<1> HIDE DEF LastOf
<1>4. ASSUME NEW j \in LastOf(diff, k, kind)+1..k
      PROVE  diff[j].kind # kind
  BY <1>1, <1>2, <1>3
<1> QED
  BY <1>2, <1>3, <1>4

\* That is the only such line.
LEMMA LastOfEquals ==
  ASSUME NEW diff, NEW k \in Nat, NEW kind, NEW m \in 0..k,
         m # 0 => diff[m].kind = kind, \A j \in m+1..k : diff[j].kind # kind
  PROVE  LastOf(diff, k, kind) = m
<1> DEFINE l == LastOf(diff, k, kind)
<1>1. l \in 0..k /\ (l # 0 => diff[l].kind = kind) /\ \A j \in l+1..k : diff[j].kind # kind
  BY LastOfIs
<1> HIDE DEF l
<1>2. ~(l < m)
  <2> SUFFICES ASSUME l < m PROVE FALSE
    OBVIOUS
  <2>1. m \in l+1..k /\ m # 0
    BY <1>1
  <2> QED
    BY <1>1, <2>1
<1>3. ~(m < l)
  <2> SUFFICES ASSUME m < l PROVE FALSE
    OBVIOUS
  <2>1. l \in m+1..k /\ l # 0
    BY <1>1
  <2> QED
    BY <1>1, <2>1
<1> QED
  BY <1>1, <1>2, <1>3 DEF l

\* The last line of a kind is the k-th, or else that of the line before.
LEMMA LastOfStep ==
  ASSUME NEW diff, NEW k \in Nat \ {0}, NEW kind
  PROVE  LastOf(diff, k, kind) = IF diff[k].kind = kind THEN k ELSE LastOf(diff, k-1, kind)
<1>1. CASE diff[k].kind = kind
  BY <1>1, LastOfEquals
<1>2. CASE diff[k].kind # kind
  <2> DEFINE m == LastOf(diff, k-1, kind)
  <2>1. m \in 0..k-1 /\ (m # 0 => diff[m].kind = kind) /\ \A j \in m+1..k-1 : diff[j].kind # kind
    BY LastOfIs
  <2> HIDE DEF m
  <2>2. \A j \in m+1..k : diff[j].kind # kind
    BY <1>2, <2>1
  <2>3. LastOf(diff, k, kind) = m
    BY <2>1, <2>2, LastOfEquals
  <2> QED
    BY <1>2, <2>3 DEF m
<1> QED
  BY <1>1, <1>2

\* A diff as git writes it: a file begins with a header, perhaps after that of the old
\* file, and then come its hunks, each of which begins with its place.
WellFormedDiff(diff) ==
    \A k \in DOMAIN diff :
        LET first == k = 1
            last == diff[k-1].kind
        IN  CASE diff[k].kind = "header"     -> first \/ last = "old header"
              [] diff[k].kind = "hunk"       -> ~first /\ last # "old header"
              [] diff[k].kind = "old header" -> ~first /\ last \notin {"header", "old header"}
              [] diff[k].kind = "marker"     -> ~first /\ last \in {"added", "removed", "context"}
              [] OTHER                       -> ~first /\ last \notin {"header", "old header"}

\* What is added is in a hunk, and the hunk in a file.
LEMMA InHunk ==
  ASSUME NEW L, NEW diff \in Seq(L), WellFormedDiff(diff),
         NEW k \in 1..Len(diff), diff[k].kind = "added"
  PROVE  /\ LastOf(diff, k, "header") # 0
         /\ LastOf(diff, k, "hunk") > LastOf(diff, k, "header")
<1> DEFINE h == LastOf(diff, k, "header")
           u == LastOf(diff, k, "hunk")
<1>1. k \in Nat /\ DOMAIN diff = 1..Len(diff) /\ Len(diff) \in Nat
  BY LenProperties
<1>2. /\ h \in 0..k /\ (h # 0 => diff[h].kind = "header")
      /\ \A j \in h+1..k : diff[j].kind # "header"
  BY <1>1, LastOfIs
<1>3. u \in 0..k /\ \A j \in u+1..k : diff[j].kind # "hunk"
  BY <1>1, LastOfIs
<1> HIDE DEF h, u
<1>4. diff[1].kind = "header"
  <2>1. 1 \in DOMAIN diff
    BY <1>1
  <2> QED
    BY <2>1 DEF WellFormedDiff
<1>5. h # 0
  <2> SUFFICES ASSUME h = 0 PROVE FALSE
    OBVIOUS
  <2>1. 1 \in h+1..k
    BY <1>1
  <2> QED
    BY <1>2, <1>4, <2>1
<1>6. h + 1 \in 1..k /\ h + 1 # 1 /\ h \in Nat /\ (h + 1) - 1 = h
  BY <1>1, <1>2, <1>5
<1>7. diff[h+1].kind = "hunk"
  <2>1. h + 1 \in DOMAIN diff /\ diff[(h + 1) - 1].kind = "header"
    BY <1>1, <1>2, <1>5, <1>6
  <2>2. diff[h+1].kind # "header"
    BY <1>2, <1>6
  <2> QED
    BY <1>6, <2>1, <2>2 DEF WellFormedDiff
<1>8. u > h
  <2> SUFFICES ASSUME ~(u > h) PROVE FALSE
    OBVIOUS
  <2>1. h + 1 \in u+1..k
    BY <1>3, <1>6
  <2> QED
    BY <1>3, <1>7, <2>1
<1> QED
  BY <1>5, <1>8 DEF h, u

\* An added line that Scan takes for a header, and what it counts though it is no line.
Fake(diff, j) == diff[j].kind = "added" /\ LikeHeader(diff[j])
Counted(diff, j) == diff[j].kind \in {"context", "added"}

\* After n lines Scan is where the diff is: in the file of the last header, and at the
\* line that the hunk has come to, unless it has been misled; and it has found what was
\* on each of the lines.
LEMMA ScanKeepsPlace ==
  ASSUME NEW L, \A line \in L : IsDiffLine(line), NEW diff \in Seq(L),
         NEW n \in 0..Len(diff)
  PROVE  LET scan == Scanned(diff)
             h == LastOf(diff, n, "header")
             u == LastOf(diff, n, "hunk")
         IN  /\ h # 0 /\ (\A j \in h+1..n : ~Fake(diff, j)) => scan[n].file = diff[h].file
             /\ u # 0 /\ (\A j \in u+1..n : diff[j].kind # "marker" /\ ~Fake(diff, j)) =>
                   scan[n].line = diff[u].start + Cardinality({j \in u+1..n : Counted(diff, j)})
             /\ Range(scan[n].found) = UNION {Hits(scan[k-1], diff[k]) : k \in 1..n}
<1> DEFINE s == Scanned(diff)
           N == Len(diff)
           h(k) == LastOf(diff, k, "header")
           u(k) == LastOf(diff, k, "hunk")
           Clean(k) == diff[k].kind # "marker" /\ ~Fake(diff, k)
           File(k) == h(k) # 0 /\ (\A j \in h(k)+1..k : ~Fake(diff, j)) => s[k].file = diff[h(k)].file
           Line(k) == u(k) # 0 /\ (\A j \in u(k)+1..k : Clean(j)) =>
                   s[k].line = diff[u(k)].start + Cardinality({j \in u(k)+1..k : Counted(diff, j)})
           Found(k) == Range(s[k].found) = UNION {Hits(s[i-1], diff[i]) : i \in 1..k}
           G == {k \in 0..N : File(k) /\ Line(k) /\ Found(k)}
<1>0. N \in Nat
  BY LenProperties
<1>1. /\ \A k \in 1..N : IsDiffLine(diff[k])
      /\ s[0] = [file |-> "", line |-> 0, found |-> <<>>]
      /\ \A k \in 0..N : s[k] \in ScanStates
      /\ \A k \in 1..N : s[k] = ScanLine(s[k-1], diff[k])
  BY ScanSteps, Zenon
<1> HIDE DEF s, N
<1>2. 0 \in G
  <2>1. h(0) = 0 /\ u(0) = 0
    BY LastOfIs
  <2>2. File(0) /\ Line(0)
    BY <2>1, Zenon
  <2>3. Range(s[0].found) = {}
    <3>1. s[0] = [file |-> "", line |-> 0, found |-> <<>>]
      BY <1>1
    <3>2. ASSUME NEW z, z = [file |-> "", line |-> 0, found |-> <<>>]
          PROVE  z.found = <<>>
      BY <3>2
    <3>3. s[0].found = <<>>
      BY <3>1, <3>2, Zenon
    <3> QED
      BY <3>3 DEF Range
  <2>4. UNION {Hits(s[i-1], diff[i]) : i \in 1..0} = {}
    OBVIOUS
  <2>5. Found(0)
    BY <2>3, <2>4, Zenon
  <2> HIDE DEF File, Line, Found
  <2> QED
    BY <1>0, <2>2, <2>5
<1>3. ASSUME NEW k \in 1..N, k - 1 \in G
      PROVE  k \in G
  <2> DEFINE r == s[k-1]
             line == diff[k]
  <2>1. k \in 0..N /\ k - 1 \in 0..N /\ k \in Nat \ {0} /\ k - 1 \in Nat
    BY <1>0
  <2>2. /\ r \in ScanStates /\ IsDiffLine(line) /\ s[k] = ScanLine(r, line)
        /\ File(k-1) /\ Line(k-1) /\ Found(k-1)
    BY <1>1, <1>3, <2>1
  <2> HIDE DEF r, line, File, Line, Found
  <2>3. /\ s[k].file = IF LikeHeader(line) THEN line.file ELSE r.file
        /\ line.kind = "hunk" => s[k].line = line.start
        /\ line.kind \in {"context", "marker"} \/ (line.kind = "added" /\ ~LikeHeader(line)) =>
              s[k].line = r.line + 1
        /\ line.kind \in {"header", "old header", "removed"} => s[k].line = r.line
        /\ Range(s[k].found) = Range(r.found) \cup Hits(r, line)
    <3> DEFINE t == ScanLine(r, line)
    <3>1. /\ t.file = IF LikeHeader(line) THEN line.file ELSE r.file
          /\ line.kind = "hunk" => t.line = line.start
          /\ line.kind \in {"context", "marker"} \/ (line.kind = "added" /\ ~LikeHeader(line)) =>
                t.line = r.line + 1
          /\ line.kind \in {"header", "old header", "removed"} => t.line = r.line
          /\ Range(t.found) = Range(r.found) \cup Hits(r, line)
      BY <2>2, LineScanned
    <3>2. s[k] = t
      BY <2>2
    <3> HIDE DEF t
    <3> QED
      BY <3>1, <3>2
  <2>4. /\ h(k) = IF line.kind = "header" THEN k ELSE h(k-1)
        /\ u(k) = IF line.kind = "hunk" THEN k ELSE u(k-1)
    BY <2>1, LastOfStep DEF line
  <2>8. h(k-1) \in 0..k-1 /\ u(k-1) \in 0..k-1
    BY <2>1, LastOfIs
  <2>9. u(k-1) # 0 => diff[u(k-1)].kind = "hunk"
    BY <2>1, LastOfIs
  <2> HIDE DEF h, u
  <2>5. File(k)
    <3> SUFFICES ASSUME h(k) # 0, \A j \in h(k)+1..k : ~Fake(diff, j)
                 PROVE  s[k].file = diff[h(k)].file
      BY DEF File
    <3>1. CASE line.kind = "header"
      BY <2>3, <2>4, <3>1 DEF LikeHeader, line
    <3>2. CASE line.kind # "header"
      <4>1. h(k) = h(k-1) /\ k \in h(k)+1..k /\ \A j \in h(k)+1..k-1 : ~Fake(diff, j)
        BY <2>1, <2>4, <2>8, <3>2
      <4>2. ~LikeHeader(line)
        BY <3>2, <4>1 DEF Fake, LikeHeader, line
      <4>3. r.file = diff[h(k)].file
        BY <2>2, <4>1 DEF File, r
      <4> QED
        BY <2>3, <4>2, <4>3
    <3> QED
      BY <3>1, <3>2
  <2>6. Line(k)
    <3> SUFFICES ASSUME u(k) # 0, \A j \in u(k)+1..k : Clean(j)
                 PROVE  s[k].line = diff[u(k)].start
                                    + Cardinality({j \in u(k)+1..k : Counted(diff, j)})
      BY DEF Line
    <3>1. CASE line.kind = "hunk"
      <4>1. {j \in u(k)+1..k : Counted(diff, j)} = {} /\ u(k) = k
        BY <2>1, <2>4, <3>1
      <4>2. line.start \in Nat
        BY <2>2, <3>1 DEF IsDiffLine
      <4>3. Cardinality({j \in u(k)+1..k : Counted(diff, j)}) = 0
        BY <4>1, FS_EmptySet
      <4>4. s[k].line = diff[u(k)].start
        BY <2>3, <3>1, <4>1 DEF line
      <4> QED
        BY <3>1, <4>1, <4>2, <4>3, <4>4 DEF line
    <3>2. CASE line.kind # "hunk"
      <4> DEFINE v == u(k)
                 before == {j \in v+1..k-1 : Counted(diff, j)}
                 now == {j \in v+1..k : Counted(diff, j)}
      <4>1. v = u(k-1) /\ v \in 0..k-1 /\ Clean(k) /\ \A j \in v+1..k-1 : Clean(j)
        BY <2>1, <2>4, <2>8, <3>2
      <4>2. r.line = diff[v].start + Cardinality(before)
        BY <2>2, <4>1 DEF Line, r
      <4>3. IsFiniteSet(before) /\ k \notin before
        <5>1. v + 1 \in Int /\ k - 1 \in Int
          BY <2>1, <4>1
        <5>2. before \in SUBSET (v+1..k-1)
          OBVIOUS
        <5>3. IsFiniteSet(v+1..k-1)
          BY <5>1, FS_Interval
        <5>4. IsFiniteSet(before)
          BY <5>2, <5>3, FS_Subset
        <5>5. k \notin before
          BY <2>1
        <5> QED
          BY <5>4, <5>5
      <4>4. Cardinality(before) \in Nat
        BY <4>3, FS_CardinalityType
      <4>5. diff[v].start \in Nat
        <5>1. v \in 1..k /\ diff[v].kind = "hunk" /\ v \in 1..N
          BY <1>0, <2>1, <2>9, <4>1
        <5> QED
          BY <1>1, <5>1 DEF IsDiffLine
      <4>6. CASE line.kind \in {"context", "added"}
        <5>1. now = before \cup {k}
          BY <2>1, <4>1, <4>6 DEF Counted, line
        <5>2. Cardinality(now) = Cardinality(before) + 1
          BY <4>3, <5>1, FS_AddElement
        <5>3. s[k].line = r.line + 1
          BY <2>3, <4>1, <4>6 DEF Fake, line
        <5> HIDE DEF before, now
        <5>4. s[k].line = diff[v].start + Cardinality(now)
          BY <4>2, <4>4, <4>5, <5>2, <5>3
        <5> QED
          BY <5>4 DEF now
      <4>7. CASE line.kind \notin {"context", "added"}
        <5>1. now = before
          BY <2>1, <4>1, <4>7 DEF Counted, line
        <5>2. line.kind \in {"header", "old header", "removed"}
          BY <2>2, <3>2, <4>1, <4>7 DEF IsDiffLine, line
        <5>3. s[k].line = r.line
          BY <2>3, <5>2
        <5> HIDE DEF before, now
        <5>4. s[k].line = diff[v].start + Cardinality(now)
          BY <4>2, <5>1, <5>3
        <5> QED
          BY <5>4 DEF now
      <4> QED
        BY <4>6, <4>7
    <3> QED
      BY <3>1, <3>2
  <2>7. Found(k)
    <3> DEFINE H == [i \in 1..N |-> Hits(s[i-1], diff[i])]
    <3>1. /\ UNION {H[i] : i \in 1..k} = UNION {Hits(s[i-1], diff[i]) : i \in 1..k}
          /\ UNION {H[i] : i \in 1..k-1} = UNION {Hits(s[i-1], diff[i]) : i \in 1..k-1}
          /\ H[k] = Hits(r, line)
      <4>1. k \in 1..N /\ 1..k \subseteq 1..N /\ 1..k-1 \subseteq 1..N
        BY <1>0, <2>1
      <4>2. \A i \in 1..N : H[i] = Hits(s[i-1], diff[i])
        OBVIOUS
      <4> HIDE DEF H
      <4>3. H[k] = Hits(r, line)
        BY <4>1, <4>2, Zenon DEF r, line
      <4> QED
        BY <4>1, <4>2, <4>3
    <3> DEFINE U(m) == UNION {H[i] : i \in 1..m}
    <3> HIDE DEF H
    <3>2. U(k) = U(k-1) \cup H[k]
      BY <2>1, UnionUpTo
    <3>3. Range(r.found) = U(k-1)
      BY <2>2, <3>1, Zenon DEF Found, r
    <3>4. Range(s[k].found) = Range(r.found) \cup Hits(r, line)
      BY <2>3
    <3>5. H[k] = Hits(r, line)
      BY <3>1
    <3> HIDE DEF U
    <3>6. Range(s[k].found) = U(k)
      BY <3>2, <3>3, <3>4, <3>5
    <3> QED
      BY <3>1, <3>6, Zenon DEF Found, U
  <2> QED
    BY <2>1, <2>5, <2>6, <2>7
<1> HIDE DEF G, File, Line, Found
<1>4. \A k \in 0..N : k \in G
  BY <1>0, <1>2, <1>3, UpTo, Zenon
<1>5. n \in G
  BY <1>4 DEF N
<1>6. File(n) /\ Line(n) /\ Found(n)
  BY <1>5 DEF G
<1> QED
  BY <1>6, Zenon DEF File, Line, Found, s

\* The findings at the place where a line of the new file has its secrets.
Places(diff, k) ==
    {[line |-> TrueLine(diff, k), file |-> diff[LastOf(diff, k, "header")].file,
      type |-> diff[k].secrets[n]] : n \in DOMAIN diff[k].secrets}

\* What Scan finds on a line that it has not been misled about is there.
LEMMA HitsLocated ==
  ASSUME NEW L, \A line \in L : IsDiffLine(line), NEW diff \in Seq(L), WellFormedDiff(diff),
         NEW k \in 1..Len(diff), diff[k].kind = "added", ~Misled(diff, k)
  PROVE  Hits(Scanned(diff)[k-1], diff[k]) = Places(diff, k)
<1> DEFINE s == Scanned(diff)
           h == LastOf(diff, k, "header")
           u == LastOf(diff, k, "hunk")
<1>1. k \in Nat \ {0} /\ k - 1 \in 0..Len(diff)
  BY LenProperties
<1>2. h # 0 /\ u > h
  BY InHunk
<1>3. h = LastOf(diff, k-1, "header") /\ u = LastOf(diff, k-1, "hunk")
  BY <1>1, LastOfStep
<1>4. h \in 0..k-1 /\ u \in 0..k-1
  BY <1>1, <1>3, LastOfIs
<1>5. /\ \A j \in h+1..k : ~Fake(diff, j)
      /\ \A j \in u+1..k : diff[j].kind # "marker"
  BY DEF Misled, Fake
<1>6. /\ h # 0 /\ (\A j \in h+1..k-1 : ~Fake(diff, j)) => s[k-1].file = diff[h].file
      /\ u # 0 /\ (\A j \in u+1..k-1 : diff[j].kind # "marker" /\ ~Fake(diff, j)) =>
            s[k-1].line = diff[u].start + Cardinality({j \in u+1..k-1 : Counted(diff, j)})
  BY <1>1, <1>3, ScanKeepsPlace, Zenon
<1> HIDE DEF h, u
<1>7. s[k-1].file = diff[h].file
  BY <1>1, <1>2, <1>4, <1>5, <1>6
<1>8. s[k-1].line = TrueLine(diff, k)
  <2>1. u # 0 /\ \A j \in u+1..k-1 : diff[j].kind # "marker" /\ ~Fake(diff, j)
    BY <1>1, <1>2, <1>4, <1>5
  <2> QED
    BY <1>6, <2>1 DEF TrueLine, Counted, u
<1>9. ~LikeHeader(diff[k])
  <2>1. k \in h+1..k
    BY <1>1, <1>4
  <2> QED
    BY <1>5, <2>1 DEF Fake
<1> HIDE DEF s
<1>10. \A n : Finding(s[k-1], diff[k].secrets[n])
                = [line |-> TrueLine(diff, k), file |-> diff[h].file, type |-> diff[k].secrets[n]]
  BY <1>7, <1>8 DEF Finding
<1>11. Hits(s[k-1], diff[k]) = {Finding(s[k-1], diff[k].secrets[n]) : n \in DOMAIN diff[k].secrets}
  BY <1>9 DEF Hits
<1>12. Hits(s[k-1], diff[k])
         = {[line |-> TrueLine(diff, k), file |-> diff[h].file, type |-> diff[k].secrets[n]] :
               n \in DOMAIN diff[k].secrets}
  BY <1>10, <1>11
<1> QED
  BY <1>12, Zenon DEF Places, s, h

\* What the handler answers: of what Scan finds, what is not ignored.
LEMMA AnsweredSecrets ==
  ASSUME NEW L, \A line \in L : IsDiffLine(line), NEW diff \in Seq(L), NEW ignored
  PROVE  /\ Range(HandleEnvGuard(diff, ignored).findings) =
               {f \in UNION {Hits(Scanned(diff)[k-1], diff[k]) : k \in 1..Len(diff)} :
                   f.file \notin ignored /\ f.type \notin ignored}
         /\ HandleEnvGuard(diff, ignored).findings \in Seq(Secrets)
<1> DEFINE found == Scan(diff)
           kept == {n \in DOMAIN found : found[n].file \notin ignored /\ found[n].type \notin ignored}
<1>1. Len(diff) \in 0..Len(diff) /\ Len(diff) \in Nat
  BY LenProperties
<1>2. found \in Seq(Secrets)
  <2>1. Scanned(diff)[Len(diff)] \in ScanStates
    BY <1>1, ScanSteps
  <2> QED
    BY <2>1 DEF Scan, ScanStates
<1>3. Range(found) = UNION {Hits(Scanned(diff)[k-1], diff[k]) : k \in 1..Len(diff)}
  BY <1>1, ScanKeepsPlace, Zenon DEF Scan
<1>4. HandleEnvGuard(diff, ignored).findings = Selected(found, kept)
  BY DEF HandleEnvGuard, Filter
<1> HIDE DEF found
<1>5. kept \subseteq DOMAIN found
  OBVIOUS
<1>6. Selected(found, kept) \in Seq(Secrets) /\ Range(Selected(found, kept)) = {found[n] : n \in kept}
  BY <1>2, <1>5, SelectedRanks
<1>7. {found[n] : n \in kept} = {f \in Range(found) : f.file \notin ignored /\ f.type \notin ignored}
  BY DEF Range
<1> QED
  BY <1>3, <1>4, <1>6, <1>7, Zenon

\* Every secret in a line that Scan has not been misled about is found at its place, and
\* nothing else unless it has been misled.
LEMMA SecretsFound ==
  ASSUME NEW L, \A line \in L : IsDiffLine(line), NEW diff \in Seq(L), WellFormedDiff(diff),
         NEW ignored
  PROVE  LET secrets == {k \in DOMAIN diff : diff[k].kind = "added" /\ diff[k].secrets # <<>>}
             wanted == {f \in UNION {Places(diff, k) : k \in {j \in secrets : ~Misled(diff, j)}} :
                           f.file \notin ignored /\ f.type \notin ignored}
             findings == HandleEnvGuard(diff, ignored).findings
         IN  /\ wanted \subseteq Range(findings)
             /\ (\A k \in secrets : ~Misled(diff, k)) => Range(findings) = wanted
<1> DEFINE secrets == {k \in DOMAIN diff : diff[k].kind = "added" /\ diff[k].secrets # <<>>}
           good == {j \in secrets : ~Misled(diff, j)}
           wanted == {f \in UNION {Places(diff, k) : k \in good} :
                           f.file \notin ignored /\ f.type \notin ignored}
           findings == HandleEnvGuard(diff, ignored).findings
           hits == [k \in 1..Len(diff) |-> Hits(Scanned(diff)[k-1], diff[k])]
<1>1. DOMAIN diff = 1..Len(diff) /\ \A k \in 1..Len(diff) : IsDiffLine(diff[k])
  BY LenProperties, ElementOfSeq
<1>2. \A k \in good : k \in 1..Len(diff) /\ hits[k] = Places(diff, k)
  BY <1>1, HitsLocated
<1>3. ASSUME NEW k \in 1..Len(diff), k \notin secrets
      PROVE  hits[k] = {}
  <2>1. CASE diff[k].kind = "added"
    <3>1. diff[k].secrets = <<>>
      BY <1>1, <1>3, <2>1
    <3> QED
      BY <3>1 DEF Hits
  <2>2. CASE diff[k].kind # "added"
    BY <2>2 DEF Hits
  <2> QED
    BY <2>1, <2>2
<1>4. Range(findings) = {f \in UNION {hits[k] : k \in 1..Len(diff)} :
                            f.file \notin ignored /\ f.type \notin ignored}
  <2>1. \A k \in 1..Len(diff) : hits[k] = Hits(Scanned(diff)[k-1], diff[k])
    OBVIOUS
  <2>2. UNION {hits[k] : k \in 1..Len(diff)}
          = UNION {Hits(Scanned(diff)[k-1], diff[k]) : k \in 1..Len(diff)}
    BY <2>1
  <2>3. Range(findings) =
          {f \in UNION {Hits(Scanned(diff)[k-1], diff[k]) : k \in 1..Len(diff)} :
              f.file \notin ignored /\ f.type \notin ignored}
    BY AnsweredSecrets
  <2> DEFINE all == UNION {Hits(Scanned(diff)[k-1], diff[k]) : k \in 1..Len(diff)}
  <2> HIDE DEF hits, findings, all
  <2> QED
    BY <2>2, <2>3, Zenon DEF all
<1>5. secrets \subseteq 1..Len(diff)
  BY <1>1
<1> HIDE DEF hits, secrets, findings
<1>6. wanted \subseteq Range(findings)
  <2> SUFFICES ASSUME NEW f \in wanted
               PROVE  f \in Range(findings)
    OBVIOUS
  <2>1. PICK k \in good : f \in Places(diff, k)
    OBVIOUS
  <2> QED
    BY <1>2, <1>4, <2>1
<1>7. ASSUME \A k \in secrets : ~Misled(diff, k)
      PROVE  Range(findings) \subseteq wanted
  <2> SUFFICES ASSUME NEW f \in Range(findings)
               PROVE  f \in wanted
    OBVIOUS
  <2>1. PICK k \in 1..Len(diff) : f \in hits[k]
    BY <1>4
  <2>2. k \in good
    BY <1>3, <1>7, <2>1
  <2> QED
    BY <1>2, <1>4, <2>1, <2>2
<1> QED
  BY <1>6, <1>7 DEF secrets, findings

-----------------------------------------------------------------------------
(* Manifests.                                                              *)

ReadStates == [inBlock : BOOLEAN, deps : Seq(Dependencies)]

\* What one line of go.mod does to the state of the parser.
LEMMA LineRead ==
  ASSUME NEW read \in ReadStates, NEW line, IsManifestLine("go", line)
  PROVE  /\ ReadGoMod(read, line) \in ReadStates
         /\ ReadGoMod(read, line).inBlock = IF line.kind = "open" THEN TRUE
                                            ELSE IF line.kind = "close" THEN FALSE
                                            ELSE read.inBlock
         /\ ReadGoMod(read, line).deps =
               IF line.kind = "require" \/ (line.kind = "module" /\ read.inBlock)
               THEN Append(read.deps, line.dep) ELSE read.deps
         /\ line.kind \in {"require", "module"} => line.dep \in Dependencies
<1> DEFINE r == ReadGoMod(read, line)
<1>1. read.inBlock \in BOOLEAN /\ read.deps \in Seq(Dependencies)
  BY DEF ReadStates
<1>2. /\ line.kind \in {"note", "verb", "open", "other", "close", "require", "module"}
      /\ line.kind \in {"require", "module"} => line.dep \in Dependencies
  BY DEF IsManifestLine, Kinds
<1>3. CASE line.kind \in {"note", "verb", "other"}
  <2>1. r = read
    BY <1>3 DEF ReadGoMod
  <2> QED
    BY <1>3, <2>1
<1>4. CASE line.kind \in {"open", "close"}
  <2>1. r = [read EXCEPT !.inBlock = (line.kind = "open")]
    BY <1>4 DEF ReadGoMod
  <2>2. r = [inBlock |-> (line.kind = "open"), deps |-> read.deps]
    BY <2>1 DEF ReadStates
  <2>3. r \in ReadStates
    BY <1>1, <2>2 DEF ReadStates
  <2>4. r.inBlock = (line.kind = "open") /\ r.deps = read.deps
    BY <2>2
  <2> HIDE DEF r
  <2> QED
    BY <1>2, <1>4, <2>3, <2>4 DEF r
<1>5. CASE line.kind = "require" \/ (line.kind = "module" /\ read.inBlock)
  <2>1. r = [read EXCEPT !.deps = Append(@, line.dep)]
    BY <1>5 DEF ReadGoMod
  <2>2. r = [inBlock |-> read.inBlock, deps |-> Append(read.deps, line.dep)]
    BY <2>1 DEF ReadStates
  <2>3. Append(read.deps, line.dep) \in Seq(Dependencies)
    BY <1>1, <1>2, <1>5, AppendProperties
  <2>4. r \in ReadStates
    BY <1>1, <2>2, <2>3 DEF ReadStates
  <2>5. r.inBlock = read.inBlock /\ r.deps = Append(read.deps, line.dep)
    BY <2>2
  <2> HIDE DEF r
  <2> QED
    BY <1>2, <1>5, <2>4, <2>5 DEF r
<1>6. CASE line.kind = "module" /\ ~read.inBlock
  <2>1. r = read
    BY <1>6 DEF ReadGoMod
  <2> QED
    BY <1>2, <1>6, <2>1
<1> QED
  BY <1>1, <1>2, <1>3, <1>4, <1>5, <1>6

\* The definition of the parser computes what it says, a line after the other.
LEMMA ReadSteps ==
  ASSUME NEW L, \A line \in L : IsManifestLine("go", line), NEW lines \in Seq(L)
  PROVE  /\ GoModRead(lines)[0] = [inBlock |-> FALSE, deps |-> <<>>]
         /\ \A k \in 0..Len(lines) : GoModRead(lines)[k] \in ReadStates
         /\ \A k \in 1..Len(lines) : GoModRead(lines)[k] = ReadGoMod(GoModRead(lines)[k-1], lines[k])
<1> DEFINE N == Len(lines)
           start == [inBlock |-> FALSE, deps |-> <<>>]
           step == [x \in ReadStates \X (1..N) |-> ReadGoMod(x[1], lines[x[2]])]
           body(f, k) == IF k = 0 THEN start ELSE ReadGoMod(f[k-1], lines[k])
<1>1. N \in Nat /\ \A k \in 1..N : IsManifestLine("go", lines[k])
  BY LenProperties, ElementOfSeq
<1>2. start \in ReadStates
  <2>1. <<>> \in Seq(Dependencies)
    OBVIOUS
  <2> QED
    BY <2>1 DEF ReadStates
<1>3. step \in [ReadStates \X (1..N) -> ReadStates]
  BY <1>1, LineRead
<1>4. \A x \in ReadStates, k \in 1..N : step[<<x, k>>] = ReadGoMod(x, lines[k])
  OBVIOUS
<1> HIDE DEF step, start
<1>5. PICK h : Computes(h, ReadStates, N, start, step)
  BY <1>1, <1>2, <1>3, Recursion, Zenon
<1>6. h = [k \in 0..N |-> body(h, k)]
  <2>1. ASSUME NEW k \in 0..N
        PROVE  h[k] = body(h, k)
    <3>1. CASE k = 0
      BY <1>5, <3>1 DEF Computes
    <3>2. CASE k # 0
      <4>1. k \in 1..N /\ k - 1 \in 0..N
        BY <1>1, <3>2
      <4>2. h[k-1] \in ReadStates /\ h[k] = step[<<h[k-1], k>>]
        BY <1>5, <4>1 DEF Computes
      <4> QED
        BY <1>4, <3>2, <4>1, <4>2
    <3> QED
      BY <3>1, <3>2
  <2> HIDE DEF body
  <2> QED
    BY <1>5, <2>1 DEF Computes
<1> DEFINE s == GoModRead(lines)
<1>7. s = [k \in 0..N |-> body(s, k)]
  <2>1. s = CHOOSE f : f = [k \in 0..N |-> body(f, k)]
    BY DEF GoModRead, start
  <2> HIDE DEF s, body
  <2> QED
    BY <1>6, <2>1
<1> HIDE DEF s
<1>8. s[0] = start /\ \A k \in 1..N : s[k] = ReadGoMod(s[k-1], lines[k])
  BY <1>1, <1>7
<1> DEFINE G == {k \in 0..N : s[k] \in ReadStates}
<1>9. 0 \in G
  BY <1>1, <1>2, <1>8
<1>10. ASSUME NEW k \in 1..N, k - 1 \in G
       PROVE  k \in G
  <2>1. k \in 0..N /\ s[k-1] \in ReadStates /\ IsManifestLine("go", lines[k])
    BY <1>1, <1>10
  <2>2. s[k] \in ReadStates
    BY <1>8, <2>1, LineRead
  <2> QED
    BY <2>1, <2>2
<1> HIDE DEF G
<1>11. \A k \in 0..N : k \in G
  BY <1>1, <1>9, <1>10, UpTo, Zenon
<1> QED
  BY <1>1, <1>8, <1>11 DEF G, s, start

\* In go.mod modules are in blocks, and no block is in another.
Inside(lines, k, kind) == LastOf(lines, k, kind) > LastOf(lines, k, "close")

WellFormedManifest(lines) ==
    \A k \in DOMAIN lines :
        LET inside == Inside(lines, k-1, "open") \/ Inside(lines, k-1, "other")
        IN  /\ lines[k].kind \in {"module", "close"} => inside
            /\ lines[k].kind \in {"open", "other", "require"} => ~inside

\* The beginning or end of a block that is next before line k, and whether the manifest
\* requires what is in the line.
BlockOf(lines, k) == Max({0} \cup {j \in 1..k : lines[j].kind \in {"open", "other", "close"}})

Required(ecosystem, lines, k) ==
    \/ lines[k].kind = "require"
    \/ /\ lines[k].kind = "module"
       /\ ecosystem = "go" => lines[BlockOf(lines, k)].kind = "open"
    \/ lines[k].kind = "packages" /\ lines[k].installed

\* A module is required if the last beginning of a block of requirements comes after the
\* last end of any.
LEMMA RequiredInBlock ==
  ASSUME NEW L, NEW lines \in Seq(L), WellFormedManifest(lines),
         NEW k \in 1..Len(lines), lines[k].kind = "module"
  PROVE  lines[BlockOf(lines, k)].kind = "open" <=> Inside(lines, k-1, "open")
<1> DEFINE o == LastOf(lines, k-1, "open")
           p == LastOf(lines, k-1, "other")
           c == LastOf(lines, k-1, "close")
           T == {0} \cup {j \in 1..k : lines[j].kind \in {"open", "other", "close"}}
<1>1. k \in Nat \ {0} /\ k - 1 \in Nat /\ DOMAIN lines = 1..Len(lines) /\ Len(lines) \in Nat
  BY LenProperties
<1>2. /\ o \in 0..k-1 /\ p \in 0..k-1 /\ c \in 0..k-1
      /\ o # 0 => lines[o].kind = "open"
      /\ p # 0 => lines[p].kind = "other"
      /\ \A j \in o+1..k-1 : lines[j].kind # "open"
      /\ \A j \in p+1..k-1 : lines[j].kind # "other"
      /\ \A j \in c+1..k-1 : lines[j].kind # "close"
  BY <1>1, LastOfIs
<1>3. o > c \/ p > c
  BY <1>1 DEF WellFormedManifest, Inside
<1>4. Max(T) \in T /\ \A j \in T : j <= Max(T)
  <2>1. T \subseteq Nat /\ T # {} /\ \A j \in T : j <= k
    BY <1>1
  <2> HIDE DEF T
  <2> QED
    BY <1>1, <2>1, MaxIsGreatest
<1>5. BlockOf(lines, k) = Max(T)
  BY DEF BlockOf
<1>6. \A j \in T : j \in 0..k-1
  BY <1>1
<1>7. CASE o > c
  <2>1. ASSUME NEW j \in o+1..k-1, lines[j].kind = "other"
        PROVE  FALSE
    <3> DEFINE d == LastOf(lines, j-1, "close")
    <3>1. j \in DOMAIN lines /\ j - 1 \in Nat
      BY <1>1, <1>2
    <3>2. LastOf(lines, j-1, "open") = o
      <4>1. o \in 0..j-1 /\ \A i \in o+1..j-1 : lines[i].kind # "open"
        BY <1>1, <1>2
      <4> QED
        BY <1>2, <3>1, <4>1, LastOfEquals
    <3>3. d \in 0..j-1 /\ (d # 0 => lines[d].kind = "close")
      BY <3>1, LastOfIs
    <3>4. ~(o > d)
      BY <2>1, <3>1, <3>2 DEF WellFormedManifest, Inside
    <3> HIDE DEF d, o, c, p, T
    <3>5. d \in c+1..k-1 /\ d # 0
      BY <1>1, <1>2, <1>7, <3>3, <3>4
    <3> QED
      BY <1>2, <3>3, <3>5
  <2>2. o \in T
    BY <1>1, <1>2, <1>7
  <2>3. \A j \in T : j <= o
    BY <1>1, <1>2, <1>6, <1>7, <2>1
  <2> HIDE DEF o, c, p, T
  <2>4. Max(T) = o
    <3>1. Max(T) \in 0..k-1 /\ o \in 0..k-1
      BY <1>2, <1>4, <1>6
    <3>2. Max(T) <= o /\ o <= Max(T)
      BY <1>4, <2>2, <2>3
    <3> QED
      BY <1>1, <3>1, <3>2
  <2>5. o # 0
    BY <1>2, <1>7
  <2> QED
    BY <1>2, <1>5, <1>7, <2>4, <2>5 DEF Inside, o, c
<1>8. CASE ~(o > c)
  <2>1. p > c /\ p \in T /\ p # 0
    BY <1>1, <1>2, <1>3, <1>8
  <2>2. \A j \in T : j <= p
    BY <1>1, <1>2, <1>6, <1>8, <2>1
  <2> HIDE DEF o, c, p, T
  <2>3. Max(T) = p
    <3>1. Max(T) \in 0..k-1 /\ p \in 0..k-1
      BY <1>2, <1>4, <1>6
    <3>2. Max(T) <= p /\ p <= Max(T)
      BY <1>4, <2>1, <2>2
    <3> QED
      BY <1>1, <3>1, <3>2
  <2> QED
    BY <1>2, <1>5, <1>8, <2>1, <2>3 DEF Inside, o, c
<1> QED
  BY <1>7, <1>8

\* After n lines of go.mod the parser is in a block of requirements if the manifest is, and
\* it has what is required so far, in its order.
LEMMA ReadSoFar ==
  ASSUME NEW L, \A line \in L : IsManifestLine("go", line), NEW lines \in Seq(L),
         WellFormedManifest(lines), NEW n \in 0..Len(lines)
  PROVE  LET wanted == {k \in 1..n : Required("go", lines, k)}
             read == GoModRead(lines)[n]
         IN  /\ read.inBlock <=> Inside(lines, n, "open")
             /\ Len(read.deps) = Cardinality(wanted)
             /\ \A k \in wanted : read.deps[Rank(wanted, k)] = lines[k].dep
<1> DEFINE N == Len(lines)
           s == GoModRead(lines)
           W(k) == {j \in 1..k : Required("go", lines, j)}
           InBlock(k) == s[k].inBlock <=> Inside(lines, k, "open")
           DepsRead(k) == /\ Len(s[k].deps) = Cardinality(W(k))
                      /\ \A j \in W(k) : s[k].deps[Rank(W(k), j)] = lines[j].dep
           G == {k \in 0..N : InBlock(k) /\ DepsRead(k)}
<1>1. N \in Nat /\ DOMAIN lines = 1..N /\ \A k \in 1..N : IsManifestLine("go", lines[k])
  BY LenProperties, ElementOfSeq
<1>2. /\ s[0] = [inBlock |-> FALSE, deps |-> <<>>]
      /\ \A k \in 0..N : s[k] \in ReadStates
      /\ \A k \in 1..N : s[k] = ReadGoMod(s[k-1], lines[k])
  BY ReadSteps
<1> HIDE DEF s
<1>3. 0 \in G
  <2>1. ~Inside(lines, 0, "open")
    BY LastOfIs DEF Inside
  <2>2. W(0) = {} /\ Cardinality(W(0)) = 0
    BY FS_EmptySet
  <2>3. s[0].inBlock = FALSE /\ s[0].deps = <<>>
    BY <1>2
  <2>4. InBlock(0)
    BY <2>1, <2>3
  <2>5. Len(s[0].deps) = 0
    BY <2>3
  <2>6. DepsRead(0)
    BY <2>2, <2>5
  <2> HIDE DEF InBlock, DepsRead
  <2> QED
    BY <1>1, <2>4, <2>6
<1>4. ASSUME NEW k \in 1..N, k - 1 \in G
      PROVE  k \in G
  <2> DEFINE r == s[k-1]
             line == lines[k]
             V == W(k-1)
  <2>1. k \in 0..N /\ k - 1 \in 0..N /\ k \in Nat \ {0} /\ k - 1 \in Nat
    BY <1>1
  <2>2. r \in ReadStates /\ IsManifestLine("go", line) /\ s[k] = ReadGoMod(r, line)
    BY <1>1, <1>2, <2>1
  <2>3. InBlock(k-1) /\ DepsRead(k-1)
    BY <1>4
  <2> HIDE DEF InBlock, DepsRead
  <2>4. /\ s[k].inBlock = IF line.kind = "open" THEN TRUE
                          ELSE IF line.kind = "close" THEN FALSE ELSE r.inBlock
        /\ s[k].deps = IF line.kind = "require" \/ (line.kind = "module" /\ r.inBlock)
                       THEN Append(r.deps, line.dep) ELSE r.deps
        /\ line.kind \in {"require", "module"} => line.dep \in Dependencies
        /\ line.kind \in {"note", "verb", "open", "other", "close", "require", "module"}
    <3> DEFINE t == ReadGoMod(r, line)
    <3> HIDE DEF r, line
    <3>1. /\ t.inBlock = IF line.kind = "open" THEN TRUE
                         ELSE IF line.kind = "close" THEN FALSE ELSE r.inBlock
          /\ t.deps = IF line.kind = "require" \/ (line.kind = "module" /\ r.inBlock)
                      THEN Append(r.deps, line.dep) ELSE r.deps
          /\ line.kind \in {"require", "module"} => line.dep \in Dependencies
      BY <2>2, LineRead
    <3>2. line.kind \in {"note", "verb", "open", "other", "close", "require", "module"}
      BY <2>2 DEF IsManifestLine, Kinds
    <3>3. s[k] = t
      BY <2>2
    <3> HIDE DEF t
    <3> QED
      BY <3>1, <3>2, <3>3
  <2>5. InBlock(k)
    <3>1. /\ LastOf(lines, k, "open") = IF line.kind = "open" THEN k
                                        ELSE LastOf(lines, k-1, "open")
          /\ LastOf(lines, k, "close") = IF line.kind = "close" THEN k
                                         ELSE LastOf(lines, k-1, "close")
      BY <2>1, LastOfStep
    <3>2. LastOf(lines, k-1, "open") \in 0..k-1 /\ LastOf(lines, k-1, "close") \in 0..k-1
      BY <2>1, LastOfIs
    <3>3. r.inBlock <=> Inside(lines, k-1, "open")
      BY <2>3 DEF InBlock
    <3> HIDE DEF r, line
    <3>4. s[k].inBlock <=> Inside(lines, k, "open")
      <4>1. CASE line.kind = "open"
        <5>1. Inside(lines, k, "open")
          BY <2>1, <3>1, <3>2, <4>1 DEF Inside
        <5>2. s[k].inBlock = TRUE
          BY <2>4, <4>1
        <5> QED
          BY <5>1, <5>2
      <4>2. CASE line.kind = "close"
        <5>1. ~Inside(lines, k, "open")
          BY <2>1, <3>1, <3>2, <4>2 DEF Inside
        <5>2. s[k].inBlock = FALSE
          BY <2>4, <4>2
        <5> QED
          BY <5>1, <5>2
      <4>3. CASE line.kind \notin {"open", "close"}
        BY <2>4, <3>1, <3>3, <4>3 DEF Inside
      <4> QED
        BY <4>1, <4>2, <4>3
    <3> QED
      BY <3>4 DEF InBlock
  <2>6. DepsRead(k)
    <3>1. Required("go", lines, k) <=> line.kind = "require" \/ (line.kind = "module" /\ r.inBlock)
      <4>1. line.kind = "module" =>
               (lines[BlockOf(lines, k)].kind = "open" <=> Inside(lines, k-1, "open"))
        BY RequiredInBlock
      <4>2. r.inBlock <=> Inside(lines, k-1, "open")
        BY <2>3 DEF InBlock
      <4> QED
        BY <2>4, <4>1, <4>2 DEF Required
    <3>2. /\ IsFiniteSet(V) /\ V \subseteq Nat /\ Cardinality(V) \in Nat
          /\ \A j \in V : j < k
      <4>1. V \in SUBSET (1..k-1) /\ IsFiniteSet(1..k-1)
        <5>1. 1 \in Int /\ k - 1 \in Int
          BY <2>1
        <5> QED
          BY <5>1, FS_Interval
      <4>2. IsFiniteSet(V)
        BY <4>1, FS_Subset
      <4> QED
        BY <2>1, <4>2, FS_CardinalityType
    <3>3. /\ r.deps \in Seq(Dependencies) /\ Len(r.deps) = Cardinality(V)
          /\ \A j \in V : r.deps[Rank(V, j)] = lines[j].dep
      BY <2>2, <2>3 DEF ReadStates, DepsRead
    <3>4. CASE Required("go", lines, k)
      <4>1. W(k) = V \cup {k}
        BY <2>1, <3>4
      <4> HIDE DEF V, W, r
      <4>2. /\ Cardinality(W(k)) = Cardinality(V) + 1
            /\ Rank(W(k), k) = Cardinality(V) + 1
            /\ \A j \in V : Rank(W(k), j) = Rank(V, j)
        <5>1. k \in Nat
          BY <2>1
        <5>2. /\ Cardinality(V \cup {k}) = Cardinality(V) + 1
              /\ Rank(V \cup {k}, k) = Cardinality(V) + 1
              /\ \A j \in V : Rank(V \cup {k}, j) = Rank(V, j)
          BY <3>2, <5>1, RankAdded
        <5> QED
          BY <4>1, <5>2
      <4>3. s[k].deps = Append(r.deps, line.dep) /\ line.dep \in Dependencies
        BY <2>4, <3>1, <3>4
      <4>4. /\ Len(s[k].deps) = Len(r.deps) + 1
            /\ \A i \in 1..Len(r.deps) : s[k].deps[i] = r.deps[i]
            /\ s[k].deps[Len(r.deps) + 1] = line.dep
        BY <3>3, <4>3, AppendProperties
      <4>5. \A j \in V : Rank(V, j) \in 1..Len(r.deps)
        BY <3>2, <3>3, InOrderRanks
      <4>6. \A j \in W(k) : s[k].deps[Rank(W(k), j)] = lines[j].dep
        BY <3>3, <4>1, <4>2, <4>4, <4>5
      <4> QED
        BY <3>3, <4>2, <4>4, <4>6 DEF DepsRead
    <3>5. CASE ~Required("go", lines, k)
      <4>1. W(k) = V
        BY <2>1, <3>5
      <4>2. s[k].deps = r.deps
        BY <2>4, <3>1, <3>5
      <4> HIDE DEF V, W, r
      <4> QED
        BY <3>3, <4>1, <4>2 DEF DepsRead
    <3> QED
      BY <3>4, <3>5
  <2> QED
    BY <2>1, <2>5, <2>6
<1> HIDE DEF G, InBlock, DepsRead
<1>5. \A k \in 0..N : k \in G
  BY <1>1, <1>3, <1>4, UpTo, Zenon
<1>6. n \in G
  BY <1>5
<1>7. InBlock(n) /\ DepsRead(n)
  BY <1>6 DEF G
<1> QED
  BY <1>7, Zenon DEF InBlock, DepsRead, s

\* The dependencies that are read are those that a manifest has, whatever its format; in
\* a lock file, those whose version is there.
LEMMA DependenciesRead ==
  ASSUME NEW ecosystem \in {"go", "pip", "npm"},
         NEW L, \A line \in L : IsManifestLine(ecosystem, line), NEW lines \in Seq(L),
         ecosystem = "go" => WellFormedManifest(lines)
  PROVE  LET wanted == {k \in DOMAIN lines : Required(ecosystem, lines, k)}
             deps == ParseManifest(ecosystem, lines)
         IN  /\ deps \in Seq(Dependencies)
             /\ ecosystem # "npm" =>
                   /\ Len(deps) = Cardinality(wanted)
                   /\ \A k \in wanted : deps[Rank(wanted, k)] = lines[k].dep
             /\ ecosystem = "npm" =>
                   \A k \in wanted : lines[k].dep.version # "" => lines[k].dep \in Range(deps)
<1> DEFINE N == Len(lines)
           wanted == {k \in DOMAIN lines : Required(ecosystem, lines, k)}
           deps == ParseManifest(ecosystem, lines)
<1>1. N \in Nat /\ DOMAIN lines = 1..N /\ \A k \in 1..N : IsManifestLine(ecosystem, lines[k])
  BY LenProperties, ElementOfSeq
<1>2. CASE ecosystem = "go"
  <2>1. N \in 0..N /\ deps = GoModRead(lines)[N].deps
    BY <1>1, <1>2 DEF ParseManifest, ParseGoMod
  <2>2. GoModRead(lines)[N] \in ReadStates
    BY <1>2, <2>1, ReadSteps
  <2>3. wanted = {k \in 1..N : Required("go", lines, k)}
    BY <1>1, <1>2
  <2>4. /\ Len(GoModRead(lines)[N].deps) = Cardinality({k \in 1..N : Required("go", lines, k)})
        /\ \A k \in {j \in 1..N : Required("go", lines, j)} :
              GoModRead(lines)[N].deps[Rank({j \in 1..N : Required("go", lines, j)}, k)] = lines[k].dep
    BY <1>2, <2>1, ReadSoFar
  <2> HIDE DEF wanted, deps
  <2>5. Len(deps) = Cardinality(wanted) /\ \A k \in wanted : deps[Rank(wanted, k)] = lines[k].dep
    BY <2>1, <2>3, <2>4, Zenon
  <2>6. deps \in Seq(Dependencies)
    BY <2>1, <2>2 DEF ReadStates
  <2> QED
    BY <1>2, <2>5, <2>6 DEF wanted, deps
<1>3. CASE ecosystem = "pip"
  <2> DEFINE S == {k \in DOMAIN lines : lines[k].kind = "module"}
             some == Selected(lines, S)
  <2>1. \A k \in DOMAIN lines : lines[k].kind \in {"note", "module"}
    BY <1>1, <1>3 DEF IsManifestLine, Kinds
  <2>2. wanted = S
    BY <1>3, <2>1 DEF Required
  <2>3. deps = Deps(some)
    BY <1>3 DEF ParseManifest, ParsePip
  <2>4. /\ some \in Seq(L) /\ Len(some) = Cardinality(S) /\ Cardinality(S) \in Nat
        /\ \A k \in S : Rank(S, k) \in 1..Cardinality(S) /\ some[Rank(S, k)] = lines[k]
        /\ \A i \in 1..Cardinality(S) : \E k \in S : some[i] = lines[k]
    <3>1. S \subseteq DOMAIN lines
      OBVIOUS
    <3> HIDE DEF S
    <3> QED
      BY <3>1, SelectedRanks
  <2>5. \A k \in S : lines[k].dep \in Dependencies
    BY <1>1, <1>3 DEF IsManifestLine
  <2> HIDE DEF wanted, deps, S, some
  <2>6. DOMAIN some = 1..Cardinality(S)
    BY <2>4, LenProperties
  <2>7. deps = [i \in 1..Cardinality(S) |-> some[i].dep]
    BY <2>3, <2>6 DEF Deps
  <2>8. deps \in [1..Cardinality(S) -> Dependencies]
    BY <2>4, <2>5, <2>7
  <2>9. deps \in Seq(Dependencies) /\ Len(deps) = Cardinality(S)
    BY <2>4, <2>8, SeqDef, LenProperties
  <2>10. \A k \in S : deps[Rank(S, k)] = lines[k].dep
    BY <2>4, <2>7
  <2> QED
    BY <1>3, <2>2, <2>9, <2>10 DEF wanted, deps
<1>4. CASE ecosystem = "npm"
  <2> DEFINE one == Section(lines, "dependencies", "string")
             two == Section(lines, "devDependencies", "string")
             old == Section(lines, "dependencies", "object")
             packages == {n \in Section(lines, "packages", "object") : lines[n].installed}
             listed == Selected(lines, one) \o Selected(lines, two) \o Selected(lines, packages)
             some == IF listed # <<>> THEN listed ELSE Selected(lines, old)
  <2>1. deps = Deps(some)
    BY <1>4 DEF ParseManifest, ParseNPM
  <2>2. one \subseteq DOMAIN lines /\ two \subseteq DOMAIN lines /\ old \subseteq DOMAIN lines
        /\ packages \subseteq DOMAIN lines
    BY DEF Section
  <2>3. \A k \in DOMAIN lines : /\ lines[k].kind \in {"dependencies", "devDependencies", "packages"}
                                /\ lines[k].dep \in Dependencies
                                /\ lines[k].kind = "packages" => lines[k].shape = "object"
    BY <1>1, <1>4 DEF IsManifestLine, Kinds
  <2>4. \A k \in wanted : lines[k].dep.version # "" => k \in packages
    BY <1>4, <2>3 DEF Required, Section
  <2> HIDE DEF one, two, old, packages, deps, wanted
  <2>5. /\ Selected(lines, one) \in Seq(L) /\ Selected(lines, two) \in Seq(L)
        /\ Selected(lines, packages) \in Seq(L) /\ Selected(lines, old) \in Seq(L)
        /\ Range(Selected(lines, packages)) = {lines[k] : k \in packages}
        /\ Range(Selected(lines, one)) = {lines[k] : k \in one}
        /\ Range(Selected(lines, two)) = {lines[k] : k \in two}
        /\ Range(Selected(lines, old)) = {lines[k] : k \in old}
    BY <2>2, SelectedRanks
  <2>6. /\ listed \in Seq(L)
        /\ Range(listed) = Range(Selected(lines, one)) \cup Range(Selected(lines, two))
                           \cup Range(Selected(lines, packages))
    <3> DEFINE p == Selected(lines, one)
               q == Selected(lines, two)
               t == Selected(lines, packages)
    <3> HIDE DEF p, q, t
    <3>1. p \in Seq(L) /\ q \in Seq(L) /\ t \in Seq(L)
      BY <2>5 DEF p, q, t
    <3>2. p \o q \in Seq(L) /\ Range(p \o q) = Range(p) \cup Range(q)
      BY <3>1, ConcatProperties, RangeConcatenation
    <3>3. (p \o q) \o t \in Seq(L) /\ Range((p \o q) \o t) = Range(p \o q) \cup Range(t)
      <4> DEFINE u == p \o q
      <4>1. u \in Seq(L)
        BY <3>2
      <4> HIDE DEF u
      <4>2. u \o t \in Seq(L)
        BY <3>1, <4>1, ConcatProperties
      <4>3. Range(u \o t) = Range(u) \cup Range(t)
        BY <3>1, <4>1, RangeConcatenation
      <4> QED
        BY <4>2, <4>3 DEF u
    <3>4. listed = (p \o q) \o t
      BY DEF p, q, t
    <3>5. Range(listed) = Range(p) \cup Range(q) \cup Range(t)
      BY <3>2, <3>3, <3>4
    <3> QED
      BY <3>3, <3>4, <3>5 DEF p, q, t
  <2> HIDE DEF listed
  <2>7. some \in Seq(L) /\ \A x \in Range(some) : \E k \in DOMAIN lines : x = lines[k]
    BY <2>2, <2>5, <2>6
  <2>8. \A k \in packages : lines[k] \in Range(some)
    <3> TAKE k \in packages
    <3>1. lines[k] \in Range(listed)
      BY <2>5, <2>6
    <3>2. listed # <<>>
      BY <3>1 DEF Range
    <3> QED
      BY <3>1, <3>2
  <2> HIDE DEF some
  <2>9. DOMAIN some = 1..Len(some) /\ Len(some) \in Nat
    BY <2>7, LenProperties
  <2>10. \A i \in 1..Len(some) : some[i].dep \in Dependencies
    BY <2>3, <2>7, <2>9 DEF Range
  <2>11. deps = [i \in 1..Len(some) |-> some[i].dep]
    BY <2>1, <2>9 DEF Deps
  <2>12. deps \in Seq(Dependencies)
    BY <2>9, <2>10, <2>11, SeqDef
  <2>13. ASSUME NEW k \in packages
         PROVE  lines[k].dep \in Range(deps)
    <3>1. PICK i \in 1..Len(some) : some[i] = lines[k]
      BY <2>8, <2>9 DEF Range
    <3> QED
      BY <2>11, <3>1 DEF Range
  <2> QED
    BY <1>4, <2>4, <2>12, <2>13 DEF wanted, deps
<1> QED
  BY <1>2, <1>3, <1>4

-----------------------------------------------------------------------------
(* Vulnerabilities.                                                        *)

\* A severity is a number.
LEMMA SeverityIsNumber ==
  ASSUME NEW database, IsDatabase(database), NEW name \in DOMAIN database,
         NEW v \in DOMAIN database[name]
  PROVE  SeverityOf(database[name][v].severities) \in Nat
<1> DEFINE severities == database[name][v].severities
           usable == {n \in DOMAIN severities : Score(severities[n]) > 0}
<1>1. /\ severities \in Seq(Range(severities))
      /\ \A n \in DOMAIN severities :
            /\ severities[n].form \in {"number", "vector", "other"}
            /\ severities[n].form = "number" => severities[n].value \in Nat
  BY DEF IsDatabase
<1> HIDE DEF severities
<1>2. \A n \in DOMAIN severities : Score(severities[n]) \in Nat
  BY <1>1 DEF Score
<1>3. DOMAIN severities \subseteq Nat
  BY <1>1, LenProperties
<1>4. CASE usable = {}
  BY <1>4 DEF SeverityOf, severities
<1>5. CASE usable # {}
  <2>1. Min(usable) \in usable
    <3>1. usable \subseteq Nat
      BY <1>3
    <3> HIDE DEF usable
    <3> QED
      BY <1>5, <3>1, MinIsLeast
  <2> QED
    BY <1>2, <1>5, <2>1 DEF SeverityOf, severities
<1> QED
  BY <1>4, <1>5

\* Sorting keeps the findings, each as often as it is there, and puts none behind one that
\* is less severe.
LEMMA SortedIsSorted ==
  ASSUME NEW F, \A f \in F : f.severity \in Nat, NEW findings \in Seq(F)
  PROVE  /\ Sorted(findings) \in Seq(F) /\ Len(Sorted(findings)) = Len(findings)
         /\ Range(Sorted(findings)) = Range(findings)
         /\ IsInjective(findings) => IsInjective(Sorted(findings))
         /\ \A i, j \in 1..Len(findings) :
               i <= j => Sorted(findings)[i].severity >= Sorted(findings)[j].severity
<1> DEFINE D == DOMAIN findings
           before(m, n) == \/ findings[m].severity > findings[n].severity
                           \/ findings[m].severity = findings[n].severity /\ m <= n
           upTo == [n \in D |-> {m \in D : before(m, n)}]
           at(k) == CHOOSE n \in D : Cardinality(upTo[n]) = k
           N == Len(findings)
<1>1. D = 1..N /\ N \in Nat /\ \A n \in D : findings[n] \in F /\ findings[n].severity \in Nat
  BY LenProperties, ElementOfSeq
<1>2. IsFiniteSet(D) /\ Cardinality(D) = N
  <2>1. 1 \in Int /\ N \in Int
    BY <1>1
  <2>2. IsFiniteSet(1..N) /\ Cardinality(1..N) = IF 1 > N THEN 0 ELSE N - 1 + 1
    BY <2>1, FS_Interval
  <2> QED
    BY <1>1, <2>2
<1>3. /\ \A n \in D : Cardinality(upTo[n]) \in 1..N
      /\ \A m, n \in D : Cardinality(upTo[m]) = Cardinality(upTo[n]) => m = n
      /\ \A m, n \in D : Cardinality(upTo[m]) <= Cardinality(upTo[n]) => m \in upTo[n]
      /\ \A k \in 1..N : \E n \in D : Cardinality(upTo[n]) = k
  <2>1. upTo \in [D -> SUBSET D]
    OBVIOUS
  <2>2. \A m, n \in D : m \in upTo[n] <=> before(m, n)
    OBVIOUS
  <2>3. \A n \in D : n \in Nat
    BY <1>1
  <2> HIDE DEF D, upTo
  <2>4. /\ \A n \in D : n \in upTo[n]
        /\ \A m, n \in D : m \in upTo[n] \/ n \in upTo[m]
        /\ \A m, n \in D : m \in upTo[n] /\ n \in upTo[m] => m = n
    BY <1>1, <2>2, <2>3
  <2>5. \A l, m, n \in D : l \in upTo[m] /\ m \in upTo[n] => l \in upTo[n]
    BY <1>1, <2>2, <2>3
  <2> QED
    BY <1>2, <2>1, <2>4, <2>5, Placing
<1>4. Sorted(findings) = [k \in D |-> findings[at(k)]]
  <2>1. \A n \in D : Cardinality(upTo[n]) = Cardinality({m \in D : before(m, n)})
    OBVIOUS
  <2>2. \A k : at(k) = CHOOSE n \in D : Cardinality({m \in D : before(m, n)}) = k
    BY <2>1
  <2>3. Sorted(findings)
          = [k \in D |-> findings[CHOOSE n \in D : Cardinality({m \in D : before(m, n)}) = k]]
    BY DEF Sorted
  <2> HIDE DEF at
  <2> QED
    BY <2>2, <2>3
<1> HIDE DEF upTo
<1>5. \A k \in 1..N : at(k) \in D /\ Cardinality(upTo[at(k)]) = k
  BY <1>3
<1>6. \A n \in D : at(Cardinality(upTo[n])) = n
  BY <1>3, <1>5
<1> DEFINE place == [n \in D |-> Cardinality(upTo[n])]
           sorted == Sorted(findings)
<1> HIDE DEF at, D
<1>7. sorted \in Seq(F) /\ Len(sorted) = N /\ DOMAIN sorted = D
  <2>1. sorted \in [1..N -> F]
    BY <1>1, <1>4, <1>5
  <2> QED
    BY <1>1, <2>1, SeqDef, LenProperties
<1>8. \A k \in 1..N : sorted[k] = findings[at(k)]
  BY <1>1, <1>4
<1> HIDE DEF sorted
<1>9. Range(sorted) = Range(findings)
  <2>1. \A n \in D : sorted[Cardinality(upTo[n])] = findings[n]
    BY <1>3, <1>6, <1>8
  <2>2. Range(findings) \subseteq Range(sorted)
    BY <1>1, <1>3, <1>7, <2>1 DEF Range, D
  <2>3. Range(sorted) \subseteq Range(findings)
    BY <1>1, <1>5, <1>7, <1>8 DEF Range, D
  <2> QED
    BY <2>2, <2>3
<1>10. ASSUME IsInjective(findings)
       PROVE  IsInjective(sorted)
  <2>1. ASSUME NEW i \in 1..N, NEW j \in 1..N, sorted[i] = sorted[j]
        PROVE  i = j
    <3>1. at(i) = at(j)
      BY <1>5, <1>8, <1>10, <2>1 DEF IsInjective, D
    <3> QED
      BY <1>5, <3>1
  <2> QED
    BY <1>1, <1>7, <2>1 DEF IsInjective
<1>11. ASSUME NEW i \in 1..N, NEW j \in 1..N, i <= j
       PROVE  sorted[i].severity >= sorted[j].severity
  <2>1. at(i) \in upTo[at(j)]
    BY <1>3, <1>5, <1>11
  <2>2. before(at(i), at(j))
    BY <1>5, <2>1 DEF upTo
  <2> QED
    BY <1>1, <1>5, <1>8, <2>2
<1> QED
  BY <1>7, <1>9, <1>10, <1>11 DEF sorted

\* The findings made of what a database knows of some packages, in the order in which it is
\* gone through.
FoundFor(database, order) ==
    [n \in DOMAIN order |-> [v \in DOMAIN database[order[n]] |->
                                MapToFinding(order[n], database[order[n]][v])]]

FindingsOf(database, name) ==
    {MapToFinding(name, database[name][v]) : v \in DOMAIN database[name]}

\* Whatever the order, every vulnerability of a package is a finding once, whose severity
\* is a number.
LEMMA FoundOnce ==
  ASSUME NEW database, IsDatabase(database),
         NEW names, IsFiniteSet(names), names \subseteq DOMAIN database,
         NEW order \in SetToSeqs(names)
  PROVE  LET all == UNION {FindingsOf(database, name) : name \in names}
             found == FlattenSeq(FoundFor(database, order))
         IN  /\ found \in Seq(all) /\ Range(found) = all /\ IsInjective(found)
             /\ \A f \in all : f.severity \in Nat
             /\ {<<f.package, f.id>> : f \in all}
                   = UNION {{<<name, vuln.id>> : vuln \in Range(database[name])} : name \in names}
<1> DEFINE all == UNION {FindingsOf(database, name) : name \in names}
           part == FoundFor(database, order)
           N == Len(order)
<1>1. /\ order \in Seq(names) /\ IsInjective(order) /\ Range(order) = names
      /\ N \in Nat /\ DOMAIN order = 1..N
  <2>1. order \in Seq(names) /\ IsInjective(order) /\ ToSet(order) = names
    BY Enumeration
  <2> QED
    BY <2>1, LenProperties DEF ToSet, Range
<1>2. \A n \in 1..N : order[n] \in names
  BY <1>1, ElementOfSeq
<1>3. \A name \in names : \A v \in DOMAIN database[name] :
         LET f == MapToFinding(name, database[name][v])
         IN  /\ f.package = name /\ f.id = database[name][v].id
             /\ f.severity = SeverityOf(database[name][v].severities)
  BY DEF MapToFinding
<1>4. \A name \in names : \A v \in DOMAIN database[name] :
         MapToFinding(name, database[name][v]).severity \in Nat
  BY <1>3, SeverityIsNumber
<1>5. \A name \in names :
         /\ database[name] \in Seq(Range(database[name]))
         /\ \A v, w \in DOMAIN database[name] : database[name][v].id = database[name][w].id => v = w
  BY DEF IsDatabase
<1>6. \A name \in names : Len(database[name]) \in Nat /\ DOMAIN database[name] = 1..Len(database[name])
  BY <1>5, LenProperties
<1>7. part \in [1..N -> Seq(all)]
  <2>1. ASSUME NEW n \in 1..N
        PROVE  part[n] \in Seq(all)
    <3>1. order[n] \in names
      BY <1>2
    <3> DEFINE name == order[n]
    <3>2. part[n] = [v \in 1..Len(database[name]) |-> MapToFinding(name, database[name][v])]
      BY <1>1, <1>6, <3>1 DEF FoundFor
    <3>3. \A v \in 1..Len(database[name]) : MapToFinding(name, database[name][v]) \in all
      BY <1>6, <3>1 DEF FindingsOf
    <3> HIDE DEF all, part, name
    <3>4. part[n] \in [1..Len(database[name]) -> all]
      BY <3>2, <3>3
    <3> QED
      BY <1>6, <3>1, <3>4, SeqDef DEF name
  <2>2. DOMAIN part = 1..N /\ part = [n \in 1..N |-> part[n]]
    BY <1>1 DEF FoundFor
  <2> HIDE DEF part, all
  <2> QED
    BY <2>1, <2>2
<1>8. \A n \in 1..N : Range(part[n]) = FindingsOf(database, order[n])
  <2> SUFFICES ASSUME NEW n \in 1..N
               PROVE  Range(part[n]) = FindingsOf(database, order[n])
    OBVIOUS
  <2>1. part[n] = [v \in DOMAIN database[order[n]] |-> MapToFinding(order[n], database[order[n]][v])]
    BY <1>1 DEF FoundFor
  <2> HIDE DEF part
  <2> QED
    BY <2>1 DEF Range, FindingsOf
<1>9. \A n \in 1..N : IsInjective(part[n])
  <2> SUFFICES ASSUME NEW n \in 1..N
               PROVE  IsInjective(part[n])
    OBVIOUS
  <2>1. part[n] = [v \in DOMAIN database[order[n]] |-> MapToFinding(order[n], database[order[n]][v])]
    BY <1>1 DEF FoundFor
  <2> HIDE DEF part
  <2>2. \A v \in DOMAIN database[order[n]] : part[n][v].id = database[order[n]][v].id
    BY <1>2, <1>3, <2>1
  <2>3. DOMAIN part[n] = DOMAIN database[order[n]]
    BY <2>1
  <2> QED
    BY <1>2, <1>5, <2>2, <2>3 DEF IsInjective
<1>10. \A i, j \in 1..N : i # j => Range(part[i]) \cap Range(part[j]) = {}
  <2> SUFFICES ASSUME NEW i \in 1..N, NEW j \in 1..N, i # j, NEW f,
                      f \in FindingsOf(database, order[i]), f \in FindingsOf(database, order[j])
               PROVE  FALSE
    BY <1>8
  <2>1. f.package = order[i] /\ f.package = order[j]
    BY <1>2, <1>3 DEF FindingsOf
  <2> QED
    BY <1>1, <2>1 DEF IsInjective
<1>11. Range(FlattenSeq(part)) = UNION {Range(part[n]) : n \in 1..N} /\ FlattenSeq(part) \in Seq(all)
  <2> HIDE DEF part, all
  <2> QED
    BY <1>1, <1>7, FlattenRange
<1>12. IsInjective(FlattenSeq(part))
  <2> HIDE DEF part, all
  <2> QED
    BY <1>1, <1>7, <1>9, <1>10, FlattenInjective
<1>13. UNION {Range(part[n]) : n \in 1..N} = all
  <2> HIDE DEF part
  <2>1. \A name \in names : \E n \in 1..N : order[n] = name
    BY <1>1 DEF Range
  <2> QED
    BY <1>2, <1>8, <2>1
<1>14. \A f \in all : f.severity \in Nat
  BY <1>4 DEF FindingsOf
<1>15. {<<f.package, f.id>> : f \in all}
          = UNION {{<<name, vuln.id>> : vuln \in Range(database[name])} : name \in names}
  <2>1. ASSUME NEW f \in all
        PROVE  \E name \in names : \E vuln \in Range(database[name]) :
                  <<f.package, f.id>> = <<name, vuln.id>>
    <3>1. PICK name \in names : f \in FindingsOf(database, name)
      OBVIOUS
    <3>2. PICK v \in DOMAIN database[name] : f = MapToFinding(name, database[name][v])
      BY <3>1 DEF FindingsOf
    <3>3. f.package = name /\ f.id = database[name][v].id
      BY <1>3, <3>2
    <3>4. database[name][v] \in Range(database[name])
      BY DEF Range
    <3> QED
      BY <3>3, <3>4
  <2>2. ASSUME NEW name \in names, NEW vuln \in Range(database[name])
        PROVE  \E f \in all : <<f.package, f.id>> = <<name, vuln.id>>
    <3>1. PICK v \in DOMAIN database[name] : vuln = database[name][v]
      BY DEF Range
    <3> DEFINE f == MapToFinding(name, database[name][v])
    <3>2. f \in all
      BY DEF FindingsOf
    <3>3. f.package = name /\ f.id = vuln.id
      BY <1>3, <3>1
    <3> QED
      BY <3>2, <3>3
  <2> HIDE DEF all
  <2> QED
    BY <2>1, <2>2
<1> QED
  BY <1>11, <1>12, <1>13, <1>14, <1>15

\* What is answered of such findings: all of them, each once, and none that goes to the
\* background is less severe than one that does not.
LEMMA WorstFirst ==
  ASSUME NEW F, \A f \in F : f.severity \in Nat, NEW findings \in Seq(F), IsInjective(findings),
         NEW deps, NEW failed
  PROVE  LET result == HandleVulnScan(deps, findings, failed)
             all == Range(result.findings)
             top == Range(result.enriched)
         IN  /\ result.scanError = failed
             /\ all = Range(findings) /\ Cardinality(all) = Len(result.findings)
             /\ \A f \in top, g \in all \ top : f.severity >= g.severity
<1> DEFINE s == Sorted(findings)
           K == Min({MaxPerRequest, Len(s)})
           result == HandleVulnScan(deps, findings, failed)
<1>1. /\ s \in Seq(F) /\ Len(s) = Len(findings) /\ Range(s) = Range(findings) /\ IsInjective(s)
      /\ \A i, j \in 1..Len(findings) : i <= j => s[i].severity >= s[j].severity
  BY SortedIsSorted
<1>2. result.scanError = failed /\ result.findings = s /\ result.enriched = SubSeq(s, 1, K)
  BY DEF HandleVulnScan
<1> HIDE DEF s, result
<1>3. Len(s) \in Nat /\ DOMAIN s = 1..Len(s) /\ \A i \in 1..Len(s) : s[i] \in F
  BY <1>1, LenProperties, ElementOfSeq
<1>4. K \in 0..Len(s)
  <2>1. MaxPerRequest \in Nat
    BY ScannersAssumption
  <2> DEFINE T == {MaxPerRequest, Len(s)}
  <2>2. T \subseteq Nat /\ T # {}
    BY <1>3, <2>1
  <2> HIDE DEF T
  <2>3. Min(T) \in T /\ \A n \in T : Min(T) <= n
    BY <2>2, MinIsLeast
  <2> QED
    BY <1>3, <2>1, <2>3 DEF T
<1> HIDE DEF K
<1>5. DOMAIN SubSeq(s, 1, K) = 1..K /\ \A i \in 1..K : SubSeq(s, 1, K)[i] = s[i]
  BY <1>1, <1>3, <1>4, SubSeqProperties
<1>6. Cardinality(Range(s)) = Len(s)
  BY <1>1, InjectiveRange
<1>7. ASSUME NEW f \in Range(SubSeq(s, 1, K)), NEW g \in Range(s) \ Range(SubSeq(s, 1, K))
      PROVE  f.severity >= g.severity
  <2>1. PICK i \in 1..K : f = s[i]
    BY <1>5 DEF Range
  <2>2. PICK j \in 1..Len(s) : g = s[j]
    BY <1>3 DEF Range
  <2>3. j \notin 1..K
    BY <1>5, <2>2 DEF Range
  <2> QED
    BY <1>1, <1>3, <1>4, <2>1, <2>2, <2>3
<1> QED
  BY <1>1, <1>2, <1>6, <1>7 DEF result

-----------------------------------------------------------------------------
(* Directories.                                                            *)

\* A directory is walked in the order of the names of its files.
WellFormedTree(tree) ==
    \A k \in DOMAIN tree :
        IF tree[k].kind = "file"
        THEN \A j \in 1..k-1 : tree[j].kind = "file" => tree[j].name < tree[k].name
        ELSE k # 1

\* Every line is in a file, the last one that begins before it; so is what is between.
LEMMA InFile ==
  ASSUME NEW L, NEW tree \in Seq(L), WellFormedTree(tree), NEW k \in 1..Len(tree)
  PROVE  LET f == FileOf(tree, k)
         IN  /\ f \in Files(tree) /\ f \in 1..k
             /\ \A j \in f+1..k : j \notin Files(tree)
             /\ \A j \in f..k : FileOf(tree, j) = f
<1> DEFINE T(j) == {f \in Files(tree) : f <= j}
           f == FileOf(tree, k)
<1>1. DOMAIN tree = 1..Len(tree) /\ Len(tree) \in Nat
  BY LenProperties
<1>2. Files(tree) \subseteq 1..Len(tree)
  BY <1>1 DEF Files
<1>3. 1 \in Files(tree)
  BY <1>1 DEF Files, WellFormedTree
<1>4. \A j \in 1..Len(tree) : Max(T(j)) \in T(j) /\ \A g \in T(j) : g <= Max(T(j))
  <2> TAKE j \in 1..Len(tree)
  <2>1. T(j) \subseteq Nat /\ T(j) # {} /\ \A g \in T(j) : g <= j
    BY <1>2, <1>3
  <2> HIDE DEF T
  <2> QED
    BY <2>1, MaxIsGreatest
<1>5. \A j : FileOf(tree, j) = Max(T(j))
  BY DEF FileOf
<1>6. f \in Files(tree) /\ f <= k /\ \A g \in Files(tree) : g <= k => g <= f
  BY <1>4, <1>5
<1>7. f \in 1..k /\ \A j \in f+1..k : j \notin Files(tree)
  BY <1>2, <1>6
<1> HIDE DEF f
<1>8. ASSUME NEW j \in f..k
      PROVE  FileOf(tree, j) = f
  <2> DEFINE g == FileOf(tree, j)
  <2>1. j \in 1..Len(tree)
    BY <1>1, <1>7
  <2>2. g \in Files(tree) /\ g <= j /\ \A h \in Files(tree) : h <= j => h <= g
    BY <1>4, <1>5, <2>1
  <2> HIDE DEF g
  <2>3. f <= g /\ g <= f
    BY <1>2, <1>6, <1>7, <2>1, <2>2
  <2>4. g = f
    BY <1>2, <1>7, <2>2, <2>3
  <2> QED
    BY <2>4 DEF g
<1> QED
  BY <1>6, <1>7, <1>8 DEF f

Sized(L) == \A line \in L : line.kind = "file" => line.name \in Nat

\* Files have different names, so that a line is given by the name of its file and its
\* number there.
LEMMA OnePlace ==
  ASSUME NEW L, Sized(L), NEW tree \in Seq(L), WellFormedTree(tree)
  PROVE  /\ \A f, g \in Files(tree) : tree[f].name = tree[g].name => f = g
         /\ \A j, k \in 1..Len(tree) :
               /\ tree[FileOf(tree, j)].name = tree[FileOf(tree, k)].name
               /\ j - FileOf(tree, j) = k - FileOf(tree, k)
               => j = k
<1>1. DOMAIN tree = 1..Len(tree) /\ Len(tree) \in Nat /\ \A k \in 1..Len(tree) : tree[k] \in L
  BY LenProperties, ElementOfSeq
<1>2. \A f \in Files(tree) : tree[f].name \in Nat /\ f \in 1..Len(tree)
  BY <1>1 DEF Files, Sized
<1>3. \A f, g \in Files(tree) : f < g => tree[f].name < tree[g].name
  <2> SUFFICES ASSUME NEW f \in Files(tree), NEW g \in Files(tree), f < g
               PROVE  tree[f].name < tree[g].name
    OBVIOUS
  <2>1. f \in 1..g-1 /\ tree[f].kind = "file" /\ tree[g].kind = "file" /\ g \in DOMAIN tree
    BY <1>2 DEF Files
  <2> QED
    BY <2>1 DEF WellFormedTree
<1>4. \A f, g \in Files(tree) : tree[f].name = tree[g].name => f = g
  BY <1>2, <1>3
<1>5. ASSUME NEW j \in 1..Len(tree), NEW k \in 1..Len(tree),
             tree[FileOf(tree, j)].name = tree[FileOf(tree, k)].name,
             j - FileOf(tree, j) = k - FileOf(tree, k)
      PROVE  j = k
  <2>1. FileOf(tree, j) \in Files(tree) /\ FileOf(tree, k) \in Files(tree)
    BY InFile
  <2>2. FileOf(tree, j) = FileOf(tree, k)
    BY <1>4, <1>5, <2>1
  <2> QED
    BY <1>2, <1>5, <2>1, <2>2
<1> QED
  BY <1>4, <1>5

-----------------------------------------------------------------------------
(* Leaks.                                                                  *)

\* What differs in a field before a selection does so after.
LEMMA SelectedDiffer ==
  ASSUME NEW X, NEW seq \in Seq(X), NEW S, S \subseteq DOMAIN seq,
         \A m, n \in DOMAIN seq : seq[m].name = seq[n].name => m = n
  PROVE  \A i, j \in DOMAIN Selected(seq, S) :
            Selected(seq, S)[i].name = Selected(seq, S)[j].name => i = j
<1> DEFINE s == Selected(seq, S)
<1>1. /\ s \in Seq(X) /\ Len(s) = Cardinality(S)
      /\ \A k \in 1..Cardinality(S) : \E n \in S : Rank(S, n) = k /\ s[k] = seq[n]
  BY SelectedRanks
<1> HIDE DEF s
<1>2. DOMAIN s = 1..Cardinality(S)
  BY <1>1, LenProperties
<1> SUFFICES ASSUME NEW i \in DOMAIN s, NEW j \in DOMAIN s, s[i].name = s[j].name
             PROVE  i = j
  BY DEF s
<1>3. PICK m \in S : Rank(S, m) = i /\ s[i] = seq[m]
  BY <1>1, <1>2
<1>4. PICK n \in S : Rank(S, n) = j /\ s[j] = seq[n]
  BY <1>1, <1>2
<1>5. m = n
  BY <1>3, <1>4
<1> QED
  BY <1>3, <1>4, <1>5

\* Taking elements of a list without duplicates makes none.
LEMMA SelectedInjective ==
  ASSUME NEW X, NEW seq \in Seq(X), NEW S, S \subseteq DOMAIN seq, IsInjective(seq)
  PROVE  IsInjective(Selected(seq, S))
<1> DEFINE s == Selected(seq, S)
<1>1. /\ s \in Seq(X) /\ Len(s) = Cardinality(S)
      /\ \A k \in 1..Cardinality(S) : \E n \in S : Rank(S, n) = k /\ s[k] = seq[n]
  BY SelectedRanks
<1> HIDE DEF s
<1>2. DOMAIN s = 1..Cardinality(S)
  BY <1>1, LenProperties
<1> SUFFICES ASSUME NEW i \in DOMAIN s, NEW j \in DOMAIN s, s[i] = s[j]
             PROVE  i = j
  BY DEF s, IsInjective
<1>3. PICK m \in S : Rank(S, m) = i /\ s[i] = seq[m]
  BY <1>1, <1>2
<1>4. PICK n \in S : Rank(S, n) = j /\ s[j] = seq[n]
  BY <1>1, <1>2
<1>5. m = n
  BY <1>3, <1>4 DEF IsInjective
<1> QED
  BY <1>3, <1>4, <1>5

\* The patterns that a request asks for, and of these the ones that match a line.
Asked(names) == {p \in Range(BuiltinPatterns) : names = {} \/ p.name \in names}

Real(match) == match.type = "credit_card" => LuhnCheck(match.digits)

Matching(line, names) ==
    {p \in Asked(names) : \E m \in Range(line.matches) : m.type = p.name /\ Real(m)}

Leaks(line, names, entropyCheck) ==
    IF Matching(line, names) = {} /\ entropyCheck /\ \E l \in Range(line.literals) : l.high
    THEN {[name |-> "high_entropy_string", severity |-> "medium"]}
    ELSE Matching(line, names)

\* The patterns looked for are those asked for, each once.
LEMMA PatternsAsked ==
  ASSUME NEW names
  PROVE  LET patterns == GetPatterns(names)
         IN  /\ patterns \in Seq(Range(BuiltinPatterns)) /\ Range(patterns) = Asked(names)
             /\ \A m, n \in DOMAIN patterns : patterns[m].name = patterns[n].name => m = n
<1> DEFINE all == BuiltinPatterns
           S == {n \in DOMAIN all : all[n].name \in names}
<1>1. all \in Seq(Range(all)) /\ \A m, n \in DOMAIN all : all[m].name = all[n].name => m = n
  BY PatternsAssumption
<1>2. CASE names = {}
  <2>1. GetPatterns(names) = all
    BY <1>2 DEF GetPatterns
  <2>2. Asked(names) = Range(all)
    BY <1>2 DEF Asked
  <2> QED
    BY <1>1, <2>1, <2>2
<1>3. CASE names # {}
  <2>1. GetPatterns(names) = Selected(all, S)
    BY <1>3 DEF GetPatterns
  <2>2. S \subseteq DOMAIN all
    OBVIOUS
  <2>3. {all[n] : n \in S} = Asked(names)
    BY <1>3 DEF Asked, Range
  <2> HIDE DEF S
  <2>4. Selected(all, S) \in Seq(Range(all)) /\ Range(Selected(all, S)) = {all[n] : n \in S}
    BY <1>1, <2>2, SelectedRanks
  <2>5. \A m, n \in DOMAIN Selected(all, S) :
           Selected(all, S)[m].name = Selected(all, S)[n].name => m = n
    BY <1>1, <2>2, SelectedDiffer
  <2> QED
    BY <2>1, <2>3, <2>4, <2>5
<1> QED
  BY <1>2, <1>3

\* Hits are a sequence, of different types, with the names and severities of some leaks.
Reports(hits, leaks) ==
    /\ hits \in Seq(Range(hits))
    /\ \A i, j \in DOMAIN hits : hits[i].type = hits[j].type => i = j
    /\ \A h \in Range(hits) : \E p \in leaks : h.type = p.name /\ h.severity = p.severity
    /\ \A p \in leaks : \E h \in Range(hits) : h.type = p.name /\ h.severity = p.severity

\* Matching reports the leaks that match, each once.
LEMMA MatchedReports ==
  ASSUME NEW line, NEW names
  PROVE  Reports(Matched(line, GetPatterns(names)), Matching(line, names))
<1> DEFINE patterns == GetPatterns(names)
           of(p) == {m \in DOMAIN line.matches :
                        /\ line.matches[m].type = p.name
                        /\ p.name = "credit_card" => LuhnCheck(line.matches[m].digits)}
           S == {n \in DOMAIN patterns : of(patterns[n]) # {}}
           hits == Selected(patterns, S)
           matched == Matched(line, patterns)
<1>1. /\ patterns \in Seq(Range(BuiltinPatterns)) /\ Range(patterns) = Asked(names)
      /\ \A m, n \in DOMAIN patterns : patterns[m].name = patterns[n].name => m = n
  BY PatternsAsked
<1>2. \A p : of(p) # {} <=> \E m \in Range(line.matches) : m.type = p.name /\ Real(m)
  BY DEF Range, Real
<1>3. matched = [h \in DOMAIN hits |-> [type |-> hits[h].name, severity |-> hits[h].severity,
                                        match |-> line.matches[Min(of(hits[h]))]]]
  BY DEF Matched
<1> HIDE DEF patterns, matched, of
<1>4. S \subseteq DOMAIN patterns
  OBVIOUS
<1>5. {patterns[n] : n \in S} = Matching(line, names)
  <2>1. \A n \in DOMAIN patterns : patterns[n] \in Asked(names)
    BY <1>1 DEF Range
  <2>2. \A p \in Asked(names) : \E n \in DOMAIN patterns : p = patterns[n]
    BY <1>1 DEF Range
  <2> QED
    BY <1>2, <2>1, <2>2 DEF Matching
<1> HIDE DEF S
<1>6. /\ hits \in Seq(Range(BuiltinPatterns)) /\ Range(hits) = Matching(line, names)
      /\ \A i, j \in DOMAIN hits : hits[i].name = hits[j].name => i = j
  BY ZenonT(60), <1>1, <1>4, <1>5, SelectedRanks, SelectedDiffer
<1> HIDE DEF hits
<1>7. DOMAIN hits = 1..Len(hits) /\ Len(hits) \in Nat
  BY <1>6, LenProperties
<1>8. DOMAIN matched = DOMAIN hits
      /\ \A h \in DOMAIN hits : matched[h].type = hits[h].name /\ matched[h].severity = hits[h].severity
  BY <1>3
<1> HIDE DEF matched
<1>9. matched \in Seq(Range(matched))
  <2>1. matched \in [1..Len(hits) -> Range(matched)]
    <3>1. matched = [h \in 1..Len(hits) |-> matched[h]]
      BY <1>3, <1>7, <1>8
    <3> QED
      BY <1>7, <1>8, <3>1 DEF Range
  <2> QED
    BY <1>7, <2>1, SeqDef
<1>10. \A i, j \in DOMAIN matched : matched[i].type = matched[j].type => i = j
  BY <1>6, <1>8
<1>11. \A h \in Range(matched) : \E p \in Matching(line, names) : h.type = p.name /\ h.severity = p.severity
  BY <1>6, <1>8 DEF Range
<1>12. \A p \in Matching(line, names) : \E h \in Range(matched) : h.type = p.name /\ h.severity = p.severity
  BY <1>6, <1>8 DEF Range
<1> QED
  BY <1>9, <1>10, <1>11, <1>12 DEF Reports, matched, patterns

\* On a line of text the hits are the leaks.
LEMMA TextReports ==
  ASSUME NEW line, IsTreeLine(line), line.kind = "text", NEW names, NEW entropyCheck
  PROVE  Reports(ScanText(line, GetPatterns(names), entropyCheck), Leaks(line, names, entropyCheck))
<1> DEFINE matched == Matched(line, GetPatterns(names))
           matching == Matching(line, names)
           high == {n \in DOMAIN line.literals : line.literals[n].high}
<1>1. Reports(matched, matching)
  BY MatchedReports
<1>2. ScanText(line, GetPatterns(names), entropyCheck)
         = IF matched # <<>> \/ ~entropyCheck THEN matched ELSE Entropic(line)
  BY DEF ScanText, IsCommentOrEmpty
<1> HIDE DEF matched, matching
<1>3. matched = <<>> <=> matching = {}
  <2>1. matched \in Seq(Range(matched))
    BY <1>1 DEF Reports
  <2>2. matched = <<>> <=> Range(matched) = {}
    <3>1. DOMAIN matched = 1..Len(matched) /\ Len(matched) \in Nat
      BY <2>1, LenProperties
    <3>2. matched = <<>> <=> Len(matched) = 0
      BY <2>1, EmptySeq
    <3>3. Len(matched) # 0 => matched[1] \in Range(matched)
      BY <3>1 DEF Range
    <3>4. Len(matched) = 0 => Range(matched) = {}
      BY <3>1 DEF Range
    <3> QED
      BY <3>2, <3>3, <3>4
  <2> QED
    BY <1>1, <2>2 DEF Reports
<1>4. high # {} <=> \E l \in Range(line.literals) : l.high
  BY DEF Range
<1>5. CASE matching # {} \/ ~entropyCheck
  BY <1>1, <1>2, <1>3, <1>5 DEF Leaks, matching
<1>6. CASE matching = {} /\ entropyCheck /\ high = {}
  <2>1. Entropic(line) = <<>>
    BY <1>6 DEF Entropic
  <2>2. Leaks(line, names, entropyCheck) = matching
    BY <1>4, <1>6 DEF Leaks, matching
  <2>3. ScanText(line, GetPatterns(names), entropyCheck) = matched
    BY <1>2, <1>3, <1>6, <2>1
  <2> QED
    BY <1>1, <2>2, <2>3
<1>7. CASE matching = {} /\ entropyCheck /\ high # {}
  <2> DEFINE hit == [type |-> "high_entropy_string", severity |-> "medium",
                     match |-> line.literals[Min(high)]]
             leak == [name |-> "high_entropy_string", severity |-> "medium"]
  <2>1. Entropic(line) = <<hit>>
    BY <1>7 DEF Entropic
  <2>2. Leaks(line, names, entropyCheck) = {leak}
    BY <1>4, <1>7 DEF Leaks, matching
  <2>3. ScanText(line, GetPatterns(names), entropyCheck) = <<hit>>
    BY <1>2, <1>3, <1>7, <2>1
  <2>4. hit.type = leak.name /\ hit.severity = leak.severity
    OBVIOUS
  <2> HIDE DEF hit, leak
  <2>5. Range(<<hit>>) = {hit} /\ DOMAIN <<hit>> = {1}
    BY DEF Range
  <2>6. <<hit>> \in Seq({hit})
    OBVIOUS
  <2>7. Reports(<<hit>>, {leak})
    BY <2>4, <2>5, <2>6 DEF Reports
  <2> QED
    BY <2>2, <2>3, <2>7
<1> QED
  BY <1>5, <1>6, <1>7

\* A file is scanned if nothing speaks against it.
LEMMA FateOf ==
  ASSUME NEW traits \in SUBSET Traits
  PROVE  Fate(traits) = "scanned" <=> traits = {}
<1> DEFINE D == {n \in DOMAIN SkipRules : SkipRules[n][1] \in traits}
<1>1. DOMAIN SkipRules = 1..9 /\ \A n \in 1..9 : SkipRules[n][2] # "scanned"
  BY DEF SkipRules
<1>2. D = {} <=> traits = {}
  BY DEF Traits
<1>3. CASE D = {}
  BY <1>2, <1>3 DEF Fate
<1>4. CASE D # {}
  <2>1. D \subseteq Nat /\ D \subseteq 1..9
    BY <1>1
  <2>2. Fate(traits) = SkipRules[Min(D)][2]
    BY <1>4 DEF Fate
  <2> HIDE DEF D
  <2>3. Min(D) \in D
    BY <1>4, <2>1, MinIsLeast
  <2> QED
    BY <1>1, <1>2, <1>4, <2>1, <2>2, <2>3
<1> QED
  BY <1>3, <1>4

\* The lines that are read as text, and where what is on them is.
Plain(tree, k) ==
    /\ tree[k].kind = "text"
    /\ tree[FileOf(tree, k)].traits = {}
    /\ \A j \in FileOf(tree, k)..k : tree[j].kind # "long"

LeakAt(tree, k, p) ==
    [file |-> tree[FileOf(tree, k)].name, line |-> k - FileOf(tree, k),
     type |-> p.name, severity |-> p.severity]

LeaksOn(tree, k, names, entropyCheck) ==
    {LeakAt(tree, k, p) : p \in Leaks(tree[k], names, entropyCheck)}

AllLeaks(tree, names, entropyCheck) ==
    UNION {LeaksOn(tree, k, names, entropyCheck) : k \in {j \in DOMAIN tree \ Files(tree) : Plain(tree, j)}}

\* What is found on a line, as ScanFiles puts it.
HitsOn(tree, k, names, entropyCheck) ==
    IF Seen(tree, k) THEN ScanText(tree[k], GetPatterns(names), entropyCheck) ELSE <<>>

FoundOn(tree, k, names, entropyCheck) ==
    LET on == HitsOn(tree, k, names, entropyCheck)
    IN  [h \in DOMAIN on |-> [file |-> Place(tree, k).file, line |-> Place(tree, k).line,
                              type |-> on[h].type, severity |-> on[h].severity]]

\* On a line of a file that is scanned every leak is found, and once; on any other line
\* none is.
LEMMA FoundOnLine ==
  ASSUME NEW L, Sized(L), \A line \in L : IsTreeLine(line),
         NEW tree \in Seq(L), WellFormedTree(tree), NEW names, NEW entropyCheck,
         NEW k \in 1..Len(tree)
  PROVE  LET found == FoundOn(tree, k, names, entropyCheck)
         IN  /\ found \in Seq(Range(found)) /\ IsInjective(found)
             /\ Plain(tree, k) => Range(found) = LeaksOn(tree, k, names, entropyCheck)
             /\ ~Plain(tree, k) => Range(found) = {}
<1> DEFINE found == FoundOn(tree, k, names, entropyCheck)
           on == HitsOn(tree, k, names, entropyCheck)
           leaks == Leaks(tree[k], names, entropyCheck)
           f == FileOf(tree, k)
<1>1. DOMAIN tree = 1..Len(tree) /\ Len(tree) \in Nat /\ \A j \in 1..Len(tree) : IsTreeLine(tree[j])
  BY LenProperties, ElementOfSeq
<1>2. f \in Files(tree) /\ f \in 1..k
  BY InFile
<1> HIDE DEF f
<1>3. Fate(tree[f].traits) = "scanned" <=> tree[f].traits = {}
  <2>1. IsTreeLine(tree[f]) /\ tree[f].kind = "file"
    BY <1>1, <1>2 DEF Files
  <2> QED
    BY <2>1, FateOf DEF IsTreeLine
<1>4. Plain(tree, k) <=> Seen(tree, k) /\ tree[k].kind = "text"
  BY <1>3 DEF Plain, Seen, f
<1>5. ASSUME NEW h \in DOMAIN on
      PROVE  /\ found[h].file = tree[f].name /\ found[h].line = k - f
             /\ found[h].type = on[h].type /\ found[h].severity = on[h].severity
             /\ found[h] = [file |-> tree[f].name, line |-> k - f,
                            type |-> on[h].type, severity |-> on[h].severity]
  BY DEF FoundOn, Place, f
<1>6. DOMAIN found = DOMAIN on
  BY DEF FoundOn
<1>7. CASE Plain(tree, k)
  <2>1. Reports(on, leaks)
    BY <1>1, <1>4, <1>7, TextReports DEF HitsOn
  <2> HIDE DEF on, found, leaks
  <2>2. DOMAIN on = 1..Len(on) /\ Len(on) \in Nat
    BY <2>1, LenProperties DEF Reports
  <2>3. found \in Seq(Range(found))
    <3>1. found = [h \in 1..Len(on) |-> found[h]]
      <4>1. found = [h \in DOMAIN found |-> found[h]]
        BY DEF found, FoundOn
      <4> QED
        BY <1>6, <2>2, <4>1
    <3>2. found \in [1..Len(on) -> Range(found)]
      BY <1>6, <2>2, <3>1 DEF Range
    <3> QED
      BY <2>2, <3>2, SeqDef
  <2>4. IsInjective(found)
    BY <1>5, <1>6, <2>1 DEF IsInjective, Reports
  <2>5. ASSUME NEW r \in Range(found)
        PROVE  r \in LeaksOn(tree, k, names, entropyCheck)
    <3>1. PICK h \in DOMAIN on : r = found[h]
      BY <1>6 DEF Range
    <3>2. PICK p \in leaks : on[h].type = p.name /\ on[h].severity = p.severity
      BY <2>1 DEF Reports, Range
    <3>3. r = LeakAt(tree, k, p)
      BY <1>5, <3>1, <3>2 DEF LeakAt, f
    <3> QED
      BY <3>2, <3>3 DEF LeaksOn, leaks
  <2>6. ASSUME NEW p \in leaks
        PROVE  LeakAt(tree, k, p) \in Range(found)
    <3>1. PICK h \in DOMAIN on : on[h].type = p.name /\ on[h].severity = p.severity
      BY <2>1 DEF Reports, Range
    <3>2. found[h] = LeakAt(tree, k, p)
      BY <1>5, <3>1 DEF LeakAt, f
    <3> QED
      BY <1>6, <3>2 DEF Range
  <2>7. Range(found) = LeaksOn(tree, k, names, entropyCheck)
    BY <2>5, <2>6 DEF LeaksOn, leaks
  <2> QED
    BY <1>7, <2>3, <2>4, <2>7 DEF found
<1>8. CASE ~Plain(tree, k)
  <2>1. on = <<>>
    <3>1. CASE Seen(tree, k)
      <4>1. tree[k].kind \in {"file", "comment", "text", "long"}
        BY <1>1 DEF IsTreeLine
      <4>2. tree[k].kind # "file" /\ tree[k].kind # "text" /\ tree[k].kind # "long"
        <5>1. k \in f..k
          BY <1>2
        <5> QED
          BY <1>4, <1>8, <3>1, <5>1 DEF Seen, f
      <4> QED
        BY <4>1, <4>2 DEF HitsOn, ScanText, IsCommentOrEmpty
    <3>2. CASE ~Seen(tree, k)
      BY <3>2 DEF HitsOn
    <3> QED
      BY <3>1, <3>2
  <2>2. DOMAIN found = {}
    BY <1>6, <2>1
  <2>3. found = <<>>
    <3>1. found = [h \in {} |-> found[h]]
      BY <2>1 DEF FoundOn
    <3> QED
      BY <3>1
  <2> HIDE DEF found
  <2>4. <<>> \in Seq(Range(found))
    OBVIOUS
  <2> QED
    BY <1>8, <2>2, <2>3, <2>4 DEF found, IsInjective, Range
<1> QED
  BY <1>7, <1>8

\* The answer has every leak once, if it is severe enough.
LEMMA LeaksListed ==
  ASSUME NEW L, Sized(L), \A line \in L : IsTreeLine(line),
         NEW tree \in Seq(L), WellFormedTree(tree), NEW names, NEW entropyCheck, NEW threshold
  PROVE  LET findings == HandlePIIGuard(tree, names, entropyCheck, threshold).findings
             severe == {f \in AllLeaks(tree, names, entropyCheck) :
                           Level(f.severity) >= Level(threshold)}
         IN  Range(findings) = severe /\ Len(findings) = Cardinality(severe)
<1> DEFINE N == Len(tree)
           part == [k \in 1..N |-> FoundOn(tree, k, names, entropyCheck)]
           S == UNION {Range(part[k]) : k \in 1..N}
           all == FlattenSeq(part)
           kept == {n \in DOMAIN all : Level(all[n].severity) >= Level(threshold)}
           findings == HandlePIIGuard(tree, names, entropyCheck, threshold).findings
<1>1. DOMAIN tree = 1..N /\ N \in Nat
  BY LenProperties
<1>2. \A k \in 1..N :
         /\ part[k] \in Seq(Range(part[k])) /\ IsInjective(part[k])
         /\ Plain(tree, k) => Range(part[k]) = LeaksOn(tree, k, names, entropyCheck)
         /\ ~Plain(tree, k) => Range(part[k]) = {}
  BY FoundOnLine
<1>3. findings = Selected(all, kept)
  BY <1>1 DEF HandlePIIGuard, ScanFiles, FilterBySeverity, FoundOn, HitsOn
<1>4. ASSUME NEW j \in 1..N, NEW k \in 1..N, j # k
      PROVE  Range(part[j]) \cap Range(part[k]) = {}
  <2> SUFFICES ASSUME NEW r, r \in Range(part[j]), r \in Range(part[k])
               PROVE  FALSE
    OBVIOUS
  <2>1. Plain(tree, j) /\ Plain(tree, k)
    BY <1>2
  <2>2. r \in LeaksOn(tree, j, names, entropyCheck) /\ r \in LeaksOn(tree, k, names, entropyCheck)
    BY <1>2, <2>1
  <2>3. /\ r.file = tree[FileOf(tree, j)].name /\ r.line = j - FileOf(tree, j)
        /\ r.file = tree[FileOf(tree, k)].name /\ r.line = k - FileOf(tree, k)
    BY <2>2 DEF LeaksOn, LeakAt
  <2>4. j = k
    BY <2>3, OnePlace
  <2> QED
    BY <1>4, <2>4
<1> HIDE DEF N
<1>5. part = [k \in 1..N |-> part[k]]
  OBVIOUS
<1> HIDE DEF part
<1>6. part \in [1..N -> Seq(S)]
  <2>1. ASSUME NEW k \in 1..N
        PROVE  part[k] \in Seq(S)
    <3>1. Range(part[k]) \subseteq S
      OBVIOUS
    <3> QED
      BY <1>2, <3>1, SeqMonotonic
  <2> QED
    BY <1>5, <2>1
<1>7. all \in Seq(S) /\ Range(all) = S /\ IsInjective(all)
  <2>1. all \in Seq(S) /\ Range(all) = S
    <3> HIDE DEF S
    <3>1. all \in Seq(S) /\ Range(all) = UNION {Range(part[k]) : k \in 1..N}
      BY <1>1, <1>6, FlattenRange
    <3> QED
      BY <3>1 DEF S
  <2>2. IsInjective(all)
    <3> HIDE DEF S
    <3> QED
      BY <1>1, <1>2, <1>4, <1>6, FlattenInjective
  <2> QED
    BY <2>1, <2>2
<1>8. S = AllLeaks(tree, names, entropyCheck)
  <2>1. ASSUME NEW r \in S
        PROVE  r \in AllLeaks(tree, names, entropyCheck)
    <3>1. PICK k \in 1..N : r \in Range(part[k])
      OBVIOUS
    <3>2. Plain(tree, k) /\ r \in LeaksOn(tree, k, names, entropyCheck)
      BY <1>2, <3>1
    <3>3. k \in DOMAIN tree \ Files(tree)
      BY <1>1, <3>2 DEF Plain, Files
    <3> QED
      BY <3>2, <3>3 DEF AllLeaks
  <2>2. ASSUME NEW r \in AllLeaks(tree, names, entropyCheck)
        PROVE  r \in S
    <3>1. PICK k \in DOMAIN tree : Plain(tree, k) /\ r \in LeaksOn(tree, k, names, entropyCheck)
      BY DEF AllLeaks
    <3> QED
      BY <1>1, <1>2, <3>1
  <2> QED
    BY <2>1, <2>2
<1> HIDE DEF all, S, findings
<1>9. kept \subseteq DOMAIN all
  OBVIOUS
<1>10. {all[n] : n \in kept} = {f \in S : Level(f.severity) >= Level(threshold)}
  BY <1>7 DEF Range
<1> HIDE DEF kept
<1>11. /\ findings \in Seq(S) /\ IsInjective(findings)
       /\ Range(findings) = {f \in S : Level(f.severity) >= Level(threshold)}
  BY <1>3, <1>7, <1>9, <1>10, SelectedRanks, SelectedInjective
<1>12. Cardinality(Range(findings)) = Len(findings)
  BY <1>11, InjectiveRange
<1> QED
  BY <1>8, <1>11, <1>12 DEF findings

-----------------------------------------------------------------------------
(* Names.                                                                  *)

\* Values listed in the order of the numbers that they are of.
Listed(S, g) == [n \in DOMAIN InOrder(S) |-> g[InOrder(S)[n]]]

\* Putting numbers in order gives some of them.
LEMMA InOrderIn ==
  ASSUME NEW S, IsFiniteSet(S), S \subseteq Nat
  PROVE  \A n \in DOMAIN InOrder(S) : InOrder(S)[n] \in S
<1>1. InOrder(S) \in [1..Cardinality(S) -> S]
  BY InOrderRanks
<1> QED
  BY <1>1

\* What is listed are the values of all the numbers, each once if they differ.
LEMMA Listing ==
  ASSUME NEW S, IsFiniteSet(S), S \subseteq Nat, NEW g, DOMAIN g = S
  PROVE  LET s == Listed(S, g)
         IN  /\ s \in Seq(Range(s)) /\ Range(s) = {g[k] : k \in S}
             /\ (\A j, k \in S : g[j] = g[k] => j = k) => IsInjective(s)
<1> DEFINE order == InOrder(S)
           s == Listed(S, g)
           C == Cardinality(S)
<1>1. /\ C \in Nat /\ order \in [1..C -> S]
      /\ \A n \in S : Rank(S, n) \in 1..C /\ order[Rank(S, n)] = n
      /\ \A k \in 1..C : Rank(S, order[k]) = k
  BY InOrderRanks
<1>7. s = [n \in DOMAIN order |-> g[order[n]]]
  BY DEF Listed
<1> HIDE DEF order, C, s
<1>2. DOMAIN s = 1..C /\ \A n \in 1..C : s[n] = g[order[n]] /\ order[n] \in S
  BY <1>1, <1>7
<1>3. s \in [1..C -> Range(s)]
  <2>1. s = [n \in 1..C |-> s[n]]
    BY <1>1, <1>7
  <2> QED
    BY <1>2, <2>1 DEF Range
<1>4. s \in Seq(Range(s))
  BY <1>1, <1>3, SeqDef
<1>5. Range(s) = {g[k] : k \in S}
  <2>1. \A n \in 1..C : s[n] \in {g[k] : k \in S}
    BY <1>2
  <2>2. \A k \in S : \E n \in 1..C : s[n] = g[k]
    BY <1>1, <1>2
  <2> QED
    <3>1. Range(s) = {s[n] : n \in 1..C}
      BY <1>2 DEF Range
    <3> QED
      BY <2>1, <2>2, <3>1
<1>6. ASSUME \A j, k \in S : g[j] = g[k] => j = k
      PROVE  IsInjective(s)
  <2> SUFFICES ASSUME NEW i \in 1..C, NEW j \in 1..C, s[i] = s[j]
               PROVE  i = j
    BY <1>2 DEF IsInjective
  <2>1. order[i] = order[j]
    BY ZenonT(60), <1>2, <1>6
  <2> QED
    BY <1>1, <2>1
<1> QED
  BY <1>4, <1>5, <1>6 DEF s

\* The lines of a file are numbers, finitely many.
LEMMA FiniteLines ==
  ASSUME NEW L, NEW tree \in Seq(L), NEW S, S \subseteq DOMAIN tree
  PROVE  IsFiniteSet(S) /\ S \subseteq Nat /\ S \subseteq 1..Len(tree)
<1>1. DOMAIN tree = 1..Len(tree) /\ Len(tree) \in Nat
  BY LenProperties
<1>2. IsFiniteSet(1..Len(tree))
  <2>1. 1 \in Int /\ Len(tree) \in Int
    BY <1>1
  <2> QED
    BY <2>1, FS_Interval
<1> QED
  BY <1>1, <1>2, FS_Subset

\* A file is in itself.
LEMMA FileOfFile ==
  ASSUME NEW L, NEW tree \in Seq(L), WellFormedTree(tree), NEW f \in Files(tree)
  PROVE  FileOf(tree, f) = f /\ f \in 1..Len(tree)
<1>1. f \in 1..Len(tree)
  BY LenProperties DEF Files
<1>2. FileOf(tree, f) \in 1..f /\ \A j \in FileOf(tree, f)+1..f : j \notin Files(tree)
  BY <1>1, InFile
<1> QED
  BY <1>1, <1>2

\* What a configuration says.
LEMMA ConfigFields ==
  ASSUME NEW tree, NEW k, NEW name, NEW at
  PROVE  LET c == Config(tree, k, name, at)
         IN  /\ c.file = tree[FileOf(tree, k)].name /\ c.name = name
             /\ tree[FileOf(tree, k)].format = "terraform" =>
                   c.timeout = IF at["timeout"] = 0 \/ tree[at["timeout"]].gives["timeout"] = 0
                               THEN 3 ELSE tree[at["timeout"]].gives["timeout"]
<1> DEFINE c == Config(tree, k, name, at)
           format == tree[FileOf(tree, k)].format
           given == IF "timeout" \in Keys(format) /\ at["timeout"] # 0
                    THEN tree[at["timeout"]].gives["timeout"] ELSE Unset["timeout"]
<1>1. "timeout" \in DOMAIN Unset /\ Unset["timeout"] = 0
  BY DEF Unset
<1>2. c.file = tree[FileOf(tree, k)].name /\ c.name = name
  BY DEF Config
<1>3. ASSUME format = "terraform"
      PROVE  c.timeout = IF at["timeout"] = 0 \/ tree[at["timeout"]].gives["timeout"] = 0
                         THEN 3 ELSE tree[at["timeout"]].gives["timeout"]
  <2>1. "timeout" \in Keys(format)
    BY <1>3 DEF Keys
  <2>2. c.timeout = CASE given = 0 -> 3 [] OTHER -> given
    <3>1. c.timeout =
             CASE format = "terraform" /\ "timeout" = "timeout" /\ given = 0 -> 3
               [] format = "terraform" /\ "timeout" = "memory" /\ given = 0 -> 128
               [] format # "sam" /\ "timeout" = "reserved" -> -1
               [] OTHER -> given
      BY <1>1 DEF Config
    <3> QED
      BY <1>3, <3>1
  <2>3. given = IF at["timeout"] = 0 THEN 0 ELSE tree[at["timeout"]].gives["timeout"]
    BY <1>1, <2>1
  <2> HIDE DEF given
  <2> QED
    BY <2>2, <2>3
<1> QED
  BY <1>2, <1>3

\* The attributes of a resource up to the end of its block, and those with a timeout.
After(tree, f, k) == {j \in LinesOf(tree, f) : j > k}

End(tree, f, k) ==
    Min({j \in After(tree, f, k) : tree[j].kind \in {"close", "open"}} \cup {Len(tree) + 1})

Given(tree, f, k) ==
    {j \in After(tree, f, k) : j < End(tree, f, k) /\ tree[j].kind = "attribute"}

Simple(tree, f, k) ==
    /\ End(tree, f, k) \in DOMAIN tree => tree[End(tree, f, k)].kind = "close"
    /\ \A j \in Given(tree, f, k) : tree[j].exact

Timeouts(tree, f, k) ==
    {j \in Given(tree, f, k) : Gives(tree[j], "timeout") /\ tree[j].gives.timeout # None}

Own(tree, f, name) ==
    {k \in {j \in LinesOf(tree, f) : tree[j].kind = "resource"} : name \in tree[k].endings}

\* In a block without nested ones, what is before the first brace is what is in the block.
LEMMA BlockOfResource ==
  ASSUME NEW L, NEW tree \in Seq(L), WellFormedTree(tree), NEW f \in Files(tree),
         NEW k \in LinesOf(tree, f), tree[k].kind = "resource", Simple(tree, f, k)
  PROVE  {j \in Block(tree, k) : Gives(tree[j], "timeout") /\ tree[j].gives["timeout"] # None}
            = Timeouts(tree, f, k)
<1> DEFINE T == {j \in After(tree, f, k) : tree[j].kind \in {"close", "open"}} \cup {Len(tree) + 1}
           e == End(tree, f, k)
<1>1. DOMAIN tree = 1..Len(tree) /\ Len(tree) \in Nat
  BY LenProperties
<1>2. /\ LinesOf(tree, f) \subseteq 1..Len(tree) /\ k \in 1..Len(tree) /\ FileOf(tree, k) = f
      /\ f \in 1..Len(tree)
  BY <1>1, FileOfFile DEF LinesOf
<1>3. e \in T /\ \A j \in T : e <= j
  <2>1. T \subseteq Nat /\ T # {}
    BY <1>1, <1>2 DEF After
  <2> HIDE DEF T
  <2>2. Min(T) \in T /\ \A j \in T : Min(T) <= j
    BY <2>1, MinIsLeast
  <2> QED
    BY <2>2 DEF End, T
<1> HIDE DEF e
<1>4. ASSUME NEW j \in LinesOf(tree, f), j > k
      PROVE  j < e <=> \A i \in k..j : tree[i].kind # "close"
  <2>1. j \in 1..Len(tree) /\ e \in Nat /\ k \in Nat
    BY <1>1, <1>2, <1>3 DEF After
  <2>2. ASSUME j < e, NEW i \in k..j, tree[i].kind = "close"
        PROVE  FALSE
    <3>1. i # k
      BY <2>2
    <3>2. FileOf(tree, j) = f /\ \A l \in f..j : FileOf(tree, l) = f
      BY <1>2, <2>1, <1>4, InFile DEF LinesOf
    <3>3. FileOf(tree, j) = f /\ \A l \in f+1..j : l \notin Files(tree)
      BY <1>2, <2>1, <1>4, InFile DEF LinesOf
    <3>4. k > f
      BY DEF LinesOf
    <3>5. i \in 1..Len(tree) /\ i \in f..j /\ i > k /\ i > f
      BY <1>1, <1>2, <2>1, <3>1, <3>4
    <3>6. i \in After(tree, f, k)
      BY <1>1, <2>2, <3>2, <3>5 DEF After, LinesOf, Files
    <3>7. i \in T
      BY <2>2, <3>6
    <3> QED
      BY <1>2, <1>3, <2>1, <2>2, <3>5, <3>7
  <2>3. ASSUME ~(j < e), \A i \in k..j : tree[i].kind # "close"
        PROVE  FALSE
    <3>1. e <= j /\ e \in 1..Len(tree)
      BY <1>1, <1>3, <2>1, <2>3 DEF After
    <3>2. tree[e].kind = "close"
      BY <1>1, <3>1 DEF Simple, e
    <3>3. e \in After(tree, f, k)
      BY <1>1, <1>3, <3>1
    <3>4. e \in k..j
      BY <1>2, <2>1, <3>1, <3>3 DEF After
    <3> QED
      BY <2>3, <3>2, <3>4
  <2> QED
    BY <2>2, <2>3
<1>5. \A j : j \in Block(tree, k) <=>
                j \in LinesOf(tree, f) /\ j > k /\ \A i \in k..j : tree[i].kind # "close"
  BY <1>2 DEF Block
<1>6. \A j : j \in Given(tree, f, k) <=>
                j \in LinesOf(tree, f) /\ j > k /\ j < e /\ tree[j].kind = "attribute"
  BY DEF Given, After, e
<1>7. \A j : Gives(tree[j], "timeout") => tree[j].kind = "attribute"
  BY DEF Gives
<1>8. \A j : j \in Timeouts(tree, f, k) <=>
                j \in Given(tree, f, k) /\ Gives(tree[j], "timeout") /\ tree[j].gives["timeout"] # None
  BY DEF Timeouts
<1> QED
  BY <1>4, <1>5, <1>6, <1>7, <1>8

\* The timeout of a function is that of its own block, if that can be told.
LEMMA TimeoutExtracted ==
  ASSUME NEW L, NEW tree \in Seq(L), WellFormedTree(tree), NEW f \in Files(tree),
         NEW name, NEW k, Own(tree, f, name) = {k}, Simple(tree, f, k)
  PROVE  LET at == ExtractAttr(tree, f, name, "timeout")
         IN  /\ Timeouts(tree, f, k) = {} => at = 0
             /\ Timeouts(tree, f, k) # {} => at = Max(Timeouts(tree, f, k)) /\ at # 0
<1> DEFINE here(m) == {j \in Block(tree, m) : Gives(tree[j], "timeout")
                                              /\ tree[j].gives["timeout"] # None}
           blocks == {m \in LinesOf(tree, f) :
                        tree[m].kind = "resource" /\ name \in tree[m].endings /\ here(m) # {}}
           timeouts == Timeouts(tree, f, k)
<1>1. k \in LinesOf(tree, f) /\ tree[k].kind = "resource" /\ name \in tree[k].endings
  BY DEF Own
<1>2. here(k) = timeouts
  BY <1>1, BlockOfResource
<1>3. ExtractAttr(tree, f, name, "timeout") = IF blocks = {} THEN 0 ELSE Max(here(Min(blocks)))
  BY DEF ExtractAttr
<1>4. \A m \in blocks : m = k
  BY DEF Own
<1>5. timeouts \subseteq 1..Len(tree)
  BY LenProperties DEF Timeouts, Given, After, LinesOf
<1> HIDE DEF here, timeouts
<1>6. CASE timeouts = {}
  <2>1. blocks = {}
    BY <1>2, <1>4, <1>6
  <2> QED
    BY <1>3, <1>6, <2>1 DEF timeouts
<1>7. CASE timeouts # {}
  <2>1. blocks = {k}
    BY <1>1, <1>2, <1>4, <1>7
  <2>2. k \in 1..Len(tree)
    BY <1>1, LenProperties DEF LinesOf
  <2>3. Min({k}) = k
    <3>1. {k} \subseteq Nat /\ {k} # {}
      BY <2>2
    <3> QED
      BY <3>1, MinIsLeast
  <2>4. ExtractAttr(tree, f, name, "timeout") = Max(timeouts)
    BY <1>2, <1>3, <2>1, <2>3
  <2>5. Max(timeouts) \in timeouts
    <3>1. Len(tree) \in Nat /\ timeouts \subseteq Nat /\ \A n \in timeouts : n <= Len(tree)
      BY <1>5, LenProperties
    <3> QED
      BY <1>7, <3>1, MaxIsGreatest
  <2> QED
    BY <1>5, <1>7, <2>4, <2>5 DEF timeouts
<1> QED
  BY <1>6, <1>7

\* What ParseLambdaConfigs reads in one file.
Parsed(tree, f) ==
    CASE tree[f].format \in {"sam", "serverless"} -> ParseYAML(tree, f)
      [] tree[f].format = "terraform" -> ParseTerraform(tree, f)
      [] tree[f].format = "cdk" -> ParseCDK(tree, f)
      [] tree[f].format = "other" -> <<>>

\* In Terraform, what is read of the resource in line k.
Resource(tree, f, k) ==
    Config(tree, k, tree[k].name,
           [key \in DOMAIN Unset |-> ExtractAttr(tree, f, tree[k].name, key)])

\* The functions parsed from a file are of that file and, in Terraform, those of its
\* resources.
LEMMA ParsedFile ==
  ASSUME NEW L, \A line \in L : line.kind = "file" => line.format \in Formats,
         NEW tree \in Seq(L), WellFormedTree(tree), NEW f \in Files(tree)
  PROVE  /\ Parsed(tree, f) \in Seq(Range(Parsed(tree, f)))
         /\ \A c \in Range(Parsed(tree, f)) : c.file = tree[f].name
         /\ tree[f].format = "terraform" =>
               \A c \in Range(Parsed(tree, f)) : \E k \in LinesOf(tree, f) : c = Resource(tree, f, k)
<1>1. tree[f].format \in Formats /\ LinesOf(tree, f) \subseteq DOMAIN tree
  <2>1. f \in 1..Len(tree) /\ tree[f].kind = "file"
    BY LenProperties DEF Files
  <2> QED
    BY <2>1, ElementOfSeq DEF LinesOf
<1>2. \A S : S \subseteq LinesOf(tree, f) => IsFiniteSet(S) /\ S \subseteq Nat
  BY <1>1, FiniteLines
<1>3. \A k \in LinesOf(tree, f) : FileOf(tree, k) = f
  BY DEF LinesOf
<1>4. <<>> \in Seq(Range(<<>>)) /\ Range(<<>>) = {}
  BY DEF Range
<1>5. CASE tree[f].format \in {"sam", "serverless"}
  <2> DEFINE functions == {k \in LinesOf(tree, f) : tree[k].kind = "function"}
             end(k) == Min({j \in functions : j > k} \cup {Max(LinesOf(tree, f)) + 1})
             at(k, key) == Max({0} \cup {j \in k+1..end(k)-1 : Gives(tree[j], key)})
             typed == {k \in functions : tree[f].format = "serverless" \/ tree[k].serverless}
             g == [k \in typed |-> Config(tree, k, tree[k].name, [key \in DOMAIN Unset |-> at(k, key)])]
             order == InOrder(typed)
             s == Listed(typed, g)
  <2>1. Parsed(tree, f) = ParseYAML(tree, f)
    BY <1>5 DEF Parsed
  <2>2. typed \subseteq LinesOf(tree, f) /\ DOMAIN g = typed
    OBVIOUS
  <2>6. IsFiniteSet(typed) /\ typed \subseteq Nat
    <3> HIDE DEF typed
    <3> QED
      BY <1>2, <2>2
  <2>3. \A k \in typed : g[k].file = tree[f].name
    BY <1>3, <2>2, ConfigFields
  <2>4. ParseYAML(tree, f) = s \/ ParseYAML(tree, f) = <<>>
    <3>1. \A n \in DOMAIN order : order[n] \in typed
      <4> HIDE DEF typed
      <4> QED
        BY <2>6, InOrderIn
    <3>2. s = [n \in DOMAIN order |->
                 Config(tree, order[n], tree[order[n]].name,
                        [key \in DOMAIN Unset |-> at(order[n], key)])]
      BY <3>1 DEF Listed
    <3> HIDE DEF s
    <3> QED
      BY <3>2 DEF ParseYAML
  <2> HIDE DEF typed, g
  <2>5. s \in Seq(Range(s)) /\ Range(s) = {g[k] : k \in typed}
    BY <2>2, <2>6, Listing
  <2> HIDE DEF s
  <2>7. \A c \in Range(s) : c.file = tree[f].name
    BY <2>3, <2>5
  <2> QED
    BY <1>4, <1>5, <2>1, <2>4, <2>5, <2>7
<1>6. CASE tree[f].format = "terraform"
  <2> DEFINE functions == {k \in LinesOf(tree, f) : tree[k].kind = "resource" /\ tree[k].lambda}
             g == [k \in functions |-> Resource(tree, f, k)]
             order == InOrder(functions)
             s == Listed(functions, g)
  <2>1. functions \subseteq LinesOf(tree, f) /\ DOMAIN g = functions
        /\ \A k \in functions : g[k] = Resource(tree, f, k)
    OBVIOUS
  <2>7. IsFiniteSet(functions) /\ functions \subseteq Nat
    <3> HIDE DEF functions
    <3> QED
      BY <1>2, <2>1
  <2>2. Parsed(tree, f) = ParseTerraform(tree, f)
    BY <1>6 DEF Parsed
  <2>3. \A n \in DOMAIN order : order[n] \in functions
    <3> HIDE DEF functions
    <3> QED
      BY <2>7, InOrderIn
  <2>4. ParseTerraform(tree, f) = s
    <3>1. s = [n \in DOMAIN order |-> Resource(tree, f, order[n])]
      BY <2>3 DEF Listed
    <3> HIDE DEF s
    <3> QED
      BY <3>1 DEF ParseTerraform, Resource
  <2>5. \A k \in functions : g[k].file = tree[f].name
    BY <1>3, <2>1, ConfigFields DEF Resource
  <2> HIDE DEF functions, g
  <2>6. s \in Seq(Range(s)) /\ Range(s) = {g[k] : k \in functions}
    BY <2>1, <2>7, Listing
  <2> HIDE DEF s
  <2> QED
    BY <2>1, <2>2, <2>4, <2>5, <2>6
<1>7. CASE tree[f].format = "cdk"
  <2> DEFINE given(key) == {k \in LinesOf(tree, f) : Gives(tree[k], key)}
             S == given("handler")
             handlers == InOrder(S)
             at(h, key) == CASE key = "handler" -> h
                             [] key = "runtime" /\ h # 0 /\ given(key) # {} -> Min(given(key))
                             [] OTHER -> 0
             config(h) == Config(tree, f, tree[f].name, [key \in DOMAIN Unset |-> at(h, key)])
             g == [h \in S |-> config(h)]
             s == Listed(S, g)
  <2>1. Parsed(tree, f) = ParseCDK(tree, f)
    BY <1>7 DEF Parsed
  <2>2. S \subseteq LinesOf(tree, f) /\ DOMAIN g = S
    OBVIOUS
  <2>10. IsFiniteSet(S) /\ S \subseteq Nat
    <3> HIDE DEF S
    <3> QED
      BY <1>2, <2>2
  <2>3. \A h : config(h).file = tree[f].name
    BY FileOfFile, ConfigFields
  <2>4. \A n \in DOMAIN handlers : handlers[n] \in S
    <3> HIDE DEF S
    <3> QED
      BY <2>10, InOrderIn
  <2>5. ParseCDK(tree, f) \in {<<>>, <<config(0)>>, s}
    <3>1. s = [h \in DOMAIN handlers |-> config(handlers[h])]
      BY <2>4 DEF Listed
    <3> HIDE DEF s
    <3> QED
      BY <3>1 DEF ParseCDK
  <2>6. \A h \in S : g[h] = config(h)
    OBVIOUS
  <2> HIDE DEF S, g, config
  <2>7. s \in Seq(Range(s)) /\ Range(s) = {g[k] : k \in S}
    BY <2>2, <2>10, Listing
  <2> HIDE DEF s
  <2>8. <<config(0)>> \in Seq(Range(<<config(0)>>)) /\ Range(<<config(0)>>) = {config(0)}
    <3> DEFINE c == config(0)
    <3> HIDE DEF c
    <3>1. Range(<<c>>) = {c}
      BY DEF Range
    <3> QED
      BY <3>1 DEF c
  <2>9. \A c \in Range(s) : c.file = tree[f].name
    BY <2>3, <2>6, <2>7
  <2> QED
    BY <1>4, <1>7, <2>1, <2>3, <2>5, <2>7, <2>8, <2>9
<1>8. CASE tree[f].format = "other"
  BY <1>4, <1>8 DEF Parsed
<1> QED
  BY <1>1, <1>5, <1>6, <1>7, <1>8 DEF Formats

\* Every function in the answer has been read in some file.
LEMMA FunctionsRead ==
  ASSUME NEW L, \A line \in L : line.kind = "file" => line.format \in Formats,
         NEW tree \in Seq(L), WellFormedTree(tree)
  PROVE  \A c \in Range(ParseLambdaConfigs(tree)) :
            \E f \in Files(tree) : c \in Range(Parsed(tree, f))
<1> DEFINE S == {f \in Files(tree) : tree[f].traits \cap {"excluded", "large", "unreadable"} = {}}
           files == InOrder(S)
           part == [n \in DOMAIN files |-> Parsed(tree, files[n])]
           all == UNION {Range(Parsed(tree, f)) : f \in Files(tree)}
           C == Cardinality(S)
<1>1. S \subseteq Files(tree) /\ S \subseteq DOMAIN tree
  BY DEF Files
<1>2. ParseLambdaConfigs(tree) = FlattenSeq(part)
  BY DEF ParseLambdaConfigs, Parsed
<1> HIDE DEF S
<1>3. C \in Nat /\ files \in [1..C -> S]
  BY <1>1, FiniteLines, InOrderRanks
<1> HIDE DEF files, C
<1>4. DOMAIN part = 1..C /\ \A n \in 1..C : part[n] = Parsed(tree, files[n]) /\ files[n] \in Files(tree)
  BY <1>1, <1>3
<1>5. part = [n \in 1..C |-> part[n]]
  BY <1>3
<1> HIDE DEF part
<1>6. ASSUME NEW n \in 1..C
      PROVE  part[n] \in Seq(all)
  <2>1. part[n] \in Seq(Range(part[n]))
    BY <1>4, ParsedFile
  <2>2. Range(part[n]) \subseteq all
    BY <1>4
  <2> QED
    BY <2>1, <2>2, SeqMonotonic
<1> HIDE DEF all
<1>7. part \in [1..C -> Seq(all)]
  BY <1>5, <1>6
<1>8. Range(FlattenSeq(part)) = UNION {Range(part[n]) : n \in 1..C}
  BY <1>3, <1>7, FlattenRange
<1> QED
  BY <1>2, <1>4, <1>8

\* In Terraform a function has its own timeout, if its block is simple and it has no
\* namesakes.
LEMMA TimeoutResolved ==
  ASSUME NEW L, Sized(L), \A line \in L : line.kind = "file" => line.format \in Formats,
         NEW tree \in Seq(L), WellFormedTree(tree),
         NEW f \in Files(tree), NEW n \in DOMAIN ParseLambdaConfigs(tree),
         tree[f].format = "terraform", ParseLambdaConfigs(tree)[n].file = tree[f].name,
         NEW k, Own(tree, f, ParseLambdaConfigs(tree)[n].name) = {k}, Simple(tree, f, k)
  PROVE  ParseLambdaConfigs(tree)[n].timeout =
            IF Timeouts(tree, f, k) = {} \/ tree[Max(Timeouts(tree, f, k))].gives.timeout = 0
            THEN 3 ELSE tree[Max(Timeouts(tree, f, k))].gives.timeout
<1> DEFINE c == ParseLambdaConfigs(tree)[n]
<1>1. c \in Range(ParseLambdaConfigs(tree))
  BY DEF Range
<1> HIDE DEF c
<1>2. PICK g \in Files(tree) : c \in Range(Parsed(tree, g))
  BY <1>1, FunctionsRead
<1>3. c.file = tree[g].name
  BY <1>2, ParsedFile
<1>4. g = f
  BY <1>3, OnePlace DEF c
<1>5. PICK m \in LinesOf(tree, f) : c = Resource(tree, f, m)
  BY <1>2, <1>4, ParsedFile
<1> DEFINE name == tree[m].name
           at == [key \in DOMAIN Unset |-> ExtractAttr(tree, f, name, key)]
<1>6. FileOf(tree, m) = f
  BY DEF LinesOf
<1>7. /\ c.name = name
      /\ c.timeout = IF at["timeout"] = 0 \/ tree[at["timeout"]].gives["timeout"] = 0
                     THEN 3 ELSE tree[at["timeout"]].gives["timeout"]
  BY <1>5, <1>6, ConfigFields DEF Resource
<1>8. at["timeout"] = ExtractAttr(tree, f, name, "timeout")
  BY DEF Unset
<1> HIDE DEF at, name
<1>9. Own(tree, f, name) = {k}
  BY <1>7 DEF c
<1>10. /\ Timeouts(tree, f, k) = {} => at["timeout"] = 0
       /\ Timeouts(tree, f, k) # {} => at["timeout"] = Max(Timeouts(tree, f, k)) /\ at["timeout"] # 0
  BY <1>8, <1>9, TimeoutExtracted
<1> QED
  BY <1>7, <1>10 DEF c

\* The services that the variable in a call may have a client of.
Imported(tree, f) ==
    {k \in LinesOf(tree, f) : tree[k].kind = "import" /\ tree[k].aws}

ServiceOf(tree, f, package) ==
    {tree[k].service : k \in {j \in Imported(tree, f) : tree[j].name = package}}

Assigned(tree, f, name) ==
    {j \in LinesOf(tree, f) : tree[j].kind = "client" /\ tree[j].name = name}

Services(tree, f, name) ==
    UNION {ServiceOf(tree, f, tree[c].package) : c \in Assigned(tree, f, name)}

\* A variable is known if there is such a service, and stands for one of them.
LEMMA ClientKnown ==
  ASSUME NEW L, NEW tree \in Seq(L), NEW f, NEW name
  PROVE  /\ name \in DOMAIN ClientVars(tree, f) <=> Services(tree, f, name) # {}
         /\ name \in DOMAIN ClientVars(tree, f) =>
               ClientVars(tree, f)[name] \in Services(tree, f, name)
<1> DEFINE imports == Imported(tree, f)
           packages == SVCImportMap(tree, f)
           clients == {k \in LinesOf(tree, f) :
                         tree[k].kind = "client" /\ tree[k].package \in DOMAIN packages}
<1>1. LinesOf(tree, f) \subseteq DOMAIN tree
  BY DEF LinesOf
<1>2. /\ DOMAIN packages = {tree[k].name : k \in imports}
      /\ \A package \in DOMAIN packages :
            packages[package] = tree[Max(Named(tree, imports, package))].service
  BY DEF SVCImportMap, Imported
<1>3. /\ DOMAIN ClientVars(tree, f) = {tree[k].name : k \in clients}
      /\ \A v \in DOMAIN ClientVars(tree, f) :
            ClientVars(tree, f)[v] = packages[tree[Max(Named(tree, clients, v))].package]
  BY DEF ClientVars
<1>4. ASSUME NEW S, S \subseteq LinesOf(tree, f), NEW v, v \in {tree[k].name : k \in S}
      PROVE  Max(Named(tree, S, v)) \in S /\ tree[Max(Named(tree, S, v))].name = v
  <2> DEFINE T == Named(tree, S, v)
  <2>1. T \subseteq DOMAIN tree /\ T # {} /\ \A n \in T : n \in S /\ tree[n].name = v
    BY <1>1, <1>4 DEF Named
  <2> HIDE DEF T
  <2>2. T \subseteq Nat /\ T \subseteq 1..Len(tree) /\ Len(tree) \in Nat
    BY <2>1, FiniteLines, LenProperties
  <2>3. Max(T) \in T
    BY <2>1, <2>2, MaxIsGreatest
  <2> QED
    BY <2>1, <2>3 DEF T
<1>5. imports \subseteq LinesOf(tree, f) /\ clients \subseteq LinesOf(tree, f)
  BY DEF Imported
<1>6. \A package : package \in DOMAIN packages <=> ServiceOf(tree, f, package) # {}
  <2> TAKE package
  <2>1. ServiceOf(tree, f, package) # {} <=> \E k \in imports : tree[k].name = package
    BY DEF ServiceOf
  <2> QED
    BY <1>2, <2>1
<1>7. \A package \in DOMAIN packages : packages[package] \in ServiceOf(tree, f, package)
  <2> TAKE package \in DOMAIN packages
  <2> DEFINE m == Max(Named(tree, imports, package))
  <2>1. m \in imports /\ tree[m].name = package
    BY <1>2, <1>4, <1>5
  <2>2. packages[package] = tree[m].service
    BY <1>2
  <2> HIDE DEF m, packages
  <2> QED
    BY <2>1, <2>2 DEF ServiceOf
<1> HIDE DEF packages, imports
<1>8. name \in DOMAIN ClientVars(tree, f) <=> \E c \in Assigned(tree, f, name) :
                                                 tree[c].package \in DOMAIN packages
  <2>1. name \in DOMAIN ClientVars(tree, f) <=> \E k \in clients : tree[k].name = name
    <3> HIDE DEF clients
    <3> QED
      BY <1>3
  <2>2. \A k : k \in clients /\ tree[k].name = name
                 <=> k \in Assigned(tree, f, name) /\ tree[k].package \in DOMAIN packages
    BY DEF Assigned
  <2> HIDE DEF clients
  <2> QED
    BY <2>1, <2>2
<1>9. Services(tree, f, name) # {} <=> \E c \in Assigned(tree, f, name) :
                                          ServiceOf(tree, f, tree[c].package) # {}
  BY DEF Services
<1>10. ASSUME name \in DOMAIN ClientVars(tree, f)
       PROVE  ClientVars(tree, f)[name] \in Services(tree, f, name)
  <2> DEFINE m == Max(Named(tree, clients, name))
  <2>1. m \in clients /\ tree[m].name = name
    <3> HIDE DEF clients
    <3> QED
      BY <1>3, <1>4, <1>5, <1>10
  <2>2. m \in Assigned(tree, f, name) /\ tree[m].package \in DOMAIN packages
    <3>1. tree[m].kind = "client" /\ tree[m].package \in DOMAIN packages /\ m \in LinesOf(tree, f)
      BY <2>1
    <3> HIDE DEF m
    <3> QED
      BY <2>1, <3>1 DEF Assigned
  <2>3. ClientVars(tree, f)[name] = packages[tree[m].package]
    BY <1>3, <1>10
  <2> HIDE DEF m
  <2>4. packages[tree[m].package] \in ServiceOf(tree, f, tree[m].package)
    BY <1>7, <2>2
  <2> QED
    BY <2>2, <2>3, <2>4 DEF Services
<1> QED
  BY <1>6, <1>8, <1>9, <1>10

\* What is used of the clients in a file.
UsedIn(tree, f) == {k \in Calls(tree, f) : Receiver(tree[k]) \in DOMAIN ClientVars(tree, f)}

Usage(tree, f, k) ==
    [file |-> Place(tree, k).file, line |-> Place(tree, k).line,
     action |-> <<ClientVars(tree, f)[Receiver(tree[k])], Method(tree[k])>>]

\* Every use is listed once.
LEMMA UsagesListed ==
  ASSUME NEW L, Sized(L), NEW tree \in Seq(L), WellFormedTree(tree)
  PROVE  /\ Usages(tree) \in Seq(Range(Usages(tree))) /\ IsInjective(Usages(tree))
         /\ \A u \in Range(Usages(tree)) :
               \E f \in Files(tree) : \E k \in UsedIn(tree, f) : u = Usage(tree, f, k)
         /\ \A f \in Files(tree) : GoFile(tree, f) =>
               \A k \in UsedIn(tree, f) : Usage(tree, f, k) \in Range(Usages(tree))
<1> DEFINE S == {f \in Files(tree) : GoFile(tree, f)}
           files == InOrder(S)
           C == Cardinality(S)
           g(f) == [k \in UsedIn(tree, f) |-> Usage(tree, f, k)]
           usages(f) == Listed(UsedIn(tree, f), g(f))
           part == [n \in DOMAIN files |-> usages(files[n])]
           all == UNION {Range(usages(f)) : f \in S}
<1>1. S \subseteq Files(tree) /\ S \subseteq DOMAIN tree
  BY DEF Files
<1>2. \A f : UsedIn(tree, f) \subseteq LinesOf(tree, f) /\ LinesOf(tree, f) \subseteq DOMAIN tree
  BY DEF UsedIn, Calls, LinesOf
<1>3. \A f : IsFiniteSet(UsedIn(tree, f)) /\ UsedIn(tree, f) \subseteq Nat
             /\ UsedIn(tree, f) \subseteq 1..Len(tree)
  <2> TAKE f
  <2>1. UsedIn(tree, f) \subseteq DOMAIN tree
    BY <1>2
  <2> QED
    BY <2>1, FiniteLines
<1>4. \A f : \A k \in UsedIn(tree, f) :
         /\ Usage(tree, f, k).file = tree[f].name /\ Usage(tree, f, k).line = k - f
         /\ FileOf(tree, k) = f
  BY <1>2 DEF Usage, Place, LinesOf
<1>5. \A f : /\ usages(f) \in Seq(Range(usages(f)))
             /\ Range(usages(f)) = {Usage(tree, f, k) : k \in UsedIn(tree, f)}
             /\ IsInjective(usages(f))
  <2> TAKE f
  <2> DEFINE U == UsedIn(tree, f)
             h == g(f)
  <2>1. DOMAIN h = U /\ \A k \in U : h[k] = Usage(tree, f, k)
    OBVIOUS
  <2>2. IsFiniteSet(U) /\ U \subseteq Nat /\ U \subseteq 1..Len(tree)
    BY <1>3
  <2>3. \A j, k \in U : h[j] = h[k] => j = k
    <3> SUFFICES ASSUME NEW j \in U, NEW k \in U, h[j] = h[k]
                 PROVE  j = k
      OBVIOUS
    <3>1. Usage(tree, f, j) = Usage(tree, f, k)
      BY <2>1
    <3>2. /\ tree[FileOf(tree, j)].name = tree[FileOf(tree, k)].name
          /\ j - FileOf(tree, j) = k - FileOf(tree, k)
      BY <1>4, <3>1
    <3> QED
      BY <2>2, <3>2, OnePlace
  <2> HIDE DEF h, U
  <2>4. /\ Listed(U, h) \in Seq(Range(Listed(U, h)))
        /\ Range(Listed(U, h)) = {h[k] : k \in U}
        /\ IsInjective(Listed(U, h))
    <3>1. DOMAIN h = U /\ IsFiniteSet(U) /\ U \subseteq Nat
      BY <2>1, <2>2
    <3>2. /\ Listed(U, h) \in Seq(Range(Listed(U, h)))
          /\ Range(Listed(U, h)) = {h[k] : k \in U}
          /\ (\A j, k \in U : h[j] = h[k] => j = k) => IsInjective(Listed(U, h))
      BY <3>1, Listing, Zenon
    <3> QED
      BY <2>3, <3>2
  <2>5. {h[k] : k \in U} = {Usage(tree, f, k) : k \in U}
    BY <2>1
  <2> QED
    BY <2>4, <2>5 DEF h, U
<1>6. /\ C \in Nat /\ files \in [1..C -> S]
      /\ \A f \in S : \E n \in 1..C : files[n] = f
      /\ \A m, n \in 1..C : files[m] = files[n] => m = n
  <2> HIDE DEF S
  <2>1. IsFiniteSet(S) /\ S \subseteq Nat
    BY <1>1, FiniteLines
  <2> QED
    BY <2>1, InOrderRanks
<1>7. Usages(tree) = FlattenSeq(part)
  <2>1. \A f : usages(f) =
           [n \in DOMAIN InOrder(UsedIn(tree, f)) |-> Usage(tree, f, InOrder(UsedIn(tree, f))[n])]
    <3> TAKE f
    <3>1. \A n \in DOMAIN InOrder(UsedIn(tree, f)) : InOrder(UsedIn(tree, f))[n] \in UsedIn(tree, f)
      BY <1>3, InOrderRanks
    <3> QED
      BY <3>1 DEF Listed
  <2>2. part = [n \in DOMAIN files |->
                  [i \in DOMAIN InOrder(UsedIn(tree, files[n])) |->
                      Usage(tree, files[n], InOrder(UsedIn(tree, files[n]))[i])]]
    <3> HIDE DEF usages
    <3> QED
      BY <2>1
  <2> HIDE DEF part
  <2> QED
    BY <2>2 DEF Usages, UsedIn, Usage
<1> HIDE DEF usages, S, files, C
<1>8. DOMAIN part = 1..C /\ \A n \in 1..C : part[n] = usages(files[n]) /\ files[n] \in S
  BY <1>6
<1>9. part = [n \in 1..C |-> part[n]]
  BY <1>6
<1> HIDE DEF part
<1>10. ASSUME NEW n \in 1..C
       PROVE  part[n] \in Seq(all) /\ IsInjective(part[n])
  <2>1. part[n] \in Seq(Range(part[n])) /\ IsInjective(part[n])
    BY <1>5, <1>8
  <2>2. Range(part[n]) \subseteq all
    BY <1>8
  <2> QED
    BY <2>1, <2>2, SeqMonotonic
<1>11. ASSUME NEW m \in 1..C, NEW n \in 1..C, m # n
       PROVE  Range(part[m]) \cap Range(part[n]) = {}
  <2> SUFFICES ASSUME NEW u, u \in Range(part[m]), u \in Range(part[n])
               PROVE  FALSE
    OBVIOUS
  <2>1. u.file = tree[files[m]].name /\ u.file = tree[files[n]].name
    BY <1>4, <1>5, <1>8
  <2>2. files[m] = files[n]
    BY <1>1, <1>8, <2>1, OnePlace
  <2> QED
    BY <1>6, <1>11, <2>2
<1> HIDE DEF all
<1>12. part \in [1..C -> Seq(all)]
  BY <1>9, <1>10
<1>13. FlattenSeq(part) \in Seq(all) /\ Range(FlattenSeq(part)) = UNION {Range(part[n]) : n \in 1..C}
  <2>1. C \in Nat
    BY <1>6
  <2> QED
    BY <2>1, <1>12, FlattenRange, Zenon
<1>14. IsInjective(FlattenSeq(part))
  BY <1>6, <1>10, <1>11, <1>12, FlattenInjective
<1>15. FlattenSeq(part) \in Seq(Range(FlattenSeq(part)))
  <2> DEFINE s == FlattenSeq(part)
  <2>1. s \in Seq(all)
    BY <1>13
  <2> HIDE DEF s
  <2>2. Len(s) \in Nat /\ DOMAIN s = 1..Len(s) /\ s \in [1..Len(s) -> all]
    BY <2>1, LenProperties
  <2>3. s \in [1..Len(s) -> Range(s)]
    BY <2>2 DEF Range
  <2>4. s \in Seq(Range(s))
    BY <2>2, <2>3, SeqDef
  <2> QED
    BY <2>4 DEF s
<1>16. ASSUME NEW u \in Range(FlattenSeq(part))
       PROVE  \E f \in Files(tree) : \E k \in UsedIn(tree, f) : u = Usage(tree, f, k)
  BY <1>1, <1>5, <1>8, <1>13
<1>17. ASSUME NEW f \in Files(tree), GoFile(tree, f), NEW k \in UsedIn(tree, f)
       PROVE  Usage(tree, f, k) \in Range(FlattenSeq(part))
  <2>1. PICK n \in 1..C : files[n] = f
    BY <1>6, <1>17 DEF S
  <2>2. Usage(tree, f, k) \in Range(part[n])
    BY <1>5, <1>8, <2>1
  <2> QED
    BY <1>13, <2>2
<1> QED
  BY <1>7, <1>14, <1>15, <1>16, <1>17

\* A call is listed once if its variable has a client, else not at all, and with the
\* service of that client.
LEMMA CallResolved ==
  ASSUME NEW L, Sized(L), NEW tree \in Seq(L), WellFormedTree(tree),
         NEW k \in DOMAIN tree, tree[k].kind = "call",
         tree[FileOf(tree, k)].format = "go", tree[FileOf(tree, k)].traits = {}
  PROVE  LET f == FileOf(tree, k)
             services == Services(tree, f, tree[k].name)
             usages == Usages(tree)
             listed == {n \in DOMAIN usages : usages[n].file = tree[f].name
                                              /\ usages[n].line = k - f}
         IN  /\ Cardinality(listed) = (IF services = {} THEN 0 ELSE 1)
             /\ Cardinality(services) = 1 =>
                   \A n \in listed, s \in services : usages[n].action = <<s, tree[k].method>>
<1> DEFINE f == FileOf(tree, k)
           name == tree[k].name
           services == Services(tree, f, name)
           usages == Usages(tree)
           listed == {n \in DOMAIN usages : usages[n].file = tree[f].name
                                            /\ usages[n].line = k - f}
<1>1. k \in 1..Len(tree) /\ f \in Files(tree) /\ f \in 1..k
  BY LenProperties, InFile
<1>2. k \in LinesOf(tree, f)
  <2>1. k \notin Files(tree)
    BY DEF Files
  <2>2. k # f /\ k > f
    BY <1>1, <2>1
  <2> QED
    BY <2>1, <2>2 DEF LinesOf
<1>3. GoFile(tree, f)
  BY DEF GoFile
<1>4. Receiver(tree[k]) = name /\ Method(tree[k]) = tree[k].method
  BY DEF Receiver, Method
<1>5. k \in UsedIn(tree, f) <=> services # {}
  <2>1. k \in UsedIn(tree, f) <=> name \in DOMAIN ClientVars(tree, f)
    <3>1. k \in Calls(tree, f)
      BY <1>2 DEF Calls
    <3> HIDE DEF f, name
    <3> QED
      BY <1>4, <3>1 DEF UsedIn
  <2> HIDE DEF f, name
  <2> QED
    BY <2>1, ClientKnown DEF services
<1>6. ASSUME k \in UsedIn(tree, f)
      PROVE  Usage(tree, f, k).action[1] \in services
             /\ Usage(tree, f, k).action = <<Usage(tree, f, k).action[1], tree[k].method>>
  <2>1. name \in DOMAIN ClientVars(tree, f)
    <3> HIDE DEF f, name
    <3> QED
      BY <1>4, <1>6 DEF UsedIn
  <2> HIDE DEF f, name
  <2>2. ClientVars(tree, f)[name] \in Services(tree, f, name)
    BY <2>1, ClientKnown
  <2>3. Usage(tree, f, k).action = <<ClientVars(tree, f)[name], tree[k].method>>
    BY <1>4 DEF Usage
  <2> QED
    BY <2>2, <2>3 DEF services
<1> HIDE DEF f, services, name
<1>7. \A g \in Files(tree) : \A m \in UsedIn(tree, g) :
         /\ Usage(tree, g, m).file = tree[g].name /\ Usage(tree, g, m).line = m - g
         /\ FileOf(tree, m) = g /\ m \in 1..Len(tree)
  BY LenProperties DEF UsedIn, Calls, LinesOf, Usage, Place
<1>8. ASSUME NEW n \in listed
      PROVE  k \in UsedIn(tree, f) /\ usages[n] = Usage(tree, f, k)
  <2>1. usages[n] \in Range(Usages(tree))
    BY DEF Range
  <2>2. PICK g \in Files(tree) : \E m \in UsedIn(tree, g) : usages[n] = Usage(tree, g, m)
    BY <2>1, UsagesListed
  <2>3. PICK m \in UsedIn(tree, g) : usages[n] = Usage(tree, g, m)
    BY <2>2
  <2>4. tree[g].name = tree[f].name /\ m - g = k - f /\ FileOf(tree, m) = g /\ m \in 1..Len(tree)
    BY <1>7, <2>3
  <2>5. m = k
    BY <1>1, <2>4, OnePlace DEF f
  <2>6. g = f
    BY <2>4, <2>5 DEF f
  <2> QED
    BY <2>3, <2>5, <2>6
<1>9. CASE services = {}
  <2>1. listed = {}
    BY <1>5, <1>8, <1>9
  <2>2. Cardinality(listed) = 0
    BY <2>1, FS_EmptySet
  <2> HIDE DEF listed
  <2> QED
    BY <1>9, <2>1, <2>2 DEF listed, services, f, name
<1>10. CASE services # {}
  <2>1. Usage(tree, f, k) \in Range(Usages(tree))
    BY <1>1, <1>3, <1>5, <1>10, UsagesListed DEF f
  <2>2. PICK n \in DOMAIN usages : usages[n] = Usage(tree, f, k)
    BY <2>1 DEF Range
  <2>3. n \in listed
    BY <1>1, <1>5, <1>7, <1>10, <2>2 DEF f
  <2>4. \A m \in listed : m = n
    <3> TAKE m \in listed
    <3>1. usages[m] = usages[n] /\ m \in DOMAIN usages
      BY <1>8, <2>2
    <3> HIDE DEF usages, listed
    <3> QED
      BY <3>1, UsagesListed DEF IsInjective, usages
  <2>5. listed = {n}
    BY <2>3, <2>4
  <2>6. Cardinality(listed) = 1
    BY <2>5, FS_Singleton
  <2>7. ASSUME Cardinality(services) = 1, NEW s \in services
        PROVE  Usage(tree, f, k).action = <<s, tree[k].method>>
    <3>1. IsFiniteSet(services)
      <4> DEFINE h == [j \in 1..Len(tree) |-> tree[j].service]
                 T == {tree[j].service : j \in 1..Len(tree)}
      <4>1. IsFiniteSet(1..Len(tree))
        <5>1. 1 \in Int /\ Len(tree) \in Int
          BY LenProperties
        <5> QED
          BY <5>1, FS_Interval
      <4>2. h \in Surjection(1..Len(tree), T)
        BY DEF Surjection
      <4>3. services \subseteq T
        BY LenProperties DEF services, Services, ServiceOf, Imported, LinesOf
      <4> HIDE DEF h, T
      <4>4. IsFiniteSet(T)
        BY <4>1, <4>2, FS_Surjection
      <4> QED
        BY <4>3, <4>4, FS_Subset
    <3>2. PICK x : services = {x}
      BY <2>7, <3>1, FS_Singleton
    <3>3. Usage(tree, f, k).action[1] = s
      BY <1>5, <1>6, <2>7, <3>2
    <3> QED
      BY <1>5, <1>6, <1>10, <3>3
  <2> HIDE DEF listed
  <2>8. Cardinality(services) = 1 =>
           \A m \in listed, s \in services : usages[m].action = <<s, tree[k].method>>
    BY <1>8, <2>7
  <2> QED
    BY <1>10, <2>6, <2>8 DEF listed, services, f, name
<1> QED
  BY <1>9, <1>10

\* Every action is counted, as often as it is listed.
LEMMA ActionsCounted ==
  ASSUME NEW X, NEW usages \in Seq(X)
  PROVE  LET actions == DeduplicateActions(usages)
         IN  /\ \A n \in DOMAIN actions :
                   actions[n].count =
                      Cardinality({u \in DOMAIN usages : usages[u].action = actions[n].action})
             /\ {actions[n].action : n \in DOMAIN actions} = {usages[u].action : u \in DOMAIN usages}
<1> DEFINE actions == DeduplicateActions(usages)
           firsts == {n \in DOMAIN usages : \A m \in 1..n-1 : usages[m].action # usages[n].action}
           order == InOrder(firsts)
           C == Cardinality(firsts)
           of(action) == {n \in DOMAIN usages : usages[n].action = action}
<1>1. actions = [n \in DOMAIN order |-> [action |-> usages[order[n]].action,
                                         count |-> Cardinality(of(usages[order[n]].action))]]
  BY DEF DeduplicateActions
<1>2. IsFiniteSet(firsts) /\ firsts \subseteq Nat /\ firsts \subseteq 1..Len(usages)
  <2>1. firsts \subseteq DOMAIN usages
    OBVIOUS
  <2> HIDE DEF firsts
  <2> QED
    BY <2>1, FiniteLines
<1>3. \A u \in DOMAIN usages : \E n \in firsts : usages[n].action = usages[u].action
  <2> TAKE u \in DOMAIN usages
  <2> DEFINE T == of(usages[u].action)
  <2>1. DOMAIN usages = 1..Len(usages) /\ Len(usages) \in Nat
    BY LenProperties
  <2>2. T \subseteq Nat /\ T # {}
    BY <2>1
  <2>3. PICK n \in T : \A m \in T : n <= m
    <3> HIDE DEF T
    <3> QED
      BY <2>2, LeastOne
  <2>4. \A m \in 1..n-1 : usages[m].action # usages[n].action
    <3> SUFFICES ASSUME NEW m \in 1..n-1, usages[m].action = usages[n].action
                 PROVE  FALSE
      OBVIOUS
    <3>1. m \in DOMAIN usages /\ m < n
      BY <2>1, <2>3
    <3> QED
      BY <2>1, <2>3, <3>1
  <2> QED
    BY <2>3, <2>4
<1>4. firsts \subseteq DOMAIN usages
  OBVIOUS
<1> HIDE DEF firsts
<1>5. /\ C \in Nat /\ order \in [1..C -> firsts]
      /\ \A n \in firsts : Rank(firsts, n) \in 1..C /\ order[Rank(firsts, n)] = n
  BY <1>2, InOrderRanks
<1> HIDE DEF order, C, actions, of
<1>6. /\ DOMAIN actions = 1..C
      /\ \A n \in 1..C : /\ actions[n].action = usages[order[n]].action
                         /\ actions[n].count = Cardinality(of(actions[n].action))
                         /\ order[n] \in DOMAIN usages
  BY <1>1, <1>4, <1>5
<1>7. \A n \in DOMAIN actions : \E u \in DOMAIN usages : actions[n].action = usages[u].action
  BY <1>6
<1>8. \A u \in DOMAIN usages : \E n \in DOMAIN actions : actions[n].action = usages[u].action
  <2> TAKE u \in DOMAIN usages
  <2>1. PICK m \in firsts : usages[m].action = usages[u].action
    BY <1>3
  <2> QED
    BY <1>5, <1>6, <2>1
<1>9. {actions[n].action : n \in DOMAIN actions} = {usages[u].action : u \in DOMAIN usages}
  BY <1>7, <1>8
<1> QED
  BY <1>6, <1>9 DEF actions, of

-----------------------------------------------------------------------------
(* Costs: the lines that the detectors take for lines in a loop.           *)

\* The depth is computed a line after the other.
LEMMA DepthSteps ==
  ASSUME NEW L, NEW lines \in Seq(L)
  PROVE  /\ LoopDepth(lines)[0] = 0
         /\ \A k \in 0..Len(lines) : LoopDepth(lines)[k] \in Nat
         /\ \A k \in 1..Len(lines) :
               LoopDepth(lines)[k] = DepthAfter(LoopDepth(lines)[k-1], lines[k])
<1> DEFINE N == Len(lines)
           step == [x \in Nat \X (1..N) |-> DepthAfter(x[1], lines[x[2]])]
           body(f, k) == IF k = 0 THEN 0 ELSE DepthAfter(f[k-1], lines[k])
<1>1. N \in Nat
  BY LenProperties
<1>2. \A depth \in Nat : \A line : DepthAfter(depth, line) \in Nat
  BY DEF DepthAfter
<1>3. step \in [Nat \X (1..N) -> Nat]
  BY <1>2
<1>4. \A x \in Nat, k \in 1..N : step[<<x, k>>] = DepthAfter(x, lines[k])
  OBVIOUS
<1> HIDE DEF step
<1>5. PICK h : Computes(h, Nat, N, 0, step)
  <2>1. 0 \in Nat
    OBVIOUS
  <2> QED
    BY <1>1, <1>3, <2>1, Recursion, Zenon
<1>6. h = [k \in 0..N |-> body(h, k)]
  <2>1. ASSUME NEW k \in 0..N
        PROVE  h[k] = body(h, k)
    <3>1. CASE k = 0
      BY <1>5, <3>1 DEF Computes
    <3>2. CASE k # 0
      <4>1. k \in 1..N /\ k - 1 \in 0..N
        BY <1>1, <3>2
      <4>2. h[k-1] \in Nat /\ h[k] = step[<<h[k-1], k>>]
        BY <1>5, <4>1 DEF Computes
      <4> QED
        BY <1>4, <3>2, <4>1, <4>2
    <3> QED
      BY <3>1, <3>2
  <2> HIDE DEF body
  <2> QED
    BY <1>5, <2>1 DEF Computes
<1> DEFINE s == LoopDepth(lines)
<1>7. s = [k \in 0..N |-> body(s, k)]
  <2>1. s = CHOOSE f : f = [k \in 0..N |-> body(f, k)]
    BY DEF LoopDepth
  <2> HIDE DEF s, body
  <2> QED
    BY <1>6, <2>1
<1> HIDE DEF s
<1>8. s[0] = 0 /\ \A k \in 1..N : s[k] = DepthAfter(s[k-1], lines[k])
  BY <1>1, <1>7
<1> DEFINE G == {k \in 0..N : s[k] \in Nat}
<1>9. 0 \in G
  BY <1>1, <1>8
<1>10. ASSUME NEW k \in 1..N, k - 1 \in G
       PROVE  k \in G
  <2>1. k \in 0..N /\ s[k-1] \in Nat
    BY <1>10
  <2>2. s[k] \in Nat
    BY <1>2, <1>8, <2>1
  <2> QED
    BY <2>1, <2>2
<1> HIDE DEF G
<1>11. \A k \in 0..N : k \in G
  BY <1>1, <1>9, <1>10, UpTo, Zenon
<1> QED
  BY <1>8, <1>11 DEF G, s

\* The places of a mark in a text, and up to a line of it.
MarkedIn(lines, mark) == Marked(lines, 1, Len(lines), mark)

\* The marks in a stretch of a text are the places between its ends.
LEMMA MarkedBetween ==
  ASSUME NEW L, NEW lines \in Seq(L), NEW mark, NEW i \in 0..Len(lines), NEW k \in 0..Len(lines)
  PROVE  /\ Marked(lines, i+1, k, mark) = Between(MarkedIn(lines, mark), i, k)
         /\ MarkedIn(lines, mark) \subseteq 1..Len(lines)
<1>1. Len(lines) \in Nat
  BY LenProperties
<1>2. \A m : m \in i+1..k <=> m \in 1..Len(lines) /\ i < m /\ m <= k
  BY <1>1
<1> QED
  BY <1>2, Zenon DEF Marked, MarkedIn, Between

\* The blocks that are open after a line.
LEMMA BlocksAreUnclosed ==
  ASSUME NEW L, NEW lines \in Seq(L), NEW k \in 0..Len(lines)
  PROVE  OpenBlocks(lines, k) =
             Unclosed(MarkedIn(lines, "body") \cup MarkedIn(lines, "open"),
                      MarkedIn(lines, "ends"), k)
<1> DEFINE N == Len(lines)
           B == MarkedIn(lines, "body") \cup MarkedIn(lines, "open")
           E == MarkedIn(lines, "ends")
<1>1. N \in Nat
  BY LenProperties
<1>2. \A i, j \in 0..N : /\ Marked(lines, i+1, j, "ends") = Between(E, i, j)
                         /\ Marked(lines, i+1, j, "body") \cup Marked(lines, i+1, j, "open")
                              = Between(B, i, j)
  <2> SUFFICES ASSUME NEW i \in 0..N, NEW j \in 0..N
               PROVE  /\ Marked(lines, i+1, j, "ends") = Between(E, i, j)
                      /\ Marked(lines, i+1, j, "body") \cup Marked(lines, i+1, j, "open")
                              = Between(B, i, j)
    OBVIOUS
  <2>1. /\ Marked(lines, i+1, j, "ends") = Between(MarkedIn(lines, "ends"), i, j)
        /\ Marked(lines, i+1, j, "body") = Between(MarkedIn(lines, "body"), i, j)
        /\ Marked(lines, i+1, j, "open") = Between(MarkedIn(lines, "open"), i, j)
    BY MarkedBetween
  <2>2. Between(B, i, j) = Between(MarkedIn(lines, "body"), i, j)
                           \cup Between(MarkedIn(lines, "open"), i, j)
    BY Zenon DEF Between
  <2> QED
    BY <2>1, <2>2, Zenon
<1>3. \A i : i \in Marked(lines, 1, k, "body") \cup Marked(lines, 1, k, "open")
               <=> i \in B /\ i <= k
  <2>1. \A i : i \in 1..k <=> i \in 1..N /\ i <= k
    BY <1>1
  <2> QED
    BY <2>1, Zenon DEF Marked, MarkedIn
<1>4. B \subseteq 1..N
  BY MarkedBetween, <1>1
<1> HIDE DEF B, E
<1>5. ASSUME NEW i \in B, i <= k
      PROVE  Holds(B, E, i, k) <=>
               \A j \in i+1..k :
                  Cardinality(Marked(lines, i+1, j, "ends"))
                  <= Cardinality(Marked(lines, i+1, j-1, "body") \cup Marked(lines, i+1, j-1, "open"))
  <2>1. i \in 0..N /\ \A j \in i+1..k : j \in 0..N /\ j - 1 \in 0..N
    BY <1>1, <1>4, <1>5
  <2>2. \A j \in i+1..k :
           /\ Marked(lines, i+1, j, "ends") = Between(E, i, j)
           /\ Marked(lines, i+1, j-1, "body") \cup Marked(lines, i+1, j-1, "open")
                 = Between(B, i, j-1)
    BY <1>2, <2>1, Zenon
  <2> QED
    BY <2>2, Zenon DEF Holds
<1> QED
  BY <1>3, <1>5, Zenon DEF OpenBlocks, Unclosed, B, E

\* What misleads the detector up to a line that is read right.
Astray(lines, k) ==
    \E j \in 1..k :
        \/ Misread(lines[j].marks)
        \/ {"loop", "close"} \subseteq lines[j].marks
        \/ /\ "ends" \in lines[j].marks
           /\ OpenLoops(lines, j-1) # {}
           /\ Max(OpenBlocks(lines, j-1)) \notin OpenLoops(lines, j-1)

\* Unless it has been misled, the detector is as deep as there are loops open.
LEMMA DepthIsOpenLoops ==
  ASSUME NEW L, NEW lines \in Seq(L)
  PROVE  \A k \in 0..Len(lines) : ~Astray(lines, k) =>
            /\ IsFiniteSet(OpenLoops(lines, k))
            /\ LoopDepth(lines)[k] = Cardinality(OpenLoops(lines, k))
<1> DEFINE N == Len(lines)
           B == MarkedIn(lines, "body") \cup MarkedIn(lines, "open")
           E == MarkedIn(lines, "ends")
           U(k) == Unclosed(B, E, k)
           O(k) == {i \in U(k) : "body" \in lines[i].marks}
           d == LoopDepth(lines)
           wrong(k) == \E j \in 1..k : \/ Misread(lines[j].marks)
                                       \/ {"loop", "close"} \subseteq lines[j].marks
                                       \/ /\ "ends" \in lines[j].marks
                                          /\ O(j-1) # {} /\ Max(U(j-1)) \notin O(j-1)
           G == {k \in 0..N : ~wrong(k) => IsFiniteSet(O(k)) /\ d[k] = Cardinality(O(k))}
<1>1. N \in Nat
  BY LenProperties
<1>2. B \subseteq 1..N /\ E \subseteq 1..N
  BY DEF MarkedIn, Marked
<1>3. \A k \in 0..N : OpenBlocks(lines, k) = U(k) /\ OpenLoops(lines, k) = O(k)
  <2> SUFFICES ASSUME NEW k \in 0..N
               PROVE  OpenBlocks(lines, k) = U(k) /\ OpenLoops(lines, k) = O(k)
    OBVIOUS
  <2>1. OpenBlocks(lines, k) = U(k)
    BY BlocksAreUnclosed
  <2> QED
    BY <2>1, Zenon DEF OpenLoops
<1>4. \A k \in 0..N : Astray(lines, k) <=> wrong(k)
  <2> SUFFICES ASSUME NEW k \in 0..N
               PROVE  Astray(lines, k) <=> wrong(k)
    OBVIOUS
  <2>1. \A j \in 1..k : j - 1 \in 0..N
    BY <1>1
  <2>2. \A j \in 1..k : OpenBlocks(lines, j-1) = U(j-1) /\ OpenLoops(lines, j-1) = O(j-1)
    BY <1>3, <2>1, Zenon
  <2> HIDE DEF U, O
  <2> QED
    BY <2>2, Zenon DEF Astray
<1>5. /\ d[0] = 0 /\ \A k \in 0..N : d[k] \in Nat
      /\ \A k \in 1..N : d[k] = DepthAfter(d[k-1], lines[k])
  BY DepthSteps
<1>6. \A k \in 0..N : Balanced(B, E, k)
  BY <1>1, <1>2, Brackets, Zenon
<1>7. \A k \in 0..N : U(k) \subseteq 1..N /\ \A i \in U(k) : i <= k
  BY <1>2 DEF Unclosed
<1> HIDE DEF d
<1>8. 0 \in G
  <2>1. U(0) = {}
    <3>1. \A i \in 1..N : ~(i <= 0)
      OBVIOUS
    <3>2. 0 \in 0..N
      BY <1>1
    <3> HIDE DEF U
    <3> QED
      BY <1>7, <3>1, <3>2
  <2>2. O(0) = {}
    BY <2>1
  <2>3. IsFiniteSet(O(0)) /\ d[0] = Cardinality(O(0))
    BY <1>5, <2>2, FS_EmptySet, Zenon
  <2>4. 0 \in 0..N
    BY <1>1
  <2> QED
    BY <2>3, <2>4
<1>9. ASSUME NEW k \in 1..N, k - 1 \in G
      PROVE  k \in G
  <2>1. k \in 0..N /\ k - 1 \in 0..N
    OBVIOUS
  <2> SUFFICES ASSUME ~wrong(k)
               PROVE  IsFiniteSet(O(k)) /\ d[k] = Cardinality(O(k))
    BY <2>1, Zenon
  <2>2. ~wrong(k-1)
    <3>1. \A j \in 1..k-1 : j \in 1..k
      OBVIOUS
    <3> HIDE DEF U, O
    <3> QED
      BY <3>1, Zenon
  <2>3. IsFiniteSet(O(k-1)) /\ d[k-1] = Cardinality(O(k-1)) /\ d[k-1] \in Nat
    BY <1>5, <1>9, <2>1, <2>2
  <2>4. \A i : i \in U(k) <=> \/ i \in U(k-1) /\ (k \in E => \E j \in U(k-1) : j > i)
                              \/ i = k /\ k \in B
    <3>1. Balanced(B, E, k-1) /\ B \subseteq 1..N /\ E \subseteq 1..N
      BY <1>2, <1>6, <2>1
    <3> HIDE DEF B, E
    <3> QED
      BY ZenonT(60), <1>1, <3>1, UnclosedStep
  <2>5. /\ "loop" \in lines[k].marks <=> "body" \in lines[k].marks
        /\ "close" \in lines[k].marks <=> "ends" \in lines[k].marks
        /\ k \in E <=> "close" \in lines[k].marks
        /\ "loop" \in lines[k].marks => k \in B
    <3>1. k \in 1..k
      OBVIOUS
    <3>2. ~Misread(lines[k].marks)
      <4> HIDE DEF U, O
      <4> QED
        BY <3>1, Zenon
    <3>3. /\ "loop" \in lines[k].marks <=> "body" \in lines[k].marks
          /\ "close" \in lines[k].marks <=> "ends" \in lines[k].marks
      BY <3>2 DEF Misread
    <3> QED
      BY <3>3 DEF MarkedIn, Marked
  <2>6. d[k] = DepthAfter(d[k-1], lines[k])
    BY <1>5
  <2>7. k \notin U(k-1) /\ U(k-1) \subseteq Nat /\ \A i \in U(k-1) : i <= k-1
    <3>1. U(k-1) \subseteq 1..N /\ \A i \in U(k-1) : i <= k-1
      BY <1>7, <2>1
    <3> HIDE DEF U
    <3> QED
      BY <1>1, <3>1
  <2>8. k \notin O(k-1) /\ O(k-1) \subseteq U(k-1)
    BY <2>7
  <2>9. O(k) = {i \in U(k) : "body" \in lines[i].marks}
        /\ O(k-1) = {i \in U(k-1) : "body" \in lines[i].marks}
    OBVIOUS
  <2>10. "close" \in lines[k].marks =>
            /\ "loop" \notin lines[k].marks
            /\ O(k-1) # {} => Max(U(k-1)) \in O(k-1)
    <3>1. k \in 1..k
      OBVIOUS
    <3>2. /\ ~({"loop", "close"} \subseteq lines[k].marks)
          /\ "ends" \in lines[k].marks => O(k-1) = {} \/ Max(U(k-1)) \in O(k-1)
      <4> HIDE DEF U, O
      <4> QED
        BY <3>1, Zenon
    <3> HIDE DEF U, O
    <3> QED
      BY <2>5, <3>2
  <2> HIDE DEF U, O, B, E
  <2>11. CASE "close" \notin lines[k].marks /\ "loop" \in lines[k].marks
    <3>1. O(k) = O(k-1) \cup {k}
      BY <2>4, <2>5, <2>9, <2>11
    <3>2. d[k] = d[k-1] + 1
      BY <2>6, <2>11 DEF DepthAfter
    <3>3. /\ IsFiniteSet(O(k-1) \cup {k})
          /\ Cardinality(O(k-1) \cup {k}) = Cardinality(O(k-1)) + 1
      BY <2>3, <2>8, FS_AddElement
    <3> QED
      BY <2>3, <3>1, <3>2, <3>3
  <2>12. CASE "close" \notin lines[k].marks /\ "loop" \notin lines[k].marks
    <3>1. O(k) = O(k-1)
      BY <2>4, <2>5, <2>9, <2>12
    <3>2. d[k] = d[k-1]
      BY <2>6, <2>12 DEF DepthAfter
    <3> QED
      BY <2>3, <3>1, <3>2
  <2>13. CASE "close" \in lines[k].marks
    <3>1. \A i : i \in O(k) <=> i \in O(k-1) /\ \E j \in U(k-1) : j > i
      BY <2>4, <2>5, <2>9, <2>10, <2>13
    <3>2. CASE O(k-1) = {}
      <4>1. O(k) = {} /\ Cardinality(O(k-1)) = 0
        BY <3>1, <3>2, FS_EmptySet
      <4>2. d[k] = 0
        BY <2>3, <2>6, <2>10, <2>13, <4>1 DEF DepthAfter
      <4> QED
        BY <2>3, <3>2, <4>1, <4>2
    <3>3. CASE O(k-1) # {}
      <4> DEFINE m == Max(U(k-1))
      <4>1. m \in O(k-1)
        BY <2>10, <2>13, <3>3
      <4>2. U(k-1) # {} /\ k - 1 \in Nat
        BY <2>8, <3>3
      <4>3. m \in U(k-1) /\ \A n \in U(k-1) : n <= m
        BY <2>7, <4>2, MaxIsGreatest
      <4> HIDE DEF m
      <4>4. \A n \in U(k-1) : (\E j \in U(k-1) : j > n) <=> n # m
        <5>1. \A j, n \in U(k-1) : j \in Nat /\ n \in Nat
          BY <2>7
        <5> QED
          BY <4>3, <5>1
      <4>5. O(k) = O(k-1) \ {m}
        BY <2>8, <3>1, <4>4
      <4>6. /\ IsFiniteSet(O(k-1) \ {m})
            /\ Cardinality(O(k-1) \ {m}) = Cardinality(O(k-1)) - 1
        BY <2>3, <4>1, FS_RemoveElement
      <4>7. Cardinality(O(k-1)) # 0
        BY <2>3, <3>3, FS_EmptySet
      <4>8. d[k] = d[k-1] - 1
        BY <2>3, <2>6, <2>10, <2>13, <4>7 DEF DepthAfter
      <4> QED
        BY <2>3, <4>5, <4>6, <4>8
    <3> QED
      BY <3>2, <3>3
  <2> QED
    BY <2>11, <2>12, <2>13
<1> HIDE DEF G
<1>10. \A k \in 0..N : k \in G
  BY <1>1, <1>8, <1>9, UpTo, Zenon
<1> HIDE DEF wrong, O
<1>11. \A k \in 0..N : ~wrong(k) => IsFiniteSet(O(k)) /\ d[k] = Cardinality(O(k))
  BY <1>10, Zenon DEF G
<1> QED
  BY <1>3, <1>4, <1>11, Zenon DEF d

\* Unless it has been misled, the detector is in a loop if the line is.
LEMMA DepthInLoops ==
  ASSUME NEW L, NEW lines \in Seq(L), NEW language, language \in {"js", "java"},
         NEW k \in 1..Len(lines), ~Mistaken(language, lines, k)
  PROVE  LoopDepth(lines)[k] > 0 <=> OpenLoops(lines, k) # {} \/ "single" \in lines[k].marks
<1>1. Len(lines) \in Nat /\ k \in 0..Len(lines) /\ k - 1 \in 0..Len(lines)
  BY LenProperties
<1>2. /\ \A j \in 1..k-1 : ~Misread(lines[j].marks)
      /\ IF "single" \in lines[k].marks THEN "loop" \in lines[k].marks
         ELSE ~Misread(lines[k].marks)
      /\ \A j \in 1..k : ~({"loop", "close"} \subseteq lines[j].marks)
      /\ \A j \in 1..k : "ends" \in lines[j].marks =>
            OpenLoops(lines, j-1) = {} \/ Max(OpenBlocks(lines, j-1)) \in OpenLoops(lines, j-1)
  <2>1. language # "go" /\ language # "py"
    OBVIOUS
  <2> QED
    BY <2>1, Zenon DEF Mistaken, Marked
<1>3. CASE "single" \in lines[k].marks
  <2>1. "loop" \in lines[k].marks /\ "close" \notin lines[k].marks
    <3>1. k \in 1..k
      BY <1>1
    <3> QED
      BY <1>2, <1>3, <3>1
  <2>2. LoopDepth(lines)[k] = DepthAfter(LoopDepth(lines)[k-1], lines[k])
        /\ LoopDepth(lines)[k-1] \in Nat
    BY <1>1, DepthSteps
  <2>3. LoopDepth(lines)[k] = LoopDepth(lines)[k-1] + 1
    BY <2>1, <2>2 DEF DepthAfter
  <2> QED
    BY <1>3, <2>2, <2>3
<1>4. CASE "single" \notin lines[k].marks
  <2>1. ~Astray(lines, k)
    <3>1. \A j \in 1..k : j \in 1..k-1 \/ j = k
      BY <1>1
    <3> QED
      BY <1>2, <1>4, <3>1, Zenon DEF Astray
  <2>2. /\ IsFiniteSet(OpenLoops(lines, k))
        /\ LoopDepth(lines)[k] = Cardinality(OpenLoops(lines, k))
    BY <1>1, <2>1, DepthIsOpenLoops
  <2>3. /\ Cardinality(OpenLoops(lines, k)) \in Nat
        /\ Cardinality(OpenLoops(lines, k)) = 0 <=> OpenLoops(lines, k) = {}
    BY <2>2, FS_CardinalityType, FS_EmptySet
  <2> QED
    BY <1>4, <2>2, <2>3
<1> QED
  BY <1>3, <1>4

\* The indentations of nested loops.
Nested(stack) == \A m, n \in DOMAIN stack : m < n => stack[m] < stack[n]

\* A line ends the loops that are not indented less, and may begin one.
LEMMA StackStep ==
  ASSUME NEW stack \in Seq(Nat), Nested(stack), NEW line, line.indent \in Nat
  PROVE  /\ StackAfter(stack, line) \in Seq(Nat) /\ Nested(StackAfter(stack, line))
         /\ \A v : v \in Range(StackAfter(stack, line)) <=>
               \/ v \in Range(stack) /\ v < line.indent
               \/ v = line.indent /\ "loop" \in line.marks
<1> DEFINE T == {n \in 0..Len(stack) : n = 0 \/ stack[n] < line.indent}
           open == Max(T)
           left == SubSeq(stack, 1, open)
           after == StackAfter(stack, line)
<1>1. /\ Len(stack) \in Nat /\ DOMAIN stack = 1..Len(stack)
      /\ \A n \in 1..Len(stack) : stack[n] \in Nat
  BY LenProperties
<1>2. 0 \in T /\ T \subseteq Nat /\ \A n \in T : n <= Len(stack)
  BY <1>1
<1>3. open \in T /\ \A n \in T : n <= open
  <2>1. T # {}
    BY <1>2
  <2> HIDE DEF T
  <2> QED
    BY <1>1, <1>2, <2>1, MaxIsGreatest
<1>4. open \in 0..Len(stack) /\ open \in Nat
  BY <1>1, <1>3
<1>5. \A n \in 1..Len(stack) : stack[n] < line.indent <=> n <= open
  <2> SUFFICES ASSUME NEW n \in 1..Len(stack)
               PROVE  stack[n] < line.indent <=> n <= open
    OBVIOUS
  <2>1. ASSUME stack[n] < line.indent
        PROVE  n <= open
    <3>1. n \in T
      BY <1>1, <2>1
    <3> QED
      BY <1>3, <3>1
  <2>2. ASSUME n <= open
        PROVE  stack[n] < line.indent
    <3>1. open # 0 /\ open \in 1..Len(stack)
      BY <1>4, <2>2
    <3>2. stack[open] < line.indent
      BY <1>3, <3>1
    <3> HIDE DEF open
    <3>3. n = open \/ stack[n] < stack[open]
      BY <1>1, <2>2, <3>1 DEF Nested
    <3> QED
      BY <1>1, <3>1, <3>2, <3>3
  <2> QED
    BY <2>1, <2>2
<1>6. after = IF "loop" \in line.marks THEN Append(left, line.indent) ELSE left
  BY DEF StackAfter
<1> HIDE DEF T, open
<1>7. /\ left \in Seq(Nat) /\ Len(left) = open
      /\ \A n \in 1..open : left[n] = stack[n]
  BY <1>1, <1>4, SubSeqProperties
<1> HIDE DEF left
<1>8. DOMAIN left = 1..open
  BY <1>7, LenProperties
<1>9. Nested(left) /\ \A n \in 1..open : left[n] < line.indent
  <2>1. \A n \in 1..open : n \in 1..Len(stack) /\ n <= open
    BY <1>1, <1>4
  <2> QED
    BY <1>1, <1>5, <1>7, <1>8, <2>1 DEF Nested
<1>10. \A v : v \in Range(left) <=> v \in Range(stack) /\ v < line.indent
  <2>1. \A n \in 1..open : n \in 1..Len(stack)
    BY <1>1, <1>4
  <2>2. \A n \in 1..Len(stack) : n <= open => n \in 1..open
    BY <1>1, <1>4
  <2> QED
    BY <1>1, <1>5, <1>7, <1>8, <1>9, <2>1, <2>2 DEF Range
<1> HIDE DEF after
<1>11. CASE "loop" \notin line.marks
  BY <1>6, <1>7, <1>9, <1>10, <1>11 DEF after
<1>12. CASE "loop" \in line.marks
  <2>1. /\ after = Append(left, line.indent) /\ after \in Seq(Nat) /\ Len(after) = open + 1
        /\ DOMAIN after = 1..open+1 /\ after[open+1] = line.indent
        /\ \A n \in 1..open : after[n] = left[n]
    BY <1>6, <1>7, <1>12, AppendProperties, LenProperties
  <2>2. \A n \in 1..open+1 : n \in 1..open \/ n = open + 1
    BY <1>4
  <2>3. \A n \in 1..open : n \in 1..open+1 /\ n < open + 1
    BY <1>4
  <2>4. open + 1 \in 1..open+1
    BY <1>4
  <2>5. Nested(after)
    <3> SUFFICES ASSUME NEW m \in 1..open+1, NEW n \in 1..open+1, m < n
                 PROVE  after[m] < after[n]
      BY <2>1 DEF Nested
    <3>1. m \in 1..open
      BY <1>4
    <3>2. CASE n \in 1..open
      BY <1>8, <1>9, <2>1, <3>1, <3>2 DEF Nested
    <3>3. CASE n = open + 1
      BY <1>9, <2>1, <3>1, <3>3
    <3> QED
      BY <2>2, <3>2, <3>3
  <2>6. \A v : v \in Range(after) <=> v \in Range(left) \/ v = line.indent
    BY <1>8, <2>1, <2>2, <2>3, <2>4 DEF Range
  <2> QED
    BY <1>10, <1>12, <2>1, <2>5, <2>6 DEF after
<1> QED
  BY <1>11, <1>12

\* The stack is computed a line after the other.
LEMMA StackSteps ==
  ASSUME NEW L, \A line \in L : line.indent \in Nat, NEW lines \in Seq(L)
  PROVE  /\ LoopStack(lines)[0] = <<>>
         /\ \A k \in 0..Len(lines) : LoopStack(lines)[k] \in Seq(Nat) /\ Nested(LoopStack(lines)[k])
         /\ \A k \in 1..Len(lines) :
               LoopStack(lines)[k] = StackAfter(LoopStack(lines)[k-1], lines[k])
<1> DEFINE N == Len(lines)
           X == {stack \in Seq(Nat) : Nested(stack)}
           step == [x \in X \X (1..N) |-> StackAfter(x[1], lines[x[2]])]
           body(f, k) == IF k = 0 THEN <<>> ELSE StackAfter(f[k-1], lines[k])
<1>1. N \in Nat /\ \A k \in 1..N : lines[k].indent \in Nat
  BY LenProperties, ElementOfSeq
<1>2. <<>> \in X
  <2>1. <<>> \in Seq(Nat) /\ DOMAIN <<>> = {}
    OBVIOUS
  <2> QED
    BY <2>1 DEF Nested
<1>3. \A x \in X, k \in 1..N : StackAfter(x, lines[k]) \in X
  BY <1>1, StackStep
<1>4. step \in [X \X (1..N) -> X]
  <2> HIDE DEF X
  <2> QED
    BY <1>3
<1>5. \A x \in X, k \in 1..N : step[<<x, k>>] = StackAfter(x, lines[k])
  OBVIOUS
<1> HIDE DEF step, X
<1>6. PICK h : Computes(h, X, N, <<>>, step)
  BY <1>1, <1>2, <1>4, Recursion, Zenon
<1>7. h = [k \in 0..N |-> body(h, k)]
  <2>1. ASSUME NEW k \in 0..N
        PROVE  h[k] = body(h, k)
    <3>1. CASE k = 0
      BY <1>6, <3>1 DEF Computes
    <3>2. CASE k # 0
      <4>1. k \in 1..N /\ k - 1 \in 0..N
        BY <1>1, <3>2
      <4>2. h[k-1] \in X /\ h[k] = step[<<h[k-1], k>>]
        BY <1>6, <4>1 DEF Computes
      <4> QED
        BY <1>5, <3>2, <4>1, <4>2
    <3> QED
      BY <3>1, <3>2
  <2> HIDE DEF body
  <2> QED
    BY <1>6, <2>1 DEF Computes
<1> DEFINE s == LoopStack(lines)
<1>8. s = [k \in 0..N |-> body(s, k)]
  <2>1. s = CHOOSE f : f = [k \in 0..N |-> body(f, k)]
    BY DEF LoopStack
  <2> HIDE DEF s, body
  <2> QED
    BY <1>7, <2>1
<1> HIDE DEF s
<1>9. s[0] = <<>> /\ \A k \in 1..N : s[k] = StackAfter(s[k-1], lines[k])
  BY <1>1, <1>8
<1> DEFINE G == {k \in 0..N : s[k] \in X}
<1>10. 0 \in G
  BY <1>1, <1>2, <1>9
<1>11. ASSUME NEW k \in 1..N, k - 1 \in G
       PROVE  k \in G
  <2>1. k \in 0..N /\ s[k-1] \in X
    BY <1>11
  <2>2. s[k] \in X
    BY <1>3, <1>9, <2>1
  <2> QED
    BY <2>1, <2>2
<1> HIDE DEF G
<1>12. \A k \in 0..N : k \in G
  BY <1>1, <1>10, <1>11, UpTo, Zenon
<1> QED
  BY <1>9, <1>12 DEF G, s, X

\* Unless it has been misled, the detector is in a loop if the line is.
LEMMA StackIsLoops ==
  ASSUME NEW L, \A line \in L : line.indent \in Nat, NEW lines \in Seq(L)
  PROVE  \A k \in 1..Len(lines) : ~Mistaken("py", lines, k) =>
            (LoopStack(lines)[k] # <<>> <=> LoopsByIndent(lines, k) # {})
<1> DEFINE N == Len(lines)
           s == LoopStack(lines)
           P(k) == {i \in 1..k : /\ "loop" \in lines[i].marks
                                 /\ \A j \in i+1..k : lines[j].indent > lines[i].indent}
           G == {k \in 0..N : \A v : v \in Range(s[k]) <=> \E i \in P(k) : v = lines[i].indent}
<1>1. N \in Nat /\ \A k \in 1..N : lines[k].indent \in Nat
  BY LenProperties, ElementOfSeq
<1>2. /\ s[0] = <<>> /\ \A k \in 0..N : s[k] \in Seq(Nat) /\ Nested(s[k])
      /\ \A k \in 1..N : s[k] = StackAfter(s[k-1], lines[k])
  BY StackSteps
<1> HIDE DEF s
<1>3. 0 \in G
  <2>1. Range(s[0]) = {}
    <3>1. DOMAIN s[0] = {}
      BY <1>2
    <3> QED
      BY <3>1 DEF Range
  <2> QED
    BY <1>1, <2>1
<1>4. ASSUME NEW k \in 1..N, k - 1 \in G
      PROVE  k \in G
  <2>1. k \in 0..N /\ k - 1 \in 0..N /\ k \in Nat
    OBVIOUS
  <2>2. \A v : v \in Range(s[k-1]) <=> \E i \in P(k-1) : v = lines[i].indent
    BY <1>4
  <2>3. /\ s[k] = StackAfter(s[k-1], lines[k]) /\ s[k-1] \in Seq(Nat) /\ Nested(s[k-1])
        /\ lines[k].indent \in Nat
    BY <1>1, <1>2, <2>1
  <2>4. \A v : v \in Range(s[k]) <=>
               \/ v \in Range(s[k-1]) /\ v < lines[k].indent
               \/ v = lines[k].indent /\ "loop" \in lines[k].marks
    <3> DEFINE t == s[k-1]
    <3>1. t \in Seq(Nat) /\ Nested(t) /\ s[k] = StackAfter(t, lines[k])
      BY <2>3
    <3> HIDE DEF t, G, P
    <3> QED
      BY <2>3, <3>1, StackStep DEF t
  <2>5. \A i : i \in P(k) <=> \/ i \in P(k-1) /\ lines[i].indent < lines[k].indent
                              \/ i = k /\ "loop" \in lines[k].marks
    <3> TAKE i
    <3>1. CASE i \in 1..k-1
      <4>1. /\ i \in 1..k /\ i # k
            /\ \A j : j \in i+1..k <=> j \in i+1..k-1 \/ j = k
        BY <2>1, <3>1
      <4>2. lines[i].indent \in Nat /\ lines[k].indent \in Nat
        BY <1>1, <2>1, <3>1
      <4>3. lines[k].indent > lines[i].indent <=> lines[i].indent < lines[k].indent
        BY <4>2
      <4> QED
        BY <3>1, <4>1, <4>3, Zenon
    <3>2. CASE i = k
      <4>1. k \in 1..k /\ k \notin 1..k-1 /\ \A j : j \notin k+1..k
        BY <2>1
      <4> QED
        BY <3>2, <4>1, Zenon
    <3>3. CASE i \notin 1..k
      <4>1. i \notin 1..k-1 /\ i # k
        BY <2>1, <3>3
      <4> QED
        BY <3>3, <4>1, Zenon
    <3> QED
      BY <2>1, <3>1, <3>2, <3>3
  <2> HIDE DEF P
  <2>6. \A v : v \in Range(s[k]) <=> \E i \in P(k) : v = lines[i].indent
    BY <2>2, <2>4, <2>5, Zenon
  <2> QED
    BY <2>1, <2>6
<1> HIDE DEF G
<1>5. \A k \in 0..N : k \in G
  BY <1>1, <1>3, <1>4, UpTo, Zenon
<1> SUFFICES ASSUME NEW k \in 1..N, ~Mistaken("py", lines, k)
             PROVE  s[k] # <<>> <=> LoopsByIndent(lines, k) # {}
  BY DEF s
<1>6. k \in 0..N /\ \A v : v \in Range(s[k]) <=> \E i \in P(k) : v = lines[i].indent
  <2>1. k \in 0..N
    BY <1>1
  <2> HIDE DEF P
  <2> QED
    BY <1>5, <2>1, Zenon DEF G
<1>7. s[k] # <<>> <=> Range(s[k]) # {}
  <2>1. s[k] \in Seq(Nat)
    BY <1>2, <1>6
  <2> DEFINE t == s[k]
  <2> HIDE DEF t
  <2>2. t \in Seq(Nat) /\ Len(t) \in Nat /\ DOMAIN t = 1..Len(t) /\ (t = <<>> <=> Len(t) = 0)
    BY <2>1, LenProperties, EmptySeq DEF t
  <2>3. Len(t) = 0 <=> DOMAIN t = {}
    <3>1. Len(t) # 0 => 1 \in 1..Len(t)
      BY <2>2
    <3>2. Len(t) = 0 => \A m : m \notin 1..Len(t)
      BY <2>2
    <3> QED
      BY <2>2, <3>1, <3>2
  <2> QED
    BY <2>2, <2>3 DEF t, Range
<1>8. /\ \A i \in Enclosing(lines, k) : ~Misread(lines[i].marks)
      /\ \A i \in LoopsByIndent(lines, k), j \in 1..k :
            "idle" \in lines[j].marks /\ i < j => ~(lines[j].indent <= lines[i].indent)
  <2>1. "py" # "go" /\ "py" \notin {"js", "java"}
    OBVIOUS
  <2> QED
    BY <2>1, Zenon DEF Mistaken, Marked
<1>9. \A i : i \in LoopsByIndent(lines, k) <=> i \in P(k)
  <2> TAKE i
  <2>1. i \in Enclosing(lines, k) <=>
           /\ i \in 1..k
           /\ \A j \in i+1..k : "idle" \in lines[j].marks \/ lines[j].indent > lines[i].indent
    BY Zenon DEF Enclosing
  <2>2. i \in LoopsByIndent(lines, k) <=> i \in Enclosing(lines, k) /\ "body" \in lines[i].marks
    BY Zenon DEF LoopsByIndent
  <2>3. i \in Enclosing(lines, k) => ("loop" \in lines[i].marks <=> "body" \in lines[i].marks)
    BY <1>8 DEF Misread
  <2>4. ASSUME i \in LoopsByIndent(lines, k), NEW j \in i+1..k
        PROVE  lines[j].indent > lines[i].indent
    <3>1. i \in 1..k /\ j \in 1..k /\ i < j /\ i \in 1..N /\ j \in 1..N
      BY <1>1, <2>1, <2>2, <2>4
    <3>2. lines[i].indent \in Nat /\ lines[j].indent \in Nat
      BY <1>1, <3>1
    <3> QED
      BY <1>8, <2>1, <2>2, <2>4, <3>1, <3>2
  <2>5. i \in P(k) <=> /\ i \in 1..k /\ "loop" \in lines[i].marks
                       /\ \A j \in i+1..k : lines[j].indent > lines[i].indent
    BY Zenon
  <2> QED
    BY <2>1, <2>2, <2>3, <2>4, <2>5, Zenon
<1> QED
  BY <1>6, <1>7, <1>9

-----------------------------------------------------------------------------
(* Costs: the elements that are in loops in Go.                            *)

\* Where nothing both opens and closes, and what was opened after i is never closed too
\* often, what is before is still open.
LEMMA StillOpen ==
  ASSUME NEW N \in Nat, NEW B, B \subseteq 1..N, NEW E, E \subseteq 1..N, B \cap E = {},
         NEW i \in 0..N, NEW k \in i..N,
         \A m \in i..k :
             \/ m = k /\ k \notin E
             \/ Cardinality(Between(E, i, m)) <= Cardinality(Between(B, i, m))
  PROVE  Holds(B, E, i, k)
<1> SUFFICES ASSUME NEW j \in i+1..k
             PROVE  Cardinality(Between(E, i, j)) <= Cardinality(Between(B, i, j-1))
  BY DEF Holds
<1>1. /\ i \in Nat /\ j \in Nat /\ i < j /\ j \in i..k /\ j - 1 \in i..k /\ j - 1 # k
      /\ B \in SUBSET Nat /\ E \in SUBSET Nat
  OBVIOUS
<1>2. /\ Cardinality(Between(E, i, j-1)) \in Nat /\ Cardinality(Between(E, i, j)) \in Nat
      /\ j \notin E => Between(E, i, j) = Between(E, i, j-1)
  BY <1>1, BetweenStep
<1>3. /\ Cardinality(Between(B, i, j-1)) \in Nat /\ Cardinality(Between(B, i, j)) \in Nat
      /\ j \notin B => Between(B, i, j) = Between(B, i, j-1)
  BY <1>1, BetweenStep
<1>4. CASE j \in E
  <2>1. j \notin B
    BY <1>4
  <2>2. Cardinality(Between(E, i, j)) <= Cardinality(Between(B, i, j))
    BY <1>1, <1>4
  <2> QED
    BY <1>3, <2>1, <2>2
<1>5. CASE j \notin E
  <2>1. Cardinality(Between(E, i, j-1)) <= Cardinality(Between(B, i, j-1))
    BY <1>1
  <2> QED
    BY <1>2, <1>5, <2>1
<1> QED
  BY <1>4, <1>5

\* What is opened and closed one by one is not closed too often before it is closed once
\* too often.
LEMMA NeverTooOften ==
  ASSUME NEW N \in Nat, NEW B, B \subseteq 1..N, NEW E, E \subseteq 1..N,
         NEW i \in 0..N, NEW k \in i..N,
         \A m \in i..k : Cardinality(Between(E, i, m)) # Cardinality(Between(B, i, m)) + 1
  PROVE  \A m \in i..k : Cardinality(Between(E, i, m)) <= Cardinality(Between(B, i, m))
<1> DEFINE e(m) == Cardinality(Between(E, i, m))
           b(m) == Cardinality(Between(B, i, m))
           G == {n \in 0..k-i : e(i+n) <= b(i+n)}
<1>1. 0 \in G
  <2>1. \A m \in 1..N : ~(i < m /\ m <= i)
    OBVIOUS
  <2>2. Between(E, i, i) = {} /\ Between(B, i, i) = {}
    BY <2>1 DEF Between
  <2>3. e(i) = 0 /\ b(i) = 0
    BY <2>2, FS_EmptySet
  <2>4. i + 0 = i /\ 0 \in 0..k-i
    OBVIOUS
  <2> HIDE DEF e, b
  <2> QED
    BY <2>3, <2>4
<1>2. ASSUME NEW n \in 1..k-i, n - 1 \in G
      PROVE  n \in G
  <2> DEFINE m == i + n
  <2>1. /\ m \in Nat /\ i \in Nat /\ i < m /\ m \in i..k /\ m - 1 = i + (n - 1)
        /\ B \in SUBSET Nat /\ E \in SUBSET Nat
    OBVIOUS
  <2>2. e(m-1) <= b(m-1)
    BY <1>2, <2>1
  <2>3. e(m) # b(m) + 1
    BY <2>1
  <2> HIDE DEF m
  <2>4. /\ e(m-1) \in Nat /\ e(m) \in Nat
        /\ m \in E => e(m) = e(m-1) + 1
        /\ m \notin E => e(m) = e(m-1)
    BY ZenonT(60), <2>1, BetweenStep
  <2>5. /\ b(m-1) \in Nat /\ b(m) \in Nat
        /\ m \in B => b(m) = b(m-1) + 1
        /\ m \notin B => b(m) = b(m-1)
    BY ZenonT(60), <2>1, BetweenStep
  <2> HIDE DEF e, b
  <2>6. e(m) <= b(m)
    BY <2>2, <2>3, <2>4, <2>5
  <2> QED
    BY <2>6 DEF m
<1> HIDE DEF G
<1>3. \A n \in 0..k-i : n \in G
  <2>1. k - i \in Nat
    OBVIOUS
  <2> QED
    BY <1>1, <1>2, <2>1, UpTo, Zenon
<1> TAKE m \in i..k
<1>4. m - i \in 0..k-i /\ i + (m - i) = m
  OBVIOUS
<1> HIDE DEF e, b
<1>5. e(m) <= b(m)
  BY <1>3, <1>4 DEF G
<1> QED
  BY <1>5 DEF e, b

\* What has begun and not ended in a stretch.
LEMMA BalanceIs ==
  ASSUME NEW L, NEW script \in Seq(L), NEW i \in 0..Len(script), NEW k \in i..Len(script)
  PROVE  LET e == Cardinality(Between(MarkedIn(script, "close"), i, k))
             b == Cardinality(Between(MarkedIn(script, "loop"), i, k))
         IN  e \in Nat /\ b \in Nat /\ Balance(script, i+1, k) = b - e
<1>1. Len(script) \in Nat /\ k \in 0..Len(script) /\ i \in Nat /\ k \in Nat /\ i <= k
  BY LenProperties
<1>2. /\ Marked(script, i+1, k, "close") = Between(MarkedIn(script, "close"), i, k)
      /\ Marked(script, i+1, k, "loop") = Between(MarkedIn(script, "loop"), i, k)
      /\ MarkedIn(script, "close") \in SUBSET Nat /\ MarkedIn(script, "loop") \in SUBSET Nat
  BY <1>1, MarkedBetween
<1>3. /\ Cardinality(Between(MarkedIn(script, "close"), i, k)) \in Nat
      /\ Cardinality(Between(MarkedIn(script, "loop"), i, k)) \in Nat
  <2>1. k <= k
    BY <1>1
  <2>2. \A S \in SUBSET Nat : Cardinality(Between(S, i, k)) \in Nat
    BY <1>1, <2>1, BetweenSum
  <2> QED
    BY <1>2, <2>2
<1> QED
  BY <1>2, <1>3 DEF Balance

\* The loops that a call in Go is in are those that have begun and not ended.
LEMMA InBody ==
  ASSUME NEW L, \A line \in L : IsCodeLine("go", line), NEW script \in Seq(L), Parses(script),
         NEW i \in DOMAIN script, "loop" \in script[i].marks
  PROVE  LET B == MarkedIn(script, "loop")
             E == MarkedIn(script, "close")
         IN  /\ Body(script, i) \subseteq DOMAIN script
             /\ \A k \in DOMAIN script : "db" \in script[k].marks =>
                   (k \in Body(script, i) <=> i \in Unclosed(B, E, k))
<1> DEFINE N == Len(script)
           B == MarkedIn(script, "loop")
           E == MarkedIn(script, "close")
           b(j, k) == Cardinality(Between(B, j, k))
           e(j, k) == Cardinality(Between(E, j, k))
           Z == {m \in i..N : Balance(script, i, m) = 0}
<1>1. /\ N \in Nat /\ DOMAIN script = 1..N /\ i \in 1..N /\ i \in Nat
      /\ \A k \in 1..N : IsCodeLine("go", script[k])
  BY LenProperties, ElementOfSeq
<1>2. /\ B \subseteq 1..N /\ E \subseteq 1..N
      /\ \A k \in 1..N : /\ k \in B <=> "loop" \in script[k].marks
                         /\ k \in E <=> "close" \in script[k].marks
  BY DEF MarkedIn, Marked
<1>3. \A k \in 1..N : /\ ~(k \in B /\ k \in E)
                      /\ "db" \in script[k].marks => k \notin B /\ k \notin E
  <2> SUFFICES ASSUME NEW k \in 1..N
               PROVE  /\ ~(k \in B /\ k \in E)
                      /\ "db" \in script[k].marks => k \notin B /\ k \notin E
    OBVIOUS
  <2>1. \A m, n \in script[k].marks \cap {"loop", "close", "db"} : m = n
    BY <1>1 DEF IsCodeLine
  <2>2. "loop" # "close" /\ "loop" # "db" /\ "close" # "db"
    OBVIOUS
  <2> QED
    BY <1>2, <2>1, <2>2
<1>4. B \cap E = {} /\ i \in B /\ i \notin E
  BY <1>1, <1>2, <1>3
<1>5. \A j \in 0..N : \A k \in j..N :
         b(j, k) \in Nat /\ e(j, k) \in Nat /\ Balance(script, j+1, k) = b(j, k) - e(j, k)
  BY BalanceIs
<1>6. B \in SUBSET Nat /\ E \in SUBSET Nat
  BY <1>2
<1> HIDE DEF B, E
<1>7. \A m \in i..N : b(i, m) \in Nat /\ e(i, m) \in Nat
                      /\ Balance(script, i, m) = b(i, m) + 1 - e(i, m)
  <2> SUFFICES ASSUME NEW m \in i..N
               PROVE  b(i, m) \in Nat /\ e(i, m) \in Nat
                      /\ Balance(script, i, m) = b(i, m) + 1 - e(i, m)
    OBVIOUS
  <2>1. /\ i - 1 \in 0..N /\ m \in (i-1)..N /\ i \in 0..N /\ (i - 1) + 1 = i
        /\ i - 1 \in Nat /\ m \in Nat /\ i - 1 <= i /\ i <= m /\ i - 1 < i
    BY <1>1
  <2>2. Balance(script, i, m) = b(i-1, m) - e(i-1, m) /\ b(i, m) \in Nat /\ e(i, m) \in Nat
    BY <1>5, <2>1
  <2>3. b(i-1, m) = b(i-1, i) + b(i, m) /\ e(i-1, m) = e(i-1, i) + e(i, m)
    <3>1. b(i-1, m) = b(i-1, i) + b(i, m)
      BY <1>6, <2>1, BetweenSum
    <3>2. e(i-1, m) = e(i-1, i) + e(i, m)
      BY <1>6, <2>1, BetweenSum
    <3> QED
      BY <3>1, <3>2
  <2>4. Between(B, i-1, i) = {i} /\ Between(E, i-1, i) = {}
    <3>1. \A m_1 \in 1..N : i - 1 < m_1 /\ m_1 <= i <=> m_1 = i
      BY <1>1
    <3> QED
      BY <1>1, <1>2, <1>4, <3>1 DEF Between
  <2>5. b(i-1, i) = 1 /\ e(i-1, i) = 0
    BY <2>4, FS_Singleton, FS_EmptySet
  <2> HIDE DEF b, e
  <2> QED
    BY <2>2, <2>3, <2>5
<1>8. Z # {}
  <2> SUFFICES ASSUME Z = {}
               PROVE  FALSE
    OBVIOUS
  <2>1. \A m \in i..N : e(i, m) # b(i, m) + 1
    <3> HIDE DEF b, e
    <3> QED
      BY <1>7
  <2>2. i \in 0..N /\ N \in i..N /\ 0 \in 0..N /\ i - 1 \in 0..N /\ N \in 0..N
        /\ 0 <= i - 1 /\ i - 1 <= N /\ 0 + 1 = 1 /\ i - 1 \in Nat /\ 0 \in Nat
    BY <1>1
  <2>3. e(i, N) <= b(i, N)
    BY <1>1, <1>2, <2>1, <2>2, NeverTooOften
  <2>4. Balance(script, 1, N) = 0 /\ (i - 1 = 0 \/ Balance(script, 1, i-1) >= 0)
    <3>1. i - 1 = 0 \/ i - 1 \in 1..N
      BY <1>1
    <3> QED
      BY <1>1, <3>1 DEF Parses
  <2>5. /\ b(0, N) = b(0, i-1) + b(i-1, N) /\ e(0, N) = e(0, i-1) + e(i-1, N)
    BY <1>1, <1>6, <2>2, BetweenSum
  <2>6. i - 1 \in 0..N /\ N \in (i-1)..N /\ i - 1 \in 0..i-1 /\ (i-1) + 1 = i
    BY <1>1
  <2>7. Balance(script, i, N) = b(i-1, N) - e(i-1, N) /\ b(i-1, N) \in Nat /\ e(i-1, N) \in Nat
    BY <1>5, <2>6
  <2>8. Balance(script, i, N) >= 1
    <3> HIDE DEF b, e
    <3> QED
      BY <1>7, <2>2, <2>3
  <2>9. Balance(script, 1, N) = b(0, N) - e(0, N)
    BY <1>1, <1>5, <2>2
  <2>10. b(0, i-1) \in Nat /\ e(0, i-1) \in Nat /\ Balance(script, 1, i-1) = b(0, i-1) - e(0, i-1)
    BY <1>1, <1>5, <2>2, <2>6
  <2>11. i - 1 = 0 => b(0, i-1) = 0 /\ e(0, i-1) = 0
    <3>1. \A m \in 1..N : ~(0 < m /\ m <= 0)
      OBVIOUS
    <3>2. Between(B, 0, 0) = {} /\ Between(E, 0, 0) = {}
      BY <1>2, <3>1 DEF Between
    <3> QED
      BY <3>2, FS_EmptySet
  <2> HIDE DEF b, e
  <2> QED
    BY <2>4, <2>5, <2>7, <2>8, <2>9, <2>10, <2>11
<1>9. Min(Z) \in i..N /\ Balance(script, i, Min(Z)) = 0
      /\ \A m \in i..N : Balance(script, i, m) = 0 => Min(Z) <= m
  <2>1. Z \subseteq Nat
    BY <1>1
  <2>2. \A m : m \in Z <=> m \in i..N /\ Balance(script, i, m) = 0
    OBVIOUS
  <2> HIDE DEF Z
  <2>3. Min(Z) \in Z /\ \A m \in Z : Min(Z) <= m
    BY <1>8, <2>1, MinIsLeast
  <2> QED
    BY <2>2, <2>3
<1>10. Body(script, i) = i..Min(Z)
  BY DEF Body
<1> DEFINE last == Min(Z)
<1> HIDE DEF last, Z
<1>11. Body(script, i) = i..last /\ last \in i..N /\ Balance(script, i, last) = 0
       /\ \A m \in i..N : Balance(script, i, m) = 0 => last <= m
  BY <1>9, <1>10 DEF last
<1>12. Body(script, i) \subseteq DOMAIN script
  BY <1>1, <1>11
<1>13. ASSUME NEW k \in 1..N, "db" \in script[k].marks
       PROVE  k \in Body(script, i) <=> i \in Unclosed(B, E, k)
  <2>1. k \notin B /\ k \notin E /\ k # i
    BY <1>3, <1>4, <1>13
  <2>2. ASSUME k \in i..last
        PROVE  i \in Unclosed(B, E, k)
    <3>1. k - 1 \in i..N /\ i \in 0..N /\ k \in i..N /\ \A m \in i..k-1 : m \in i..N /\ ~(last <= m)
      BY <1>1, <1>11, <2>1, <2>2
    <3>2. \A m \in i..k-1 : e(i, m) # b(i, m) + 1
      <4> HIDE DEF b, e
      <4> QED
        BY SMTT(60), <1>7, <1>11, <3>1
    <3>3. \A m \in i..k-1 : e(i, m) <= b(i, m)
      BY <1>1, <1>2, <3>1, <3>2, NeverTooOften
    <3>4. \A m \in i..k : m = k \/ m \in i..k-1
      BY <1>1
    <3>5. \A m \in i..k : (m = k /\ k \notin E) \/ e(i, m) <= b(i, m)
      BY <2>1, <3>3, <3>4
    <3>6. Holds(B, E, i, k)
      BY <1>1, <1>2, <1>4, <3>1, <3>5, StillOpen
    <3>7. i <= k
      BY <1>1, <2>2
    <3> QED
      BY <1>4, <3>6, <3>7 DEF Unclosed
  <2>3. ASSUME i \in Unclosed(B, E, k)
        PROVE  k \in i..last
    <3>1. i <= k /\ \A m \in i+1..k : e(i, m) <= b(i, m-1)
      BY <2>3 DEF Unclosed, Holds
    <3>2. i < k /\ k \in i..N
      BY <1>1, <2>1, <3>1
    <3> SUFFICES ASSUME ~(k <= last)
                 PROVE  FALSE
      BY <1>1, <1>11, <3>2
    <3>3. last \in i..N /\ last < k /\ e(i, last) = b(i, last) + 1
      <4>1. last \in i..N /\ last < k
        BY <1>1, <1>11
      <4> HIDE DEF b, e
      <4> QED
        BY <1>7, <1>11, <4>1
    <3>4. last # i
      <4>1. Between(E, i, i) = {}
        <5>1. \A m \in 1..N : ~(i < m /\ m <= i)
          BY <1>1
        <5> QED
          BY <1>2, <5>1 DEF Between
      <4>2. e(i, i) = 0
        BY <4>1, FS_EmptySet
      <4>3. i \in i..N /\ b(i, i) \in Nat
        BY <1>1, <1>7
      <4> HIDE DEF b, e
      <4> QED
        BY <3>3, <4>2, <4>3
    <3>5. last \in i+1..k /\ last \in Nat /\ i < last
      BY <1>1, <3>3, <3>4
    <3>6. e(i, last) <= b(i, last-1)
      BY <3>1, <3>5
    <3>7. /\ b(i, last-1) \in Nat /\ b(i, last) \in Nat
          /\ last \in B => b(i, last) = b(i, last-1) + 1
          /\ last \notin B => b(i, last) = b(i, last-1)
      BY <1>1, <1>6, <3>5, BetweenStep
    <3> HIDE DEF b, e
    <3> QED
      BY <3>3, <3>6, <3>7
  <2> QED
    BY <1>11, <2>2, <2>3
<1> QED
  BY <1>1, <1>12, <1>13 DEF B, E

\* So a call is in as many as the balance says.
LEMMA LoopsAround ==
  ASSUME NEW L, \A line \in L : IsCodeLine("go", line), NEW script \in Seq(L), Parses(script),
         NEW k \in DOMAIN script, "db" \in script[k].marks
  PROVE  Cardinality({i \in DOMAIN script :
                         "loop" \in script[i].marks /\ k \in Body(script, i)})
            = Balance(script, 1, k)
<1> DEFINE N == Len(script)
           B == MarkedIn(script, "loop")
           E == MarkedIn(script, "close")
           U == Unclosed(B, E, k)
           b(m) == Cardinality(Between(B, 0, m))
           e(m) == Cardinality(Between(E, 0, m))
<1>1. /\ N \in Nat /\ DOMAIN script = 1..N /\ k \in 1..N /\ 0 \in 0..N
      /\ \A j \in 1..N : IsCodeLine("go", script[j])
  BY LenProperties, ElementOfSeq
<1>2. /\ B \subseteq 1..N /\ E \subseteq 1..N
      /\ \A j \in 1..N : /\ j \in B <=> "loop" \in script[j].marks
                         /\ j \in E <=> "close" \in script[j].marks
  BY DEF MarkedIn, Marked
<1>3. B \cap E = {} /\ k \notin E
  <2>1. \A j \in 1..N : \A m, n \in script[j].marks \cap {"loop", "close", "db"} : m = n
    BY <1>1 DEF IsCodeLine
  <2>2. "loop" # "close" /\ "close" # "db"
    OBVIOUS
  <2>3. \A j \in 1..N : /\ ~("loop" \in script[j].marks /\ "close" \in script[j].marks)
                        /\ ~("db" \in script[j].marks /\ "close" \in script[j].marks)
    BY <2>1, <2>2
  <2> HIDE DEF B, E
  <2> QED
    BY <1>1, <1>2, <2>3
<1>4. \A i \in DOMAIN script : "loop" \in script[i].marks =>
         (k \in Body(script, i) <=> i \in U)
  BY InBody
<1>5. U \subseteq B
  BY DEF Unclosed
<1>6. \A m \in 0..N : b(m) \in Nat /\ e(m) \in Nat /\ Balance(script, 1, m) = b(m) - e(m)
  BY <1>1, BalanceIs
<1> HIDE DEF B, E, U
<1>7. {i \in DOMAIN script : "loop" \in script[i].marks /\ k \in Body(script, i)} = U
  BY <1>1, <1>2, <1>4, <1>5
<1>8. \A m \in 0..k : e(m) <= b(m)
  <2> SUFFICES ASSUME NEW m \in 0..k
               PROVE  e(m) <= b(m)
    OBVIOUS
  <2>1. CASE m = 0
    <3>1. \A j \in 1..N : ~(0 < j /\ j <= 0)
      OBVIOUS
    <3>2. Between(E, 0, 0) = {} /\ Between(B, 0, 0) = {}
      BY <1>2, <3>1 DEF Between
    <3>3. e(m) = 0 /\ b(m) = 0
      BY <2>1, <3>2, FS_EmptySet
    <3> QED
      BY <3>3
  <2>2. CASE m # 0
    <3>1. m \in 1..N /\ m \in 0..N
      BY <1>1, <2>2
    <3>2. Balance(script, 1, m) >= 0
      BY <1>1, <3>1 DEF Parses
    <3> HIDE DEF b, e
    <3> QED
      BY <1>6, <3>1, <3>2
  <2> QED
    BY <2>1, <2>2
<1>9. Holds(B, E, 0, k)
  <2>1. k \in 0..N
    BY <1>1
  <2> QED
    BY <1>1, <1>2, <1>3, <1>8, <2>1, StillOpen
<1>10. b(k) = e(k) + Cardinality(Between(U, 0, k))
  <2>1. k \in 0..N /\ 0 \in 0..k
    BY <1>1
  <2>2. Balanced(B, E, k)
    BY <1>1, <1>2, <2>1, Brackets
  <2> QED
    BY <1>9, <2>1, <2>2 DEF Balanced, U
<1>11. Between(U, 0, k) = U
  <2>1. \A i \in U : i \in 1..N /\ i <= k
    BY <1>2, <1>5 DEF U, Unclosed
  <2>2. \A i \in U : 0 < i
    BY <1>1, <2>1
  <2> QED
    BY <2>1, <2>2 DEF Between
<1>12. U \in SUBSET (1..N) /\ k \in 0..N
  BY <1>1, <1>2, <1>5
<1>13. Cardinality(U) \in Nat
  <2>1. 1 \in Int /\ N \in Int
    BY <1>1
  <2>2. IsFiniteSet(1..N)
    BY <2>1, FS_Interval
  <2>3. IsFiniteSet(U)
    BY <1>12, <2>2, FS_Subset
  <2> QED
    BY <2>3, FS_CardinalityType
<1> HIDE DEF b, e
<1> QED
  <2>1. b(k) = e(k) + Cardinality(U)
    BY <1>10, <1>11
  <2>2. Cardinality(U) = Balance(script, 1, k)
    BY <1>6, <1>12, <1>13, <2>1
  <2> QED
    BY <1>7, <2>2, Zenon

-----------------------------------------------------------------------------
(* Costs: how often something is reported.                                 *)

PatternTypes == {"n_plus_1_query", "unpaginated_scan", "lambda_no_memory", "lambda_no_timeout"}

Patterns == [type : PatternTypes, line : Nat]

\* What is found in a line of a language other than Go is found once.
LEMMA FoundInLine ==
  ASSUME NEW lines, NEW k \in Nat, NEW inLoop \in BOOLEAN, NEW j \in Nat
  PROVE  LET s == FoundIn(lines, k, inLoop)
             call == Pattern("n_plus_1_query", j)
             scan == Pattern("unpaginated_scan", j)
         IN  /\ s \in Seq(Patterns)
             /\ Once(s, call)
             /\ call \in Range(s) <=> j = k /\ inLoop /\ "db" \in lines[k].marks
             /\ Once(s, scan)
             /\ scan \in Range(s) <=> j = k /\ "scan" \in lines[k].marks /\ ~LimitNear(lines, k)
<1> DEFINE call == Pattern("n_plus_1_query", j)
           scan == Pattern("unpaginated_scan", j)
           y == Pattern("n_plus_1_query", k)
           z == Pattern("unpaginated_scan", k)
           isCall == inLoop /\ "db" \in lines[k].marks
           isScan == "scan" \in lines[k].marks /\ ~LimitNear(lines, k)
           p == IF isCall THEN <<y>> ELSE <<>>
           q == IF isScan THEN <<z>> ELSE <<>>
<1>1. y \in Patterns /\ z \in Patterns /\ isCall \in BOOLEAN /\ isScan \in BOOLEAN
  BY DEF Pattern, Patterns, PatternTypes
<1>2. call # z /\ scan # y /\ (call = y <=> j = k) /\ (scan = z <=> j = k)
  BY DEF Pattern
<1>3. FoundIn(lines, k, inLoop) = p \o q
  BY DEF FoundIn
<1> HIDE DEF y, z, isCall, isScan, call, scan
<1>4. \A x : /\ p \in Seq(Patterns) /\ Once(p, x)
             /\ x \in Range(p) <=> isCall /\ x = y
  BY <1>1, OnceOrNot
<1>5. \A x : /\ q \in Seq(Patterns) /\ Once(q, x)
             /\ x \in Range(q) <=> isScan /\ x = z
  BY <1>1, OnceOrNot
<1> HIDE DEF p, q
<1>6. \A x \in {call, scan} : x \notin Range(p) \/ x \notin Range(q)
  BY <1>2, <1>4, <1>5
<1>7. \A x \in {call, scan} : /\ p \o q \in Seq(Patterns)
                              /\ Once(p \o q, x)
                              /\ x \in Range(p \o q) <=> x \in Range(p) \/ x \in Range(q)
  BY <1>4, <1>5, <1>6, OnceInConcat
<1>8. /\ p \o q \in Seq(Patterns) /\ Once(p \o q, call) /\ Once(p \o q, scan)
      /\ call \in Range(p \o q) <=> isCall /\ j = k
      /\ scan \in Range(p \o q) <=> isScan /\ j = k
  BY <1>2, <1>4, <1>5, <1>7
<1> QED
  BY <1>3, <1>8 DEF call, scan, isCall, isScan

\* The lines of a text, of which some are in loops for the detector.
LEMMA LinesDetected ==
  ASSUME NEW L, NEW lines \in Seq(L), NEW inside \in [1..Len(lines) -> BOOLEAN],
         NEW k \in DOMAIN lines
  PROVE  LET found == FlattenSeq([n \in DOMAIN lines |-> FoundIn(lines, n, inside[n])])
         IN  /\ found \in Seq(Patterns)
             /\ Cardinality(PlacesOf(found, Pattern("n_plus_1_query", k)))
                   = IF inside[k] /\ "db" \in lines[k].marks THEN 1 ELSE 0
             /\ Cardinality(PlacesOf(found, Pattern("unpaginated_scan", k)))
                   = IF "scan" \in lines[k].marks /\ ~LimitNear(lines, k) THEN 1 ELSE 0
<1> DEFINE N == Len(lines)
           part == [n \in DOMAIN lines |-> FoundIn(lines, n, inside[n])]
           call == Pattern("n_plus_1_query", k)
           scan == Pattern("unpaginated_scan", k)
           isCall == inside[k] /\ "db" \in lines[k].marks
           isScan == "scan" \in lines[k].marks /\ ~LimitNear(lines, k)
<1>1. N \in Nat /\ DOMAIN lines = 1..N /\ k \in 1..N /\ k \in Nat
  BY LenProperties
<1>2. \A n \in 1..N : part[n] = FoundIn(lines, n, inside[n]) /\ inside[n] \in BOOLEAN /\ n \in Nat
  BY <1>1
<1>3. DOMAIN part = 1..N
  BY <1>1
<1>4. part = [n \in 1..N |-> part[n]]
  BY <1>1
<1> HIDE DEF part
<1>5. \A n \in 1..N : /\ part[n] \in Seq(Patterns)
                      /\ Once(part[n], call) /\ Once(part[n], scan)
                      /\ call \in Range(part[n]) <=> n = k /\ isCall
                      /\ scan \in Range(part[n]) <=> n = k /\ isScan
  <2> SUFFICES ASSUME NEW n \in 1..N
               PROVE  /\ part[n] \in Seq(Patterns)
                      /\ Once(part[n], call) /\ Once(part[n], scan)
                      /\ call \in Range(part[n]) <=> n = k /\ isCall
                      /\ scan \in Range(part[n]) <=> n = k /\ isScan
    OBVIOUS
  <2> DEFINE s == FoundIn(lines, n, inside[n])
  <2>1. n \in Nat /\ inside[n] \in BOOLEAN /\ part[n] = s
    BY <1>2
  <2>2. /\ s \in Seq(Patterns)
        /\ Once(s, call)
        /\ call \in Range(s) <=> k = n /\ inside[n] /\ "db" \in lines[n].marks
        /\ Once(s, scan)
        /\ scan \in Range(s) <=> k = n /\ "scan" \in lines[n].marks /\ ~LimitNear(lines, n)
    BY <1>1, <2>1, FoundInLine
  <2> HIDE DEF s
  <2> QED
    BY <2>1, <2>2
<1>6. part \in [1..N -> Seq(Patterns)]
  BY <1>4, <1>5
<1> HIDE DEF isCall, isScan, call, scan
<1>7. /\ FlattenSeq(part) \in Seq(Patterns)
      /\ Cardinality(PlacesOf(FlattenSeq(part), call)) = Cardinality(With(part, N, call))
      /\ Cardinality(PlacesOf(FlattenSeq(part), scan)) = Cardinality(With(part, N, scan))
  <2>1. FlattenSeq(part) \in Seq(Patterns)
    BY <1>1, <1>6, FlattenRange
  <2>2. /\ \A n \in 1..N : Once(part[n], call)
        /\ \A n \in 1..N : Once(part[n], scan)
    BY <1>5
  <2>3. Cardinality(PlacesOf(FlattenSeq(part), call))
           = Cardinality(With(part, N, call))
    BY <1>1, <1>6, <2>2, FlattenCounts
  <2>4. Cardinality(PlacesOf(FlattenSeq(part), scan))
           = Cardinality(With(part, N, scan))
    BY <1>1, <1>6, <2>2, FlattenCounts
  <2> QED
    BY <2>1, <2>3, <2>4
<1>8. \A given \in BOOLEAN : \A S : (\A n : n \in S <=> n = k /\ given) =>
         Cardinality(S) = IF given THEN 1 ELSE 0
  <2> SUFFICES ASSUME NEW given \in BOOLEAN, NEW S, \A n : n \in S <=> n = k /\ given
               PROVE  Cardinality(S) = IF given THEN 1 ELSE 0
    OBVIOUS
  <2>1. S = IF given THEN {k} ELSE {}
    OBVIOUS
  <2> QED
    BY <2>1, FS_Singleton, FS_EmptySet
<1>9. isCall \in BOOLEAN /\ isScan \in BOOLEAN
  BY <1>1 DEF isCall, isScan
<1>10. Cardinality(With(part, N, call)) = IF isCall THEN 1 ELSE 0
  BY <1>1, <1>5, <1>8, <1>9 DEF With
<1>11. Cardinality(With(part, N, scan)) = IF isScan THEN 1 ELSE 0
  BY <1>1, <1>5, <1>8, <1>9 DEF With
<1> QED
  BY <1>7, <1>10, <1>11, Zenon DEF part, call, scan, isCall, isScan

\* What is reported at an element in Go: the calls in a loop, each once.
LEMMA Inspected ==
  ASSUME NEW L, \A line \in L : IsCodeLine("go", line), NEW script \in Seq(L), Parses(script),
         NEW i \in DOMAIN script, NEW j \in DOMAIN script
  PROVE  LET s == Inspect(script, i)
             call == Pattern("n_plus_1_query", j)
             scan == Pattern("unpaginated_scan", j)
         IN  /\ s \in Seq(Patterns)
             /\ Once(s, call)
             /\ call \in Range(s) <=>
                   "loop" \in script[i].marks /\ j \in Body(script, i) /\ "db" \in script[j].marks
             /\ Once(s, scan)
             /\ scan \in Range(s) <=>
                   j = i /\ "scan" \in script[i].marks /\ "limit" \notin script[i].marks
<1> DEFINE marks == script[i].marks
           calls == IF "loop" \in marks THEN {m \in Body(script, i) : "db" \in script[m].marks} ELSE {}
           C == Cardinality(calls)
           lacks == Missing(marks)
           y(m) == Pattern("n_plus_1_query", m)
           z == Pattern("unpaginated_scan", i)
           isScan == "scan" \in marks /\ "limit" \notin marks
           p == [n \in 1..C |-> y(InOrder(calls)[n])]
           q == IF isScan THEN <<z>> ELSE <<>>
           r == [n \in DOMAIN lacks |-> Pattern(lacks[n], i)]
           call == y(j)
           scan == Pattern("unpaginated_scan", j)
<1>1. /\ DOMAIN script = 1..Len(script) /\ Len(script) \in Nat /\ DOMAIN script \subseteq Nat
      /\ i \in Nat /\ j \in Nat
  BY LenProperties
<1>2. calls \subseteq DOMAIN script
  BY InBody
<1>3. IsFiniteSet(calls) /\ calls \subseteq Nat
  <2>1. 1 \in Int /\ Len(script) \in Int
    BY <1>1
  <2>2. IsFiniteSet(DOMAIN script)
    BY <1>1, <2>1, FS_Interval
  <2> QED
    BY <1>1, <1>2, <2>2, FS_Subset
<1>4. j \in calls <=> "loop" \in marks /\ j \in Body(script, i) /\ "db" \in script[j].marks
  OBVIOUS
<1>5. Inspect(script, i) = (p \o q) \o r
  BY DEF Inspect
<1>6. \A m \in Nat : y(m) \in Patterns /\ y(m) # z /\ (call = y(m) <=> j = m)
  BY DEF Pattern, Patterns, PatternTypes
<1>7. scan # y(j) /\ \A m : scan # y(m)
  BY DEF Pattern
<1>8. z \in Patterns /\ call # z /\ (scan = z <=> j = i) /\ isScan \in BOOLEAN
  BY <1>1 DEF Pattern, Patterns, PatternTypes
<1> HIDE DEF calls
<1>9. /\ C \in Nat /\ InOrder(calls) \in [1..C -> calls]
      /\ \A m \in calls : Rank(calls, m) \in 1..C /\ InOrder(calls)[Rank(calls, m)] = m
      /\ \A n \in 1..C : Rank(calls, InOrder(calls)[n]) = n
  BY <1>3, InOrderRanks
<1> HIDE DEF C, y, call
<1>10. /\ p \in Seq(Patterns) /\ DOMAIN p = 1..C
       /\ \A n \in 1..C : p[n] = y(InOrder(calls)[n]) /\ InOrder(calls)[n] \in calls
  <2>1. p \in [1..C -> Patterns]
    BY <1>3, <1>6, <1>9
  <2> QED
    BY <1>9, <2>1
<1> HIDE DEF p
<1>11. /\ call \in Range(p) <=> j \in calls
       /\ Once(p, call)
       /\ scan \notin Range(p) /\ Once(p, scan)
  <2>1. \A n \in 1..C : p[n] = call <=> InOrder(calls)[n] = j
    BY <1>3, <1>6, <1>10
  <2>2. call \in Range(p) <=> j \in calls
    BY <1>9, <1>10, <2>1 DEF Range
  <2>3. Once(p, call)
    BY <1>9, <1>10, <2>1 DEF Once, PlacesOf
  <2>4. \A n \in 1..C : p[n] # scan
    BY <1>7, <1>10
  <2> QED
    BY <1>10, <2>2, <2>3, <2>4 DEF Once, PlacesOf, Range
<1> HIDE DEF z, isScan, scan
<1>12. \A x : /\ q \in Seq(Patterns) /\ Once(q, x)
              /\ x \in Range(q) <=> isScan /\ x = z
  BY <1>8, OnceOrNot
<1>13. /\ r \in Seq(Patterns)
       /\ call \notin Range(r) /\ Once(r, call)
       /\ scan \notin Range(r) /\ Once(r, scan)
  <2> DEFINE T == {"lambda_no_memory", "lambda_no_timeout"}
             memory == "lambda" \in marks /\ "memory" \notin marks
             timeout == "lambda" \in marks /\ "timeout" \notin marks
             f == IF memory THEN <<"lambda_no_memory">> ELSE <<>>
             g == IF timeout THEN <<"lambda_no_timeout">> ELSE <<>>
  <2>1. f \in Seq(T) /\ g \in Seq(T) /\ lacks = f \o g
    <3>1. lacks = f \o g
      BY DEF Missing
    <3>2. "lambda_no_memory" \in T /\ "lambda_no_timeout" \in T
      OBVIOUS
    <3> HIDE DEF T, memory, timeout, lacks
    <3>3. <<>> \in Seq(T) /\ <<"lambda_no_memory">> \in Seq(T) /\ <<"lambda_no_timeout">> \in Seq(T)
      BY <3>2
    <3> QED
      BY <3>1, <3>3
  <2> HIDE DEF f, g, T
  <2>2. lacks \in Seq(T)
    BY <2>1, ConcatProperties
  <2> HIDE DEF lacks
  <2>3. Len(lacks) \in Nat /\ DOMAIN lacks = 1..Len(lacks) /\ \A n \in 1..Len(lacks) : lacks[n] \in T
    BY <2>2, LenProperties, ElementOfSeq
  <2>4. \A t \in T : /\ Pattern(t, i) \in Patterns
                     /\ Pattern(t, i) # call /\ Pattern(t, i) # scan
    BY <1>1 DEF Pattern, Patterns, PatternTypes, T, call, scan, y
  <2>5. r \in [1..Len(lacks) -> Patterns]
    BY <2>3, <2>4
  <2>6. \A n \in 1..Len(lacks) : r[n] # call /\ r[n] # scan
    BY <2>3, <2>4
  <2>7. DOMAIN r = 1..Len(lacks)
    BY <2>3
  <2> HIDE DEF r
  <2> QED
    BY <2>3, <2>5, <2>6, <2>7 DEF Once, PlacesOf, Range
<1> HIDE DEF q, r
<1>14. /\ p \o q \in Seq(Patterns)
       /\ Once(p \o q, call) /\ (call \in Range(p \o q) <=> j \in calls)
       /\ Once(p \o q, scan) /\ (scan \in Range(p \o q) <=> isScan /\ j = i)
  <2>1. call \notin Range(q)
    BY <1>8, <1>12 DEF z, call
  <2>2. /\ p \o q \in Seq(Patterns) /\ Once(p \o q, call)
        /\ call \in Range(p \o q) <=> call \in Range(p) \/ call \in Range(q)
    BY <1>10, <1>11, <1>12, <2>1, OnceInConcat
  <2>3. /\ Once(p \o q, scan)
        /\ scan \in Range(p \o q) <=> scan \in Range(p) \/ scan \in Range(q)
    BY <1>10, <1>11, <1>12, OnceInConcat
  <2>4. scan = z <=> j = i
    BY <1>8 DEF z, scan
  <2> QED
    BY <1>11, <1>12, <2>1, <2>2, <2>3, <2>4
<1>15. /\ (p \o q) \o r \in Seq(Patterns) /\ Once((p \o q) \o r, call)
       /\ call \in Range((p \o q) \o r) <=> j \in calls
  BY <1>13, <1>14, OnceInConcat
<1>16. /\ Once((p \o q) \o r, scan)
       /\ scan \in Range((p \o q) \o r) <=> isScan /\ j = i
  BY <1>13, <1>14, OnceInConcat
<1> QED
  BY <1>4, <1>5, <1>15, <1>16 DEF call, scan, isScan, y

\* The elements of a source in Go.
LEMMA ElementsDetected ==
  ASSUME NEW L, \A line \in L : IsCodeLine("go", line), NEW script \in Seq(L), Parses(script),
         NEW k \in DOMAIN script
  PROVE  LET found == DetectFromSource(script)
         IN  /\ found \in Seq(Patterns)
             /\ Cardinality(PlacesOf(found, Pattern("n_plus_1_query", k)))
                   = IF "db" \in script[k].marks THEN Balance(script, 1, k) ELSE 0
             /\ Cardinality(PlacesOf(found, Pattern("unpaginated_scan", k)))
                   = IF "scan" \in script[k].marks /\ "limit" \notin script[k].marks THEN 1 ELSE 0
<1> DEFINE N == Len(script)
           part == [n \in DOMAIN script |-> Inspect(script, n)]
           call == Pattern("n_plus_1_query", k)
           scan == Pattern("unpaginated_scan", k)
           isScan == "scan" \in script[k].marks /\ "limit" \notin script[k].marks
<1>1. N \in Nat /\ DOMAIN script = 1..N /\ k \in 1..N
  BY LenProperties
<1>2. \A n \in 1..N : /\ part[n] \in Seq(Patterns)
                      /\ Once(part[n], call) /\ Once(part[n], scan)
                      /\ call \in Range(part[n]) <=>
                           /\ "loop" \in script[n].marks /\ k \in Body(script, n)
                           /\ "db" \in script[k].marks
                      /\ scan \in Range(part[n]) <=> n = k /\ isScan
  <2> SUFFICES ASSUME NEW n \in 1..N
               PROVE  /\ part[n] \in Seq(Patterns)
                      /\ Once(part[n], call) /\ Once(part[n], scan)
                      /\ call \in Range(part[n]) <=>
                           /\ "loop" \in script[n].marks /\ k \in Body(script, n)
                           /\ "db" \in script[k].marks
                      /\ scan \in Range(part[n]) <=> n = k /\ isScan
    OBVIOUS
  <2> DEFINE s == Inspect(script, n)
  <2>1. n \in DOMAIN script /\ part[n] = s
    BY <1>1
  <2>2. /\ s \in Seq(Patterns)
        /\ Once(s, call)
        /\ call \in Range(s) <=>
              "loop" \in script[n].marks /\ k \in Body(script, n) /\ "db" \in script[k].marks
        /\ Once(s, scan)
        /\ scan \in Range(s) <=>
              k = n /\ "scan" \in script[n].marks /\ "limit" \notin script[n].marks
    BY <2>1, Inspected
  <2> HIDE DEF s, part
  <2> QED
    BY <2>1, <2>2
<1>3. part = [n \in 1..N |-> part[n]]
  BY <1>1
<1>4. FlattenSeq(part) = DetectFromSource(script)
  BY DEF DetectFromSource
<1> HIDE DEF part, isScan, call, scan
<1>5. part \in [1..N -> Seq(Patterns)]
  BY <1>2, <1>3
<1>6. FlattenSeq(part) \in Seq(Patterns)
  BY <1>1, <1>5, FlattenRange
<1>7. /\ \A n \in 1..N : Once(part[n], call)
      /\ \A n \in 1..N : Once(part[n], scan)
  BY <1>2
<1>8. Cardinality(PlacesOf(FlattenSeq(part), call))
         = Cardinality(With(part, N, call))
  BY <1>1, <1>5, <1>7, FlattenCounts
<1>9. Cardinality(PlacesOf(FlattenSeq(part), scan))
         = Cardinality(With(part, N, scan))
  BY <1>1, <1>5, <1>7, FlattenCounts
<1>10. Cardinality(With(part, N, call))
          = IF "db" \in script[k].marks THEN Balance(script, 1, k) ELSE 0
  <2>1. CASE "db" \in script[k].marks
    <3>1. With(part, N, call)
             = {n \in DOMAIN script : "loop" \in script[n].marks /\ k \in Body(script, n)}
      BY <1>1, <1>2, <2>1 DEF With
    <3>2. Cardinality({n \in DOMAIN script : "loop" \in script[n].marks /\ k \in Body(script, n)})
             = Balance(script, 1, k)
      BY <2>1, LoopsAround
    <3> QED
      BY <2>1, <3>1, <3>2, Zenon
  <2>2. CASE "db" \notin script[k].marks
    <3>1. With(part, N, call) = {}
      BY <1>2, <2>2 DEF With
    <3> QED
      BY <2>2, <3>1, FS_EmptySet
  <2> QED
    BY <2>1, <2>2
<1>11. Cardinality(With(part, N, scan)) = IF isScan THEN 1 ELSE 0
  <2>1. CASE isScan
    <3>1. With(part, N, scan) = {k}
      BY <1>1, <1>2, <2>1 DEF With
    <3> QED
      BY <2>1, <3>1, FS_Singleton
  <2>2. CASE ~isScan
    <3>1. With(part, N, scan) = {}
      BY <1>2, <2>2 DEF With
    <3> QED
      BY <2>2, <3>1, FS_EmptySet
  <2> QED
    BY <2>1, <2>2
<1> QED
  BY <1>4, <1>6, <1>8, <1>9, <1>10, <1>11, Zenon DEF call, scan, isScan

\* In a text without a limit none is near.
LEMMA Unlimited ==
  ASSUME NEW L, NEW lines \in Seq(L), NEW k \in DOMAIN lines,
         Marked(lines, 1, Len(lines), "limit") = {}
  PROVE  ~LimitNear(lines, k)
<1> DEFINE N == Len(lines)
           from == IF k > Lookahead THEN k - Lookahead ELSE 1
           to == Min({k + Lookahead, N})
           ends == {i \in k..to : "end" \in lines[i].marks}
           last == IF ends = {} THEN to ELSE Min(ends)
<1>1. N \in Nat /\ k \in 1..N /\ k \in Nat /\ Lookahead \in Nat
  BY LenProperties, LookaheadAssumption
<1>2. to \in Nat /\ to <= N
  <2>1. {k + Lookahead, N} \subseteq Nat /\ {k + Lookahead, N} # {}
    BY <1>1
  <2> QED
    BY <2>1, MinIsLeast
<1> HIDE DEF to
<1>3. last \in Nat /\ last <= N
  <2>1. CASE ends = {}
    BY <1>2, <2>1
  <2>2. CASE ends # {}
    <3>1. ends \subseteq Nat /\ \A i \in ends : i <= N
      BY <1>1, <1>2
    <3> HIDE DEF ends
    <3>2. Min(ends) \in ends
      BY <2>2, <3>1, MinIsLeast
    <3> QED
      BY <2>2, <3>1, <3>2
  <2> QED
    BY <2>1, <2>2
<1>4. from \in Nat /\ from >= 1
  BY <1>1
<1>5. LimitNear(lines, k) <=> \E i \in from..last : "limit" \in lines[i].marks
  BY DEF LimitNear, to
<1> HIDE DEF from, last
<1>6. \A i \in from..last : i \in 1..N
  BY <1>1, <1>3, <1>4
<1> QED
  BY <1>5, <1>6 DEF Marked

\* In every language a call is reported as often as it is in a loop, unless the detector
\* has been misled, and a scan once if there is no limit.
LEMMA CostsDetected ==
  ASSUME NEW language \in Known, NEW L, \A line \in L : IsCodeLine(language, line),
         NEW script \in Seq(L), language = "go" => Parses(script), NEW k \in DOMAIN script
  PROVE  LET found == Detected(language, script)
         IN  /\ found \in Seq(Patterns)
             /\ ~Mistaken(language, script, k) =>
                   Cardinality(PlacesOf(found, Pattern("n_plus_1_query", k)))
                      = IF "db" \in script[k].marks THEN LoopReports(language, script, k) ELSE 0
             /\ Marked(script, 1, Len(script), "limit") = {} /\ "scan" \in script[k].marks =>
                   Cardinality(PlacesOf(found, Pattern("unpaginated_scan", k))) = 1
<1> DEFINE N == Len(script)
           found == Detected(language, script)
           call == Pattern("n_plus_1_query", k)
           scan == Pattern("unpaginated_scan", k)
<1>1. N \in Nat /\ DOMAIN script = 1..N /\ k \in 1..N /\ k \in 0..N
  BY LenProperties
<1>2. \A line \in L : line.indent \in Nat
  BY DEF IsCodeLine
<1>3. Marked(script, 1, N, "limit") = {} =>
         ~LimitNear(script, k) /\ "limit" \notin script[k].marks
  BY <1>1, Unlimited DEF Marked
<1>4. CASE language = "go"
  <2>1. found = DetectFromSource(script) /\ LoopReports(language, script, k) = Balance(script, 1, k)
    BY <1>4 DEF Detected, LoopReports
  <2>2. \A line \in L : IsCodeLine("go", line)
    BY <1>4
  <2>3. Parses(script)
    BY <1>4
  <2> DEFINE found_go == DetectFromSource(script)
  <2>4. /\ found_go \in Seq(Patterns)
        /\ Cardinality(PlacesOf(found_go, call))
              = IF "db" \in script[k].marks THEN Balance(script, 1, k) ELSE 0
        /\ Cardinality(PlacesOf(found_go, scan))
              = IF "scan" \in script[k].marks /\ "limit" \notin script[k].marks THEN 1 ELSE 0
    BY <2>2, <2>3, ElementsDetected
  <2> HIDE DEF found, found_go, call, scan
  <2> QED
    BY <1>3, <2>1, <2>4 DEF found, found_go, call, scan
<1>5. ASSUME NEW inside \in [1..N -> BOOLEAN],
             found = FlattenSeq([n \in DOMAIN script |-> FoundIn(script, n, inside[n])]),
             language # "go",
             ~Mistaken(language, script, k) =>
                LoopReports(language, script, k) = IF inside[k] THEN 1 ELSE 0
      PROVE  /\ found \in Seq(Patterns)
             /\ ~Mistaken(language, script, k) =>
                   Cardinality(PlacesOf(found, call))
                      = IF "db" \in script[k].marks THEN LoopReports(language, script, k) ELSE 0
             /\ Marked(script, 1, N, "limit") = {} /\ "scan" \in script[k].marks =>
                   Cardinality(PlacesOf(found, scan)) = 1
  <2> DEFINE made == FlattenSeq([n \in DOMAIN script |-> FoundIn(script, n, inside[n])])
  <2>1. /\ made \in Seq(Patterns)
        /\ Cardinality(PlacesOf(made, call))
              = IF inside[k] /\ "db" \in script[k].marks THEN 1 ELSE 0
        /\ Cardinality(PlacesOf(made, scan))
              = IF "scan" \in script[k].marks /\ ~LimitNear(script, k) THEN 1 ELSE 0
    BY ZenonT(60), LinesDetected
  <2>2. found = made
    BY <1>5
  <2> HIDE DEF found, made, call, scan
  <2> QED
    BY <1>3, <1>5, <2>1, <2>2
<1>6. CASE language = "py"
  <2> DEFINE inside == [n \in 1..N |-> LoopStack(script)[n] # <<>>]
             made == [n \in DOMAIN script |-> FoundIn(script, n, inside[n])]
  <2>1. found = FlattenSeq([n \in DOMAIN script |-> FoundIn(script, n, LoopStack(script)[n] # <<>>)])
    BY <1>6 DEF Detected, DetectFromSourcePython
  <2>2. \A n \in DOMAIN script : inside[n] = (LoopStack(script)[n] # <<>>)
    BY <1>1
  <2>3. inside \in [1..N -> BOOLEAN]
    OBVIOUS
  <2>4. LoopReports(language, script, k) = IF LoopsByIndent(script, k) = {} THEN 0 ELSE 1
    BY <1>6 DEF LoopReports
  <2>5. ~Mistaken(language, script, k) => (inside[k] <=> LoopsByIndent(script, k) # {})
    BY <1>1, <1>2, <1>6, StackIsLoops
  <2> HIDE DEF inside
  <2>6. made = [n \in DOMAIN script |-> FoundIn(script, n, LoopStack(script)[n] # <<>>)]
    BY <2>2
  <2>7. found = FlattenSeq(made)
    BY <2>1, <2>6, Zenon
  <2>8. ~Mistaken(language, script, k) =>
           LoopReports(language, script, k) = IF inside[k] THEN 1 ELSE 0
    BY <2>4, <2>5
  <2>9. language # "go"
    BY <1>6
  <2> HIDE DEF found, call, scan
  <2> QED
    BY <1>5, <2>3, <2>7, <2>8, <2>9, Zenon DEF found, call, scan
<1>7. CASE language \in {"js", "java"}
  <2> DEFINE inside == [n \in 1..N |-> LoopDepth(script)[n] > 0]
             made == [n \in DOMAIN script |-> FoundIn(script, n, inside[n])]
  <2>1. found = FlattenSeq([n \in DOMAIN script |-> FoundIn(script, n, LoopDepth(script)[n] > 0)])
    BY <1>7 DEF Detected, DetectFromSourceJS
  <2>2. \A n \in DOMAIN script : inside[n] = (LoopDepth(script)[n] > 0)
    BY <1>1
  <2>3. inside \in [1..N -> BOOLEAN]
    OBVIOUS
  <2>4. LoopReports(language, script, k)
           = IF OpenLoops(script, k) = {} /\ "single" \notin script[k].marks THEN 0 ELSE 1
    BY <1>7 DEF LoopReports
  <2>5. ~Mistaken(language, script, k) =>
           (inside[k] <=> OpenLoops(script, k) # {} \/ "single" \in script[k].marks)
    <3>1. inside[k] <=> LoopDepth(script)[k] > 0
      BY <1>1
    <3> QED
      BY <1>1, <1>7, <3>1, DepthInLoops
  <2> HIDE DEF inside
  <2>6. made = [n \in DOMAIN script |-> FoundIn(script, n, LoopDepth(script)[n] > 0)]
    BY <2>2
  <2>7. found = FlattenSeq(made)
    BY <2>1, <2>6, Zenon
  <2>8. ~Mistaken(language, script, k) =>
           LoopReports(language, script, k) = IF inside[k] THEN 1 ELSE 0
    BY <2>4, <2>5
  <2>9. language # "go"
    BY <1>7
  <2> HIDE DEF found, call, scan
  <2> QED
    BY <1>5, <2>3, <2>7, <2>8, <2>9, Zenon DEF found, call, scan
<1> QED
  BY <1>4, <1>6, <1>7 DEF Known

\* The answer lists what was detected.
LEMMA CostsListed ==
  ASSUME NEW language, NEW script, NEW requests, Detected(language, script) \in Seq(Patterns),
         ~HandleFinOps(language, script, requests).error
  PROVE  LET found == Detected(language, script)
             findings == HandleFinOps(language, script, requests).findings
         IN  /\ language = "go" => Parses(script)
             /\ \A type, k :
                   {n \in DOMAIN findings : findings[n].type = type /\ findings[n].line = k}
                      = PlacesOf(found, Pattern(type, k))
<1> DEFINE found == Detected(language, script)
           findings == HandleFinOps(language, script, requests).findings
<1>1. ~(script = <<>> \/ (language = "go" /\ ~Parses(script)))
  BY DEF HandleFinOps
<1>2. findings = [n \in DOMAIN found |-> CostFinding(found[n], requests)]
  BY <1>1 DEF HandleFinOps
<1>3. DOMAIN found = 1..Len(found) /\ \A n \in DOMAIN found : found[n] \in Patterns
  BY LenProperties, ElementOfSeq
<1> HIDE DEF found, findings
<1>4. DOMAIN findings = DOMAIN found
      /\ \A n \in DOMAIN found : findings[n].type = found[n].type /\ findings[n].line = found[n].line
  BY <1>2 DEF CostFinding
<1>5. \A type, k : \A n \in DOMAIN found :
         found[n] = Pattern(type, k) <=> found[n].type = type /\ found[n].line = k
  BY <1>3 DEF Patterns, Pattern
<1>6. ASSUME NEW type, NEW k
      PROVE  {n \in DOMAIN findings : findings[n].type = type /\ findings[n].line = k}
                = PlacesOf(found, Pattern(type, k))
  BY <1>4, <1>5 DEF PlacesOf
<1> QED
  BY <1>1, <1>6 DEF found, findings

-----------------------------------------------------------------------------
(* The invariant.                                                          *)

DirectoryTools == {"piiguard", "lambdaguard", "iamguard"}

WellFormed ==
    /\ tool = "envguard" => WellFormedDiff(source)
    /\ tool = "vulnscanner" /\ input.ecosystem = "go" => WellFormedManifest(source)
    /\ tool \in DirectoryTools => WellFormedTree(source)

\* The answer about a code or a directory is an error or what the handler makes of all
\* of it.
DirectoryAnswered ==
    /\ tool = "finops" /\ answer # None =>
          answer = HandleFinOps(Language(input.extension, input.words), source, input.requests)
    /\ tool = "piiguard" /\ answer # None =>
          \/ answer.error
          \/ answer = HandlePIIGuard(source, input.names, input.entropyCheck, input.threshold)
    /\ tool = "lambdaguard" /\ answer # None =>
          answer.error \/ answer = HandleLambdaGuard(source, input.checks, input.threshold)
    /\ tool = "iamguard" /\ answer # None => answer = HandleIAMGuard(source)

\* The dependencies are those of the manifest, and the answer is about them.
ManifestAnswered ==
    tool = "vulnscanner" =>
        /\ work # None => source # <<>> /\ work = ParseManifest(input.ecosystem, source)
        /\ answer # None =>
              /\ work # None
              /\ \/ \E database \in Databases : \E order \in SetToSeqs(Affected(database)) :
                       answer = HandleVulnScan(work, FlattenSeq(FoundFor(database, order)), FALSE)
                 \/ answer = HandleVulnScan(work, <<>>, TRUE)

\* The findings are those of the diff, before and after the migration.
DiffAnswered ==
    tool = "envguard" =>
        LET findings == HandleEnvGuard(source, input.ignored).findings
        IN  /\ work # None => work = findings
            /\ answer # None => answer.findings = findings

\* Nothing is migrated before there are findings, and what is has its own secret.
Owned ==
    /\ stage # <<>> => work # None
    /\ stored # <<>> => stage # <<>>
    /\ MigratedSecretIsItsOwn

IInv == TypeOK /\ WellFormed /\ DirectoryAnswered /\ ManifestAnswered /\ DiffAnswered /\ Owned

\* One line more: what was there stays, and the last line of a kind up to there.
LEMMA AppendKeeps ==
  ASSUME NEW L, NEW s \in Seq(L), NEW line \in L
  PROVE  LET t == Append(s, line)
         IN  /\ t \in Seq(L) /\ Len(t) = Len(s) + 1 /\ DOMAIN t = 1..Len(s)+1
             /\ DOMAIN s = 1..Len(s) /\ Len(s) \in Nat
             /\ t[Len(s)+1] = line
             /\ \A k \in 1..Len(s) : t[k] = s[k]
             /\ \A k \in 0..Len(s) : \A kind : LastOf(t, k, kind) = LastOf(s, k, kind)
<1> DEFINE t == Append(s, line)
<1>1. /\ t \in Seq(L) /\ Len(t) = Len(s) + 1
      /\ DOMAIN s = 1..Len(s) /\ Len(s) \in Nat
      /\ t[Len(s)+1] = line /\ \A k \in 1..Len(s) : t[k] = s[k]
  BY AppendProperties, LenProperties
<1>2. DOMAIN t = 1..Len(s)+1
  BY <1>1, LenProperties
<1> HIDE DEF t
<1>3. ASSUME NEW k \in 0..Len(s), NEW kind
      PROVE  LastOf(t, k, kind) = LastOf(s, k, kind)
  <2>1. \A j \in 1..k : t[j] = s[j]
    BY <1>1
  <2>2. {j \in 1..k : t[j].kind = kind} = {j \in 1..k : s[j].kind = kind}
    BY <2>1
  <2> QED
    BY <2>2 DEF LastOf
<1> QED
  BY <1>1, <1>2, <1>3 DEF t

\* The texts are well formed as they are written.
LEMMA WriteKeepsForm ==
  ASSUME IInv, NEW line \in input.lines, Write(line)
  PROVE  WellFormed'
<1> DEFINE N == Len(source)
<1>1. /\ source' = Append(source, line) /\ tool' = tool /\ input' = input /\ MayFollow(line)
      /\ source \in Seq(input.lines)
  BY DEF Write, IInv, TypeOK
<1>2. /\ source' \in Seq(input.lines) /\ Len(source') = N + 1 /\ DOMAIN source' = 1..N+1
      /\ DOMAIN source = 1..N /\ N \in Nat
      /\ source'[N+1] = line /\ \A k \in 1..N : source'[k] = source[k]
      /\ \A k \in 0..N : \A kind : LastOf(source', k, kind) = LastOf(source, k, kind)
  BY <1>1, AppendKeeps
<1>3. source = <<>> <=> N = 0
  BY <1>1, EmptySeq
<1>4. \A k \in 1..N+1 : k \in 1..N \/ k = N + 1
  BY <1>2
<1>5. \A k \in 1..N : k - 1 = 0 \/ k - 1 \in 1..N
  BY <1>2
<1> HIDE DEF N
<1>6. ASSUME tool = "envguard"
      PROVE  WellFormedDiff(source')
  <2> DEFINE Fits(diff, k) ==
               LET first == k = 1
                   last == diff[k-1].kind
               IN  CASE diff[k].kind = "header"     -> first \/ last = "old header"
                     [] diff[k].kind = "hunk"       -> ~first /\ last # "old header"
                     [] diff[k].kind = "old header" -> ~first /\ last \notin {"header", "old header"}
                     [] diff[k].kind = "marker"     -> ~first /\ last \in {"added", "removed", "context"}
                     [] OTHER                       -> ~first /\ last \notin {"header", "old header"}
  <2>1. \A k \in 1..N : Fits(source, k)
    BY <1>2, <1>6 DEF IInv, WellFormed, WellFormedDiff
  <2>2. ASSUME NEW k \in 1..N
        PROVE  Fits(source', k)
    <3>1. CASE k = 1
      BY <1>2, <2>1, <3>1
    <3>2. CASE k # 1
      <4>1. source'[k-1] = source[k-1] /\ source'[k] = source[k]
        BY <1>2, <1>5, <3>2
      <4> QED
        BY <2>1, <4>1
    <3> QED
      BY <3>1, <3>2
  <2>3. Fits(source', N + 1)
    <3>1. CASE N = 0
      <4>1. line.kind = "header"
        BY <1>1, <1>3, <1>6, <3>1 DEF MayFollow
      <4>2. source'[N+1] = line /\ N + 1 = 1
        BY <1>2, <3>1
      <4> QED
        BY <4>1, <4>2
    <3>2. CASE N # 0
      <4> DEFINE last == source[N].kind
      <4>1. (CASE line.kind = "header" -> last \in {"none", "old header"}
               [] line.kind = "hunk"   -> last \notin {"none", "old header"}
               [] line.kind = "old header" -> last \notin {"none", "header", "old header"}
               [] line.kind = "marker" -> last \in {"added", "removed", "context"}
               [] OTHER -> last \notin {"none", "header", "old header"})
        BY <1>1, <1>3, <1>6, <3>2 DEF MayFollow, N
      <4>2. source'[N+1] = line /\ source'[(N + 1) - 1] = source[N] /\ N + 1 # 1
        BY <1>2, <3>2
      <4>3. last # "none"
        <5>1. N \in 1..N
          BY <1>2, <3>2
        <5>2. IsDiffLine(source[N])
          BY <1>1, <1>2, <1>6, <5>1, ElementOfSeq, InputsAssumption DEF IInv, TypeOK, N
        <5> QED
          BY <5>2 DEF IsDiffLine
      <4> HIDE DEF last
      <4>4. line.kind = "header" => last = "old header"
        BY <4>1, <4>3
      <4>5. line.kind # "header" /\ line.kind = "hunk" => last # "old header"
        BY <4>1
      <4>6. line.kind \notin {"header", "hunk"} /\ line.kind = "old header" =>
              last \notin {"header", "old header"}
        BY <4>1
      <4>7. line.kind = "marker" => last \in {"added", "removed", "context"}
        BY <4>1
      <4>8. line.kind \notin {"header", "hunk", "old header", "marker"} =>
              last \notin {"header", "old header"}
        BY <4>1
      <4> QED
        BY <4>2, <4>4, <4>5, <4>6, <4>7, <4>8 DEF last
    <3> QED
      BY <3>1, <3>2
  <2> HIDE DEF Fits
  <2>4. \A k \in 1..N+1 : Fits(source', k)
    BY <1>4, <2>2, <2>3
  <2> QED
    BY <1>2, <2>4 DEF WellFormedDiff, Fits
<1>7. ASSUME tool = "vulnscanner", input.ecosystem = "go"
      PROVE  WellFormedManifest(source')
  <2>1. \A k \in 0..N : \A kind : Inside(source', k, kind) <=> Inside(source, k, kind)
    BY <1>2 DEF Inside
  <2>2. ASSUME NEW k \in 1..N
        PROVE  LET inside == Inside(source', k-1, "open") \/ Inside(source', k-1, "other")
               IN  /\ source'[k].kind \in {"module", "close"} => inside
                   /\ source'[k].kind \in {"open", "other", "require"} => ~inside
    <3>1. k - 1 \in 0..N /\ source'[k] = source[k] /\ k \in DOMAIN source
      BY <1>2
    <3> QED
      BY <1>7, <2>1, <3>1 DEF IInv, WellFormed, WellFormedManifest
  <2>3. LET inside == Inside(source', (N+1)-1, "open") \/ Inside(source', (N+1)-1, "other")
        IN  /\ source'[N+1].kind \in {"module", "close"} => inside
            /\ source'[N+1].kind \in {"open", "other", "require"} => ~inside
    <3>1. (N + 1) - 1 = N /\ N \in 0..N /\ source'[N+1] = line
      BY <1>2
    <3> DEFINE in == Inside(source, N, "open")
               out == Inside(source, N, "other")
    <3>2. (CASE line.kind = "module" /\ input.ecosystem = "go" -> in \/ out
             [] line.kind \in {"open", "other", "require"} -> ~in /\ ~out
             [] line.kind = "close" -> in \/ out
             [] OTHER -> TRUE)
      BY <1>1, <1>7 DEF MayFollow, Inside, N
    <3>3. (in <=> Inside(source', N, "open")) /\ (out <=> Inside(source', N, "other"))
      BY <2>1, <3>1
    <3> HIDE DEF in, out
    <3>4. line.kind = "module" => in \/ out
      BY <1>7, <3>2
    <3>5. line.kind \in {"open", "other", "require"} => ~in /\ ~out
      BY <3>2
    <3>6. line.kind = "close" => in \/ out
      BY <3>2
    <3> QED
      BY <3>1, <3>3, <3>4, <3>5, <3>6
  <2> QED
    BY <1>2, <1>4, <2>2, <2>3 DEF WellFormedManifest
<1>8. ASSUME tool \in DirectoryTools
      PROVE  WellFormedTree(source')
  <2> DEFINE Fits(tree, k) ==
               IF tree[k].kind = "file"
               THEN \A j \in 1..k-1 : tree[j].kind = "file" => tree[j].name < tree[k].name
               ELSE k # 1
  <2>1. \A k \in 1..N : Fits(source, k)
    BY <1>2, <1>8 DEF IInv, WellFormed, WellFormedTree
  <2>2. ASSUME NEW k \in 1..N
        PROVE  Fits(source', k)
    <3>1. source'[k] = source[k] /\ \A j \in 1..k-1 : source'[j] = source[j]
      BY <1>2
    <3> QED
      BY <2>1, <3>1
  <2>3. Fits(source', N + 1)
    <3>1. source'[N+1] = line /\ (N + 1) - 1 = N
      BY <1>2
    <3>2. IF line.kind = "file"
          THEN \A k \in Files(source) : source[k].name < line.name
          ELSE source # <<>>
      BY <1>1, <1>8 DEF MayFollow, DirectoryTools
    <3>3. ASSUME line.kind = "file", NEW j \in 1..N, source'[j].kind = "file"
          PROVE  source'[j].name < line.name
      BY <1>2, <3>2, <3>3 DEF Files
    <3>4. ASSUME line.kind # "file"
          PROVE  N + 1 # 1
      BY <1>2, <1>3, <3>2, <3>4
    <3> QED
      BY <3>1, <3>3, <3>4
  <2> HIDE DEF Fits
  <2>4. \A k \in 1..N+1 : Fits(source', k)
    BY <1>4, <2>2, <2>3
  <2> QED
    BY <1>2, <2>4 DEF WellFormedTree, Fits
<1> QED
  BY <1>1, <1>6, <1>7, <1>8 DEF WellFormed

\* The invariant holds where nothing is written yet.
LEMMA Initially == Init => IInv
<1> SUFFICES ASSUME Init
             PROVE  IInv
  OBVIOUS
<1>1. source = <<>> /\ work = None /\ stage = <<>> /\ stored = <<>> /\ answer = None
  BY DEF Init
<1>2. TypeOK
  <2>1. <<>> \in Seq(input.lines) /\ Len(<<>>) = 0 /\ DOMAIN <<>> = {}
    OBVIOUS
  <2>2. input.maxLines \in Nat
    BY ScannersAssumption DEF Init
  <2>3. tool \in DOMAIN Inputs /\ input \in Inputs[tool] /\ expired = FALSE
    BY DEF Init
  <2>4. source \in Seq(input.lines) /\ Len(source) <= input.maxLines
    BY <1>1, <2>1, <2>2
  <2>5. \A name \in DOMAIN stored : stored[name] \in DOMAIN work
    BY <1>1, <2>1
  <2> QED
    BY <1>1, <2>3, <2>4, <2>5 DEF TypeOK
<1>3. WellFormed
  <2>1. DOMAIN source = {}
    BY <1>1
  <2> QED
    BY <2>1 DEF WellFormed, WellFormedDiff, WellFormedManifest, WellFormedTree
<1>4. Owned
  <2>1. DOMAIN stage = {}
    BY <1>1
  <2> QED
    BY <1>1, <2>1 DEF Owned, MigratedSecretIsItsOwn, InStage
<1> QED
  BY <1>1, <1>2, <1>3, <1>4 DEF IInv, DirectoryAnswered, ManifestAnswered, DiffAnswered

\* A line more keeps the form of the text; nothing has been made of it yet.
LEMMA WriteStep ==
  ASSUME IInv, NEW line \in input.lines, Write(line)
  PROVE  IInv'
<1>1. WellFormed'
  BY WriteKeepsForm
<1>2. /\ work = None /\ answer = None /\ work' = None /\ answer' = None
      /\ source' = Append(source, line) /\ Len(source) < input.maxLines
      /\ UNCHANGED <<tool, input, stage, stored, expired>>
  BY DEF Write
<1>3. stage = <<>> /\ stored = <<>>
  BY <1>2 DEF IInv, Owned
<1>4. TypeOK'
  <2>1. source' \in Seq(input.lines) /\ Len(source') = Len(source) + 1 /\ Len(source) \in Nat
    BY <1>2, AppendKeeps DEF IInv, TypeOK
  <2>2. input.maxLines \in Nat
    BY ScannersAssumption DEF IInv, TypeOK
  <2>3. DOMAIN stored' = {}
    BY <1>2, <1>3
  <2> QED
    BY <1>2, <1>3, <2>1, <2>2, <2>3 DEF IInv, TypeOK
<1>5. Owned'
  <2>1. DOMAIN stage' = {}
    BY <1>2, <1>3
  <2> QED
    BY <1>2, <1>3, <2>1 DEF Owned, MigratedSecretIsItsOwn, InStage
<1> QED
  BY <1>1, <1>2, <1>4, <1>5 DEF IInv, DirectoryAnswered, ManifestAnswered, DiffAnswered

\* What an action leaves alone that changes nothing but the answer.
LEMMA AnswerKeeps ==
  ASSUME IInv, UNCHANGED <<tool, input, source, work, stage, stored, expired>>
  PROVE  TypeOK' /\ WellFormed' /\ Owned'
<1>1. TypeOK'
  BY DEF IInv, TypeOK
<1>2. WellFormed'
  BY DEF IInv, WellFormed
<1>3. Owned'
  BY DEF IInv, Owned, MigratedSecretIsItsOwn, InStage
<1> QED
  BY <1>1, <1>2, <1>3

\* The tools that answer in one step answer about all that is written.
LEMMA DirectoryStep ==
  ASSUME IInv, ScanDirectory \/ AnalyzeFunctions \/ AnalyzeAccess \/ ScanTimesOut \/ AnalyzeCosts
  PROVE  IInv'
<1>1. UNCHANGED <<tool, input, source, work, stage, stored, expired>> /\ answer = None
  BY DEF ScanDirectory, AnalyzeFunctions, AnalyzeAccess, ScanTimesOut, AnalyzeCosts
<1>2. TypeOK' /\ WellFormed' /\ Owned'
  BY <1>1, AnswerKeeps
<1>3. tool \notin {"vulnscanner", "envguard"}
  BY DEF ScanDirectory, AnalyzeFunctions, AnalyzeAccess, ScanTimesOut, AnalyzeCosts
<1>4. ManifestAnswered' /\ DiffAnswered'
  BY <1>1, <1>3 DEF ManifestAnswered, DiffAnswered
<1>5. DirectoryAnswered'
  <2>1. CASE ScanDirectory
    BY <1>1, <2>1 DEF ScanDirectory, DirectoryAnswered
  <2>2. CASE AnalyzeFunctions
    BY <1>1, <2>2 DEF AnalyzeFunctions, DirectoryAnswered
  <2>3. CASE AnalyzeAccess
    BY <1>1, <2>3 DEF AnalyzeAccess, DirectoryAnswered
  <2>4. CASE ScanTimesOut
    <3>1. answer'.error = TRUE
      BY <2>4 DEF ScanTimesOut
    <3> QED
      BY <1>1, <2>4, <3>1 DEF ScanTimesOut, DirectoryAnswered
  <2>5. CASE AnalyzeCosts
    BY <1>1, <2>5 DEF AnalyzeCosts, DirectoryAnswered
  <2> QED
    BY <2>1, <2>2, <2>3, <2>4, <2>5
<1> QED
  BY <1>2, <1>4, <1>5 DEF IInv

\* The steps of vulnscanner: the dependencies are those of the manifest.
LEMMA ManifestStep ==
  ASSUME IInv
  PROVE  /\ ReadManifest => IInv'
         /\ \A database \in Databases : \A order \in SetToSeqs(Affected(database)) :
               QueryAnswers(database, order) => IInv'
         /\ QueryFails => IInv'
<1>1. ASSUME ReadManifest
      PROVE  IInv'
  <2>1. /\ tool = "vulnscanner" /\ work = None /\ source # <<>>
        /\ work' = ParseManifest(input.ecosystem, source)
        /\ UNCHANGED <<tool, input, source, stage, stored, expired, answer>>
    BY <1>1 DEF ReadManifest
  <2>2. stage = <<>> /\ stored = <<>> /\ answer = None
    BY <2>1 DEF IInv, Owned, ManifestAnswered
  <2>3. DOMAIN stage' = {} /\ DOMAIN stored' = {}
    BY <2>1, <2>2
  <2>4. TypeOK'
    BY <2>1, <2>2, <2>3 DEF IInv, TypeOK
  <2>5. WellFormed'
    BY <2>1 DEF IInv, WellFormed
  <2>6. Owned'
    BY <2>1, <2>2, <2>3 DEF Owned, MigratedSecretIsItsOwn, InStage
  <2>7. DirectoryAnswered' /\ ManifestAnswered' /\ DiffAnswered'
    BY <2>1, <2>2 DEF DirectoryAnswered, ManifestAnswered, DiffAnswered
  <2> QED
    BY <2>4, <2>5, <2>6, <2>7 DEF IInv
<1>2. ASSUME NEW database \in Databases, NEW order \in SetToSeqs(Affected(database)),
             QueryAnswers(database, order)
      PROVE  IInv'
  <2>1. /\ tool = "vulnscanner" /\ work # None
        /\ answer' = HandleVulnScan(work, FlattenSeq(FoundFor(database, order)), FALSE)
        /\ UNCHANGED <<tool, input, source, work, stage, stored, expired>>
    BY <1>2 DEF QueryAnswers, FoundFor
  <2>2. TypeOK' /\ WellFormed' /\ Owned'
    BY <2>1, AnswerKeeps
  <2>3. Affected(database)' = Affected(database)
    BY <2>1 DEF Affected
  <2>4. ManifestAnswered'
    BY <2>1, <2>3 DEF IInv, ManifestAnswered
  <2>5. DirectoryAnswered' /\ DiffAnswered'
    BY <2>1 DEF DirectoryAnswered, DiffAnswered
  <2> QED
    BY <2>2, <2>4, <2>5 DEF IInv
<1>3. ASSUME QueryFails
      PROVE  IInv'
  <2>1. /\ tool = "vulnscanner" /\ work # None /\ answer' = HandleVulnScan(work, <<>>, TRUE)
        /\ UNCHANGED <<tool, input, source, work, stage, stored, expired>>
    BY <1>3 DEF QueryFails
  <2>2. TypeOK' /\ WellFormed' /\ Owned'
    BY <2>1, AnswerKeeps
  <2>3. DirectoryAnswered' /\ ManifestAnswered' /\ DiffAnswered'
    BY <2>1 DEF IInv, DirectoryAnswered, ManifestAnswered, DiffAnswered
  <2> QED
    BY <2>2, <2>3 DEF IInv
<1> QED
  BY <1>1, <1>2, <1>3

\* A diff is made of such lines.
LEMMA LinesOfDiff ==
  ASSUME TypeOK, tool = "envguard"
  PROVE  source \in Seq(input.lines) /\ \A line \in input.lines : IsDiffLine(line)
BY InputsAssumption DEF TypeOK

\* The findings are put into the work, or answered, before anything is migrated.
LEMMA ScanDiffStep ==
  ASSUME IInv, ScanDiff
  PROVE  IInv'
<1> DEFINE scanned == HandleEnvGuard(source, input.ignored)
<1>1. /\ tool = "envguard" /\ work = None /\ work' = scanned.findings
      /\ \/ stage' = [n \in DOMAIN scanned.findings |-> "waiting"] /\ answer' = answer
         \/ answer' = scanned /\ stage' = stage
      /\ UNCHANGED <<tool, input, source, stored, expired>>
  BY DEF ScanDiff
<1>2. stage = <<>> /\ stored = <<>> /\ DOMAIN stored = {}
  BY <1>1 DEF IInv, Owned
<1>3. scanned.findings \in Seq(Secrets)
  BY <1>1, LinesOfDiff, AnsweredSecrets DEF IInv
<1>4. work' # None
  BY <1>1, <1>3, ScannersAssumption
<1> HIDE DEF scanned
<1>5. TypeOK'
  <2>1. tool' = "envguard" /\ tool' \in DOMAIN Inputs /\ input' \in Inputs[tool']
    BY <1>1 DEF IInv, TypeOK
  <2>2. stage' # <<>> => stage' \in [DOMAIN work' -> Stages]
    BY <1>1, <1>2 DEF Stages
  <2> QED
    BY <1>1, <1>2, <2>1, <2>2 DEF IInv, TypeOK
<1>6. WellFormed'
  BY <1>1 DEF IInv, WellFormed
<1>7. Owned'
  <2>1. \A n \in DOMAIN stage' : stage'[n] # "migrated"
    BY <1>1, <1>2
  <2> QED
    BY <1>1, <1>2, <1>4, <2>1 DEF Owned, MigratedSecretIsItsOwn, InStage
<1>8. DiffAnswered'
  <2>1. answer # None => answer.findings = scanned.findings
    BY <1>1 DEF IInv, DiffAnswered, scanned
  <2> QED
    BY <1>1, <2>1 DEF DiffAnswered, scanned
<1>9. DirectoryAnswered' /\ ManifestAnswered'
  BY <1>1 DEF DirectoryAnswered, ManifestAnswered
<1> QED
  BY <1>5, <1>6, <1>7, <1>8, <1>9 DEF IInv

\* A step of the migration of finding n: what it may change.
Moves(n, to) ==
    /\ stage' = [stage EXCEPT ![n] = to]
    /\ UNCHANGED <<tool, input, source, work, expired, answer>>

\* A step of one goroutine: it stores at most a secret whose name is not taken, and only
\* with this is its finding migrated.
LEMMA MigrationStep ==
  ASSUME IInv, NEW n \in DOMAIN stage, NEW to \in Stages, Moves(n, to),
         \/ stored' = stored /\ to # "migrated"
         \/ stored' = Store(n) /\ Name(work[n]) \notin DOMAIN stored
  PROVE  IInv'
<1>1. UNCHANGED <<tool, input, source, work, expired, answer>> /\ stage' = [stage EXCEPT ![n] = to]
  BY DEF Moves
<1>2. /\ stage # <<>> /\ tool = "envguard" /\ stage \in [DOMAIN work -> Stages] /\ work # None
      /\ \A name \in DOMAIN stored : stored[name] \in DOMAIN work
  <2>1. stage # <<>>
    OBVIOUS
  <2> QED
    BY <2>1 DEF IInv, TypeOK, Owned
<1>3. /\ stage' \in [DOMAIN work -> Stages] /\ DOMAIN stage' = DOMAIN stage
      /\ stage'[n] = to /\ \A m \in DOMAIN stage : m # n => stage'[m] = stage[m]
      /\ n \in DOMAIN work
  BY <1>1, <1>2
<1>4. stage' # <<>>
  BY <1>3
<1>5. ASSUME stored' = Store(n)
      PROVE  /\ DOMAIN stored' = DOMAIN stored \cup {Name(work[n])}
             /\ stored'[Name(work[n])] = n
             /\ \A name \in DOMAIN stored : name # Name(work[n]) => stored'[name] = stored[name]
  BY <1>5 DEF Store
<1>6. TypeOK'
  <2>1. \A name \in DOMAIN stored' : stored'[name] \in DOMAIN work
    BY <1>2, <1>3, <1>5
  <2> QED
    BY <1>1, <1>2, <1>3, <2>1 DEF IInv, TypeOK
<1>7. MigratedSecretIsItsOwn'
  <2> SUFFICES ASSUME NEW m \in DOMAIN stage', stage'[m] = "migrated"
               PROVE  Name(work[m]) \in DOMAIN stored' /\ stored'[Name(work[m])] = m
    BY <1>1 DEF MigratedSecretIsItsOwn, InStage, Name
  <2>1. CASE m = n
    BY <1>3, <1>5, <2>1
  <2>2. CASE m # n
    <3>1. Name(work[m]) \in DOMAIN stored /\ stored[Name(work[m])] = m
      BY <1>3, <2>2 DEF IInv, Owned, MigratedSecretIsItsOwn, InStage
    <3> QED
      BY <1>5, <3>1
  <2> QED
    BY <2>1, <2>2
<1>8. Owned'
  BY <1>1, <1>2, <1>4, <1>7 DEF Owned
<1>9. WellFormed'
  BY <1>1 DEF IInv, WellFormed
<1>10. DiffAnswered'
  BY <1>1 DEF IInv, DiffAnswered
<1>11. DirectoryAnswered' /\ ManifestAnswered'
  BY <1>1, <1>2 DEF DirectoryAnswered, ManifestAnswered
<1> QED
  BY <1>6, <1>8, <1>9, <1>10, <1>11 DEF IInv

\* Every step keeps the invariant.
LEMMA Step == IInv /\ [Next]_vars => IInv'
<1> SUFFICES ASSUME IInv, [Next]_vars
             PROVE  IInv'
  OBVIOUS
<1>1. CASE UNCHANGED vars
  BY ZenonT(60), <1>1
     DEF vars, IInv, TypeOK, WellFormed, DirectoryAnswered, ManifestAnswered, DiffAnswered,
         Owned, MigratedSecretIsItsOwn, InStage, Affected
<1>2. ASSUME NEW line \in input.lines, Write(line)
      PROVE  IInv'
  BY <1>2, WriteStep
<1>3. CASE ScanDirectory \/ AnalyzeFunctions \/ AnalyzeAccess \/ ScanTimesOut \/ AnalyzeCosts
  BY <1>3, DirectoryStep
<1>4. CASE ReadManifest \/ QueryFails
  BY <1>4, ManifestStep
<1>5. ASSUME NEW database \in Databases, NEW order \in SetToSeqs(Affected(database)),
             QueryAnswers(database, order)
      PROVE  IInv'
  BY <1>5, ManifestStep
<1>6. CASE ScanDiff
  BY <1>6, ScanDiffStep
<1>7. ASSUME NEW n \in DOMAIN stage,
             Go(n) \/ Admit(n) \/ Throttle(n) \/ Create(n) \/ CreateFails(n)
      PROVE  IInv'
  <2>1. {"limiter", "calling", "throttled", "migrated", "failed"} \subseteq Stages
    BY DEF Stages, Working, Unmigrated
  <2>2. CASE Go(n)
    BY <2>1, <2>2, MigrationStep DEF Go, Moves
  <2>3. CASE Admit(n)
    BY <2>1, <2>3, MigrationStep DEF Admit, Moves
  <2>4. CASE Throttle(n)
    BY <2>1, <2>4, MigrationStep DEF Throttle, Moves
  <2>5. CASE Create(n)
    BY <2>1, <2>5, MigrationStep DEF Create, Moves
  <2>6. CASE CreateFails(n)
    BY <2>1, <2>6, MigrationStep DEF CreateFails, Moves
  <2> QED
    BY <1>7, <2>2, <2>3, <2>4, <2>5, <2>6
<1>8. CASE Expire
  <2>1. UNCHANGED <<tool, input, source, work, stage, stored, answer>> /\ expired' = TRUE
    BY <1>8 DEF Expire
  <2> QED
    BY ZenonT(60), <2>1
       DEF IInv, TypeOK, WellFormed, DirectoryAnswered, ManifestAnswered, DiffAnswered,
           Owned, MigratedSecretIsItsOwn, InStage, Affected
<1>9. CASE Migrated
  <2>1. /\ stage # <<>> /\ answer' = [blocked |-> TRUE, findings |-> work]
        /\ UNCHANGED <<tool, input, source, work, stage, stored, expired>>
    BY <1>9 DEF Migrated
  <2>2. TypeOK' /\ WellFormed' /\ Owned'
    BY <2>1, AnswerKeeps
  <2>3. tool = "envguard" /\ work # None
    BY <2>1 DEF IInv, TypeOK, Owned
  <2>4. DirectoryAnswered' /\ ManifestAnswered'
    BY <2>1, <2>3 DEF DirectoryAnswered, ManifestAnswered
  <2>5. DiffAnswered'
    <3>1. answer'.findings = work
      BY <2>1
    <3> QED
      BY <2>1, <2>3, <3>1 DEF IInv, DiffAnswered
  <2> QED
    BY <2>2, <2>4, <2>5 DEF IInv
<1> QED
  BY <1>1, <1>2, <1>3, <1>4, <1>5, <1>6, <1>7, <1>8, <1>9 DEF Next

-----------------------------------------------------------------------------
(* The theorems.                                                           *)

\* The invariant holds in every state.
THEOREM Invariance == Spec => []IInv
<1>1. Init => IInv
  BY Initially
<1>2. IInv /\ [Next]_vars => IInv'
  BY Step
<1> QED
  BY <1>1, <1>2, PTL DEF Spec

\* Whatever the requests, the variables stay in their types.
THEOREM TypeCorrect == Spec => []TypeOK
<1>1. IInv => TypeOK
  BY DEF IInv
<1> QED
  BY <1>1, Invariance, PTL

\* Whatever the number of goroutines, and whatever fails or is stored under a name that
\* is taken, a finding that is answered as migrated has its own secret in AWS.
THEOREM MigratedIsOwn == Spec => []MigratedSecretIsItsOwn
<1>1. IInv => MigratedSecretIsItsOwn
  BY DEF IInv, Owned
<1> QED
  BY <1>1, Invariance, PTL

\* In a diff of any length every secret that is added is reported at the place of its line
\* in the new file.
THEOREM SecretsAreLocated == Spec => []SecretsLocated
<1>1. IInv => SecretsLocated
  <2> SUFFICES ASSUME IInv, tool = "envguard", answer # None
               PROVE  SecretsLocated
    BY DEF SecretsLocated
  <2> DEFINE secrets == {k \in DOMAIN source : source[k].kind = "added" /\ source[k].secrets # <<>>}
             wanted == {f \in UNION {Places(source, k) : k \in {j \in secrets : ~Misled(source, j)}} :
                           f.file \notin input.ignored /\ f.type \notin input.ignored}
  <2>1. source \in Seq(input.lines) /\ \A line \in input.lines : IsDiffLine(line)
    BY LinesOfDiff DEF IInv
  <2>2. WellFormedDiff(source)
    BY DEF IInv, WellFormed
  <2>3. answer.findings = HandleEnvGuard(source, input.ignored).findings
    BY DEF IInv, DiffAnswered
  <2>4. /\ wanted \subseteq Range(answer.findings)
        /\ (\A k \in secrets : ~Misled(source, k)) => Range(answer.findings) = wanted
    BY <2>1, <2>2, <2>3, SecretsFound
  <2> QED
    BY <2>4, Zenon DEF SecretsLocated, Places
<1> QED
  BY <1>1, Invariance, PTL

\* A manifest is made of lines of its format.
LEMMA LinesOfManifest ==
  ASSUME TypeOK, tool = "vulnscanner", source # <<>>
  PROVE  /\ source \in Seq(input.lines)
         /\ \A line \in input.lines : IsManifestLine(input.ecosystem, line)
         /\ input.ecosystem \in {"go", "pip", "npm"}
<1>1. source \in Seq(input.lines) /\ \A line \in input.lines : IsManifestLine(input.ecosystem, line)
  BY InputsAssumption DEF TypeOK
<1>2. \E line \in input.lines : TRUE
  <2>1. 1 \in 1..Len(source)
    BY <1>1, LenProperties, EmptySeq
  <2> QED
    BY <1>1, <2>1, ElementOfSeq
<1> QED
  BY <1>1, <1>2 DEF IsManifestLine

\* In a manifest of any length, of whichever format, the dependencies that are read are
\* those that are there, and for go.mod and requirements.txt in their order.
THEOREM RequirementsAreRead == Spec => []RequirementsRead
<1>1. IInv => RequirementsRead
  <2> SUFFICES ASSUME IInv, tool = "vulnscanner", work # None
               PROVE  RequirementsRead
    BY DEF RequirementsRead
  <2> DEFINE wanted == {k \in DOMAIN source : Required(input.ecosystem, source, k)}
  <2>1. source # <<>> /\ work = ParseManifest(input.ecosystem, source)
    BY DEF IInv, ManifestAnswered
  <2>2. /\ source \in Seq(input.lines)
        /\ \A line \in input.lines : IsManifestLine(input.ecosystem, line)
        /\ input.ecosystem \in {"go", "pip", "npm"}
    BY <2>1, LinesOfManifest DEF IInv
  <2>3. input.ecosystem = "go" => WellFormedManifest(source)
    BY DEF IInv, WellFormed
  <2>4. /\ input.ecosystem # "npm" =>
              /\ Len(work) = Cardinality(wanted)
              /\ \A k \in wanted : work[Rank(wanted, k)] = source[k].dep
        /\ input.ecosystem = "npm" =>
              \A k \in wanted : source[k].dep.version # "" => source[k].dep \in Range(work)
    BY ZenonT(60), <2>1, <2>2, <2>3, DependenciesRead
  <2> QED
    BY <2>4, Zenon DEF RequirementsRead, Required, BlockOf
<1> QED
  BY <1>1, Invariance, PTL

\* What the database can know of the dependencies is about finitely many packages.
LEMMA AffectedFinite ==
  ASSUME NEW X, work \in Seq(X), NEW database
  PROVE  IsFiniteSet(Affected(database)) /\ Affected(database) \subseteq DOMAIN database
<1> DEFINE names == {work[d].name : d \in DOMAIN work}
           f == [d \in 1..Len(work) |-> work[d].name]
<1>1. DOMAIN work = 1..Len(work) /\ Len(work) \in Nat
  BY LenProperties
<1>2. IsFiniteSet(1..Len(work))
  <2>1. 1 \in Int /\ Len(work) \in Int
    BY <1>1
  <2> QED
    BY <2>1, FS_Interval
<1>3. f \in Surjection(1..Len(work), names)
  BY <1>1 DEF Surjection
<1> HIDE DEF f, names
<1>4. IsFiniteSet(names)
  BY <1>2, <1>3, FS_Surjection
<1>5. Affected(database) \subseteq names /\ Affected(database) \subseteq DOMAIN database
  BY DEF Affected, names
<1> QED
  BY <1>4, <1>5, FS_Subset

\* Whatever the databases, and whatever the order in which their answer is gone through,
\* every vulnerability is a finding once and the worst ones go to the background.
THEOREM WorstAreEnriched == Spec => []WorstEnriched
<1>1. IInv => WorstEnriched
  <2> SUFFICES ASSUME IInv, tool = "vulnscanner", answer # None
               PROVE  WorstEnriched
    BY DEF WorstEnriched
  <2> DEFINE all == Range(answer.findings)
             top == Range(answer.enriched)
             known(database) == UNION {{<<name, vuln.id>> : vuln \in Range(database[name])} :
                                          name \in Affected(database)}
  <2>1. work # None /\ work = ParseManifest(input.ecosystem, source) /\ source # <<>>
    BY DEF IInv, ManifestAnswered
  <2>2. work \in Seq(Dependencies)
    <3>1. /\ source \in Seq(input.lines)
          /\ \A line \in input.lines : IsManifestLine(input.ecosystem, line)
          /\ input.ecosystem \in {"go", "pip", "npm"}
      BY <2>1, LinesOfManifest DEF IInv
    <3>2. input.ecosystem = "go" => WellFormedManifest(source)
      BY DEF IInv, WellFormed
    <3> QED
      BY <2>1, <3>1, <3>2, DependenciesRead
  <2>3. ASSUME NEW F, NEW found \in Seq(F), IsInjective(found), \A f \in F : f.severity \in Nat,
               NEW failed, answer = HandleVulnScan(work, found, failed)
        PROVE  /\ answer.scanError = failed /\ all = Range(found)
               /\ Cardinality(all) = Len(answer.findings)
               /\ \A f \in top, g \in all \ top : f.severity >= g.severity
    BY <2>3, WorstFirst
  <2>4. CASE answer = HandleVulnScan(work, <<>>, TRUE)
    <3>1. <<>> \in Seq({}) /\ IsInjective(<<>>) /\ Range(<<>>) = {}
      BY DEF IsInjective, Range
    <3>2. /\ answer.scanError = TRUE /\ all = {}
          /\ Cardinality(all) = Len(answer.findings)
          /\ \A f \in top, g \in all \ top : f.severity >= g.severity
      BY <2>3, <2>4, <3>1
    <3>3. answer.findings = <<>>
      <4>1. answer.findings \in Seq({})
        BY <2>4, <3>1, SortedIsSorted DEF HandleVulnScan
      <4> QED
        BY <4>1
    <3> QED
      BY <3>2, <3>3 DEF WorstEnriched
  <2>5. ASSUME NEW database \in Databases, NEW order \in SetToSeqs(Affected(database)),
               answer = HandleVulnScan(work, FlattenSeq(FoundFor(database, order)), FALSE)
        PROVE  WorstEnriched
    <3> DEFINE F == UNION {FindingsOf(database, name) : name \in Affected(database)}
               found == FlattenSeq(FoundFor(database, order))
    <3>1. IsDatabase(database)
      BY ScannersAssumption
    <3>2. IsFiniteSet(Affected(database)) /\ Affected(database) \subseteq DOMAIN database
      BY <2>2, AffectedFinite
    <3>3. /\ found \in Seq(F) /\ Range(found) = F /\ IsInjective(found)
          /\ \A f \in F : f.severity \in Nat
          /\ {<<f.package, f.id>> : f \in F} = known(database)
      BY <3>1, <3>2, FoundOnce, Zenon
    <3> HIDE DEF F, found, known
    <3>4. /\ answer.scanError = FALSE /\ all = F
          /\ Cardinality(all) = Len(answer.findings)
          /\ \A f \in top, g \in all \ top : f.severity >= g.severity
      BY <2>3, <2>5, <3>3 DEF found
    <3>5. known(database) = {<<f.package, f.id>> : f \in all}
      BY <3>3, <3>4
    <3> HIDE DEF all, top
    <3>6. WorstEnriched <=>
             /\ answer.scanError => answer.findings = <<>>
             /\ Cardinality(all) = Len(answer.findings)
             /\ answer.scanError \/ \E d \in Databases : known(d) = {<<f.package, f.id>> : f \in all}
             /\ \A f \in top, g \in all \ top : f.severity >= g.severity
      BY Zenon DEF WorstEnriched, all, top, known
    <3> QED
      BY <3>4, <3>5, <3>6
  <2> QED
    BY <2>4, <2>5 DEF IInv, ManifestAnswered
<1> QED
  BY <1>1, Invariance, PTL

\* A directory is made of files, which are ordered, and of what its tool reads of them.
LEMMA LinesOfTree ==
  ASSUME TypeOK, tool \in DirectoryTools
  PROVE  /\ source \in Seq(input.lines) /\ Sized(input.lines)
         /\ tool = "piiguard" => \A line \in input.lines : IsTreeLine(line)
         /\ tool = "lambdaguard" =>
               \A line \in input.lines : line.kind = "file" => line.format \in Formats
BY InputsAssumption DEF TypeOK, DirectoryTools, Sized

\* In a directory of any size every leak on a line that does not begin like a comment is
\* reported once, whatever else is there, and nothing on any other line is reported.
THEOREM LeaksAreReported == Spec => []LeaksReported
<1>1. IInv => LeaksReported
  <2> SUFFICES ASSUME IInv, tool = "piiguard", answer # None, ~answer.error
               PROVE  LeaksReported
    BY DEF LeaksReported
  <2> DEFINE severe == {f \in AllLeaks(source, input.names, input.entropyCheck) :
                           Level(f.severity) >= Level(input.threshold)}
  <2>1. answer = HandlePIIGuard(source, input.names, input.entropyCheck, input.threshold)
    BY DEF IInv, DirectoryAnswered
  <2>2. /\ source \in Seq(input.lines) /\ Sized(input.lines) /\ WellFormedTree(source)
        /\ \A line \in input.lines : IsTreeLine(line)
    BY LinesOfTree DEF IInv, WellFormed, DirectoryTools
  <2>3. Range(answer.findings) = severe /\ Len(answer.findings) = Cardinality(severe)
    BY <2>1, <2>2, LeaksListed
  <2>4. VisibleLeaks = severe
    BY Zenon DEF VisibleLeaks, AllLeaks, LeaksOn, LeakAt, Leaks, Matching, Asked, Real, Plain
  <2> QED
    BY <2>3, <2>4 DEF LeaksReported
<1> QED
  BY <1>1, Invariance, PTL

\* In directories of any size a timeout is that of its function, and an action that of
\* the service whose client is called; every call is listed once and counted.
THEOREM NamesAreResolved == Spec => []NamesResolved
<1>1. IInv => NamesResolved
  <2> SUFFICES ASSUME IInv, tool \in {"lambdaguard", "iamguard"}, answer # None, ~answer.error
               PROVE  NamesResolved
    BY DEF NamesResolved
  <2>1. source \in Seq(input.lines) /\ Sized(input.lines) /\ WellFormedTree(source)
    BY LinesOfTree DEF IInv, WellFormed, DirectoryTools
  <2>2. CASE tool = "lambdaguard"
    <3>1. answer = HandleLambdaGuard(source, input.checks, input.threshold)
      BY <2>2 DEF IInv, DirectoryAnswered
    <3>2. answer.functions = ParseLambdaConfigs(source)
      BY <3>1 DEF HandleLambdaGuard
    <3>3. \A line \in input.lines : line.kind = "file" => line.format \in Formats
      BY <2>2, LinesOfTree DEF IInv, DirectoryTools
    <3> DEFINE c(n) == answer.functions[n]
    <3>4. ASSUME NEW f \in Files(source), NEW n \in DOMAIN answer.functions,
                 source[f].format = "terraform" /\ c(n).file = source[f].name,
                 NEW k \in Own(source, f, c(n).name),
                 Own(source, f, c(n).name) = {k} /\ Simple(source, f, k)
          PROVE  c(n).timeout =
                    (IF \/ Timeouts(source, f, k) = {}
                        \/ source[Max(Timeouts(source, f, k))].gives.timeout = 0
                     THEN 3 ELSE source[Max(Timeouts(source, f, k))].gives.timeout)
      BY <2>1, <3>2, <3>3, <3>4, TimeoutResolved
    <3>5. tool # "iamguard"
      BY <2>2
    <3> QED
      BY <3>4, <3>5, Zenon DEF NamesResolved, Own, Simple, Timeouts, Given, End, After
  <2>3. CASE tool = "iamguard"
    <3>1. answer.usages = Usages(source) /\ answer.actions = DeduplicateActions(Usages(source))
      BY <2>3 DEF IInv, DirectoryAnswered, HandleIAMGuard
    <3> DEFINE usages == answer.usages
               actions == answer.actions
               services(k) == Services(source, FileOf(source, k), source[k].name)
               listed(k) == {n \in DOMAIN usages :
                                usages[n].file = source[FileOf(source, k)].name
                                /\ usages[n].line = k - FileOf(source, k)}
               read(f) == source[f].format = "go" /\ source[f].traits = {}
    <3>2. ASSUME NEW k \in {j \in DOMAIN source : source[j].kind = "call"}, read(FileOf(source, k))
          PROVE  /\ Cardinality(listed(k)) = (IF services(k) = {} THEN 0 ELSE 1)
                 /\ Cardinality(services(k)) = 1 =>
                       \A n \in listed(k), s \in services(k) :
                           usages[n].action = <<s, source[k].method>>
      <4>1. /\ k \in DOMAIN source /\ source[k].kind = "call"
            /\ source[FileOf(source, k)].format = "go"
            /\ source[FileOf(source, k)].traits = {}
        BY <3>2
      <4>2. LET f == FileOf(source, k)
                provided == Services(source, f, source[k].name)
                made == Usages(source)
                of == {n \in DOMAIN made : made[n].file = source[f].name /\ made[n].line = k - f}
            IN  /\ Cardinality(of) = (IF provided = {} THEN 0 ELSE 1)
                /\ Cardinality(provided) = 1 =>
                      \A n \in of, s \in provided : made[n].action = <<s, source[k].method>>
        <5> HIDE DEF usages, actions, services, listed, read
        <5> QED
          BY <2>1, <4>1, CallResolved
      <4>3. answer.usages = Usages(source)
        BY <3>1
      <4> QED
        BY <4>2, <4>3, Zenon
    <3>3. usages \in Seq(Range(usages))
      BY <2>1, <3>1, UsagesListed
    <3>4. /\ \A n \in DOMAIN actions :
                actions[n].count =
                   Cardinality({u \in DOMAIN usages : usages[u].action = actions[n].action})
          /\ {actions[n].action : n \in DOMAIN actions} = {usages[u].action : u \in DOMAIN usages}
      <4>1. answer.actions = DeduplicateActions(answer.usages)
        BY <3>1
      <4>2. answer.usages \in Seq(Range(answer.usages))
        BY <3>3
      <4> DEFINE made == DeduplicateActions(answer.usages)
      <4>3. /\ \A n \in DOMAIN made :
                  made[n].count = Cardinality({u \in DOMAIN answer.usages :
                                                 answer.usages[u].action = made[n].action})
            /\ {made[n].action : n \in DOMAIN made}
                   = {answer.usages[u].action : u \in DOMAIN answer.usages}
        <5> HIDE DEF usages, actions, services, listed, read
        <5> QED
          BY <4>2, ActionsCounted
      <4>4. made = actions
        BY <4>1
      <4> HIDE DEF made
      <4>5. \A n \in DOMAIN actions :
               actions[n].count =
                  Cardinality({u \in DOMAIN usages : usages[u].action = actions[n].action})
        BY <4>3, <4>4, Zenon
      <4>6. {made[n].action : n \in DOMAIN made} = {actions[n].action : n \in DOMAIN actions}
        BY <4>4
      <4> QED
        BY <4>3, <4>5, <4>6, Zenon
    <3>5. tool # "lambdaguard"
      BY <2>3
    <3> QED
      BY <3>2, <3>4, <3>5, Zenon DEF NamesResolved, Services, ServiceOf, Imported, Assigned
  <2> QED
    BY <2>2, <2>3
<1> QED
  BY <1>1, Invariance, PTL

\* A code is made of lines of its language, which is one of those that are known.
LEMMA LinesOfCode ==
  ASSUME TypeOK, tool = "finops"
  PROVE  /\ source \in Seq(input.lines)
         /\ \A line \in input.lines : IsCodeLine(Language(input.extension, input.words), line)
         /\ Language(input.extension, input.words) \in Known
BY InputsAssumption DEF TypeOK, Language, Known

\* In a code of any length, in each of the languages, a database call is reported as often
\* as it is in a loop of the text, but for what Mistaken names, and a scan without a limit
\* once.
THEOREM LoopCallsAreReported == Spec => []LoopCallsReported
<1>1. IInv => LoopCallsReported
  <2> SUFFICES ASSUME IInv, tool = "finops", answer # None, ~answer.error
               PROVE  LoopCallsReported
    BY DEF LoopCallsReported
  <2> DEFINE language == Language(input.extension, input.words)
             found == Detected(language, source)
             findings == answer.findings
             reported(type, k) ==
                 Cardinality({n \in DOMAIN findings : findings[n].type = type /\ findings[n].line = k})
  <2>1. answer = HandleFinOps(language, source, input.requests)
    BY DEF IInv, DirectoryAnswered
  <2>2. /\ source \in Seq(input.lines) /\ language \in Known
        /\ \A line \in input.lines : IsCodeLine(language, line)
    BY LinesOfCode DEF IInv
  <2> HIDE DEF language
  <2>3. source # <<>> /\ (language = "go" => Parses(source))
    BY <2>1 DEF HandleFinOps
  <2>4. \A k \in DOMAIN source :
           /\ found \in Seq(Patterns)
           /\ ~Mistaken(language, source, k) =>
                 Cardinality(PlacesOf(found, Pattern("n_plus_1_query", k)))
                    = IF "db" \in source[k].marks THEN LoopReports(language, source, k) ELSE 0
           /\ Marked(source, 1, Len(source), "limit") = {} /\ "scan" \in source[k].marks =>
                 Cardinality(PlacesOf(found, Pattern("unpaginated_scan", k))) = 1
    BY <2>2, <2>3, CostsDetected
  <2>5. found \in Seq(Patterns)
    <3>1. 1 \in DOMAIN source
      BY <2>2, <2>3, LenProperties, EmptySeq
    <3> QED
      BY <2>4, <3>1
  <2>6. \A type, k : {n \in DOMAIN findings : findings[n].type = type /\ findings[n].line = k}
                        = PlacesOf(found, Pattern(type, k))
    BY <2>1, <2>5, CostsListed
  <2> HIDE DEF found, findings
  <2>7. \A type, k : reported(type, k) = Cardinality(PlacesOf(found, Pattern(type, k)))
    BY <2>6, Zenon
  <2>8. \A k \in Marked(source, 1, Len(source), "scan") :
           k \in DOMAIN source /\ "scan" \in source[k].marks
    BY <2>2, LenProperties DEF Marked
  <2> HIDE DEF reported
  <2>9. /\ \A k \in DOMAIN source :
              ~Mistaken(language, source, k) =>
                 reported("n_plus_1_query", k) =
                    (IF "db" \in source[k].marks THEN LoopReports(language, source, k) ELSE 0)
        /\ Marked(source, 1, Len(source), "limit") = {} =>
              \A k \in Marked(source, 1, Len(source), "scan") :
                 reported("unpaginated_scan", k) = 1
    BY <2>4, <2>7, <2>8, Zenon
  <2> QED
    BY <2>9, Zenon DEF LoopCallsReported, language, reported, findings
<1> QED
  BY <1>1, Invariance, PTL

=============================================================================
