------------------------------ MODULE PartLemmas ------------------------------
(* Proofs about the arithmetic of Segments, for every file size, number of   *)
(* threads and number of servers, and about the operators of PartFiles.      *)
EXTENDS Segments, PartFiles, WellFoundedInduction, TLAPS

(* The quotient times the divisor does not exceed the dividend, and falls    *)
(* short of it by less than the divisor: the only fact about \div that the   *)
(* cutting of the file rests on.                                             *)
LEMMA DivBounds ==
    ASSUME NEW f \in Nat, NEW t \in Nat \ {0}
    PROVE  /\ f \div t \in Nat
           /\ (f \div t) * t <= f
           /\ f < (f \div t) * t + t
  BY SMT

LEMMA MulStep ==
    ASSUME NEW q \in Nat, NEW i \in Nat
    PROVE  q * (i + 1) = q * i + q
  BY SMT

LEMMA MulMono ==
    ASSUME NEW q \in Nat, NEW i \in Nat, NEW j \in Nat, i <= j
    PROVE  q * i <= q * j
  BY SMT

(* A part size and a part start are natural numbers, and the part lies       *)
(* inside the file.                                                          *)
LEMMA PartInFile ==
    ASSUME NEW f \in Nat, NEW t \in Nat \ {0}, NEW i \in Parts(t)
    PROVE  /\ PartSize(f, t, i) \in Nat
           /\ PartStart(f, t, i) \in Nat
           /\ PartStart(f, t, i) + PartSize(f, t, i) <= f
<1> DEFINE q == f \div t
<1>1. q \in Nat /\ q * t <= f
  BY DivBounds
<1>2. i \in Nat /\ i + 1 <= t
  BY DEF Parts
<1>3. q * i \in Nat /\ q * i + q <= q * t
  <2> HIDE DEF q
  <2>1. q * (i + 1) = q * i + q
    BY <1>1, <1>2, MulStep
  <2>2. q * (i + 1) <= q * t
    BY <1>1, <1>2, MulMono
  <2> QED BY <1>1, <1>2, <2>1, <2>2
<1>4. PartStart(f, t, i) = q * i
  BY DEF PartStart
<1>5. CASE i # t - 1
  <2>1. PartSize(f, t, i) = q
    BY <1>5 DEF PartSize
  <2> HIDE DEF q
  <2> QED BY <1>1, <1>3, <1>4, <2>1
<1>6. CASE i = t - 1
  <2>1. PartSize(f, t, i) = f - q * i
    BY <1>6 DEF PartSize
  <2> HIDE DEF q
  <2> QED BY <1>1, <1>3, <1>4, <2>1
<1> QED BY <1>5, <1>6

(* Consecutive parts are adjacent: where part i ends, part i + 1 starts.     *)
THEOREM PartsAdjacent ==
    ASSUME NEW f \in Nat, NEW t \in Nat \ {0}, NEW i \in 0 .. (t - 2)
    PROVE  PartStart(f, t, i) + PartSize(f, t, i) = PartStart(f, t, i + 1)
<1> DEFINE q == f \div t
<1>1. q \in Nat
  BY DivBounds
<1>2. PartSize(f, t, i) = q /\ PartStart(f, t, i) = q * i
      /\ PartStart(f, t, i + 1) = q * (i + 1)
  BY DEF PartSize, PartStart
<1> HIDE DEF q
<1> QED BY <1>1, <1>2, MulStep

(* The last part ends where the file ends.                                   *)
THEOREM LastPartEndsFile ==
    ASSUME NEW f \in Nat, NEW t \in Nat \ {0}
    PROVE  PartStart(f, t, t - 1) + PartSize(f, t, t - 1) = f
<1> DEFINE q == f \div t
<1>1. q \in Nat
  BY DivBounds
<1>2. PartSize(f, t, t - 1) = f - q * (t - 1) /\ PartStart(f, t, t - 1) = q * (t - 1)
  BY DEF PartSize, PartStart
<1>3. q * (t - 1) \in Nat
  <2> HIDE DEF q
  <2> QED BY <1>1
<1> HIDE DEF q
<1> QED BY <1>2, <1>3

(* The end of a part is the start of the next, or the end of the file: the   *)
(* two theorems above in the form a loop over the parts needs.               *)
LEMMA PartEnds ==
    ASSUME NEW f \in Nat, NEW t \in Nat \ {0}, NEW i \in Parts(t)
    PROVE  PartStart(f, t, i) + PartSize(f, t, i)
             = IF i + 1 < t THEN PartStart(f, t, i + 1) ELSE f
<1>1. CASE i + 1 < t
  <2>1. i \in 0 .. (t - 2)
    BY <1>1 DEF Parts
  <2> QED BY <1>1, <2>1, PartsAdjacent
<1>2. CASE ~(i + 1 < t)
  <2>1. i = t - 1
    BY <1>2 DEF Parts
  <2> QED BY <1>2, <2>1, LastPartEndsFile
<1> QED BY <1>1, <1>2

(* With at least one byte per thread no part is empty.                       *)
LEMMA PartNonEmpty ==
    ASSUME NEW f \in Nat, NEW t \in Nat \ {0}, f >= t, NEW i \in Parts(t)
    PROVE  PartSize(f, t, i) > 0
<1> DEFINE q == f \div t
<1>1. q \in Nat /\ q * t <= f /\ f < q * t + t
  BY DivBounds
<1>2. i \in Nat /\ i + 1 <= t
  BY DEF Parts
<1>3. PartSize(f, t, i) = IF i # t - 1 THEN q ELSE f - q * i
  BY DEF PartSize
<1> HIDE DEF q
<1>4. q > 0
  BY <1>1
<1>5. q * i \in Nat /\ q * i + q <= f
  <2>1. q * (i + 1) = q * i + q
    BY <1>1, <1>2, MulStep
  <2>2. q * (i + 1) <= q * t
    BY <1>1, <1>2, MulMono
  <2> QED BY <1>1, <1>2, <2>1, <2>2
<1> QED BY <1>1, <1>3, <1>4, <1>5

(* Parts do not overlap: an earlier part ends before a later one starts.     *)
LEMMA PartsDisjoint ==
    ASSUME NEW f \in Nat, NEW t \in Nat \ {0},
           NEW i \in Parts(t), NEW j \in Parts(t), i < j
    PROVE  PartStart(f, t, i) + PartSize(f, t, i) <= PartStart(f, t, j)
<1> DEFINE q == f \div t
<1>1. q \in Nat
  BY DivBounds
<1>2. i \in Nat /\ j \in Nat /\ i + 1 <= j /\ i # t - 1
  BY DEF Parts
<1>3. PartSize(f, t, i) = q /\ PartStart(f, t, i) = q * i /\ PartStart(f, t, j) = q * j
  BY <1>2 DEF PartSize, PartStart
<1> HIDE DEF q
<1>4. q * (i + 1) = q * i + q
  BY <1>1, <1>2, MulStep
<1>5. q * (i + 1) <= q * j
  BY <1>1, <1>2, MulMono
<1>6. q * i \in Nat /\ q * j \in Nat /\ q * (i + 1) \in Nat
  BY <1>1, <1>2
<1> QED BY <1>1, <1>3, <1>4, <1>5, <1>6

(* Every byte lies in some part: in part b \div q, or in the last one when   *)
(* that quotient is too large.                                               *)
LEMMA ByteHasPart ==
    ASSUME NEW f \in Nat, NEW t \in Nat \ {0}, NEW b \in 0 .. (f - 1)
    PROVE  \E i \in Parts(t) : /\ PartStart(f, t, i) <= b
                               /\ b < PartStart(f, t, i) + PartSize(f, t, i)
<1> DEFINE q == f \div t
<1>1. q \in Nat
  BY DivBounds
<1>2. t - 1 \in Parts(t) /\ t - 1 \in Nat
  BY DEF Parts
<1>3. CASE q * (t - 1) <= b
  <2>1. PartStart(f, t, t - 1) = q * (t - 1)
    BY DEF PartStart
  <2>2. b < PartStart(f, t, t - 1) + PartSize(f, t, t - 1)
    BY LastPartEndsFile
  <2> QED BY <1>2, <1>3, <2>1, <2>2
<1>4. CASE ~(q * (t - 1) <= b)
  <2> DEFINE i == b \div q
  <2> HIDE DEF q
  <2>1. q # 0
    BY <1>2, <1>4
  <2>2. i \in Nat /\ i * q <= b /\ b < i * q + q
    BY <1>1, <2>1, DivBounds
  <2> HIDE DEF i
  <2>3. i < t - 1
    <3>1. SUFFICES ASSUME t - 1 <= i PROVE FALSE
      BY <1>2, <2>2
    <3>2. q * (t - 1) <= q * i
      BY <1>1, <1>2, <2>2, <3>1, MulMono
    <3>3. q * i = i * q /\ q * i \in Nat /\ q * (t - 1) \in Nat
      BY <1>1, <1>2, <2>2
    <3> QED BY <1>4, <2>2, <3>2, <3>3
  <2>4. i \in Parts(t) /\ i # t - 1
    BY <2>2, <2>3 DEF Parts
  <2>5. PartStart(f, t, i) = q * i /\ PartSize(f, t, i) = q
    BY <2>4 DEF PartStart, PartSize, q
  <2>6. q * i = i * q
    BY <1>1, <2>2
  <2> QED BY <2>2, <2>4, <2>5, <2>6
<1> QED BY <1>3, <1>4

(* The threads together ask for the whole file, each byte once.              *)
THEOREM SegmentsTileFile ==
    ASSUME NEW f \in Nat, NEW t \in Nat \ {0}
    PROVE  TilesFile(f, t)
<1>1. ASSUME NEW b \in 0 .. (f - 1)
      PROVE  \E i \in Parts(t) :
               /\ PartStart(f, t, i) <= b
               /\ b < PartStart(f, t, i) + PartSize(f, t, i)
               /\ \A j \in Parts(t) :
                    (PartStart(f, t, j) <= b /\ b < PartStart(f, t, j) + PartSize(f, t, j))
                       => j = i
  <2>1. PICK i \in Parts(t) : /\ PartStart(f, t, i) <= b
                              /\ b < PartStart(f, t, i) + PartSize(f, t, i)
    BY ByteHasPart
  <2>2. ASSUME NEW j \in Parts(t),
               PartStart(f, t, j) <= b, b < PartStart(f, t, j) + PartSize(f, t, j)
        PROVE  j = i
    <3>1. /\ PartStart(f, t, i) \in Nat /\ PartSize(f, t, i) \in Nat
          /\ PartStart(f, t, j) \in Nat /\ PartSize(f, t, j) \in Nat
      BY PartInFile
    <3>2. ~ i < j
      BY <2>1, <2>2, <3>1, PartsDisjoint
    <3>3. ~ j < i
      BY <2>1, <2>2, <3>1, PartsDisjoint
    <3> QED BY <3>2, <3>3 DEF Parts
  <2> QED BY <2>1, <2>2
<1>2. ASSUME NEW i \in Parts(t)
      PROVE  0 <= PartSize(f, t, i) /\ PartStart(f, t, i) + PartSize(f, t, i) <= f
  BY PartInFile
<1> QED BY <1>1, <1>2 DEF TilesFile

(* No part is asked of a server that the request does not name.              *)
THEOREM PartsAskNamedServers ==
    ASSUME NEW t \in Nat \ {0}, NEW s \in Nat \ {0}
    PROVE  AsksNamedServer(t, s)
<1> SUFFICES ASSUME NEW i \in Parts(t)
             PROVE  ServerOf(t, s, i) < s
  BY DEF AsksNamedServer
<1>1. CASE s = 1
  <2>1. i <= t \div s
    BY <1>1 DEF Parts
  <2> QED BY <1>1, <2>1 DEF ServerOf
<1>2. CASE s # 1
  BY <1>2 DEF ServerOf
<1> QED BY <1>1, <1>2

-------------------------------------------------------------------------------
(* Part files *)

LEMMA HeldType == \A p \in PartFile : Held(p) \in Nat /\ p.disk <= Held(p)
BY DEF PartFile, Held

(* fwrite adds n bytes, takes none from the disk, and what was a prefix stays*)
(* one if the bytes continue it.                                             *)
LEMMA AppendedIs ==
    ASSUME NEW p \in PartFile, NEW n \in Nat, NEW right \in BOOLEAN,
           NEW f \in 0 .. p.mem + n
    PROVE  LET q == Appended(p, n, right, f) IN
           /\ q \in PartFile /\ q.is = p.is
           /\ Held(q) = Held(p) + n /\ q.disk >= p.disk
           /\ ((right \/ n = 0) /\ p.clean = Held(p)) => q.clean = Held(q)
<1>1. p.disk \in Nat /\ p.mem \in Nat /\ p.clean \in Nat /\ p.is \in {"absent", "file"}
  BY DEF PartFile
<1> DEFINE q == Appended(p, n, right, f)
           clean == IF right /\ p.clean = Held(p) THEN p.clean + n ELSE p.clean
<1>2. /\ q = [is |-> p.is, disk |-> p.disk + f, mem |-> p.mem + n - f, clean |-> clean]
      /\ q.is = p.is /\ q.disk = p.disk + f /\ q.mem = p.mem + n - f /\ q.clean = clean
  BY DEF Appended
<1>3. p.disk + f \in Nat /\ p.mem + n - f \in Nat /\ clean \in Nat
  BY <1>1
<1>4. q \in PartFile
  BY <1>1, <1>2, <1>3 DEF PartFile
<1>5. Held(q) = Held(p) + n /\ q.disk >= p.disk
  BY <1>1, <1>2 DEF Held
<1>6. ((right \/ n = 0) /\ p.clean = Held(p)) => q.clean = Held(q)
  BY <1>1, <1>2, <1>5
<1> QED BY <1>2, <1>4, <1>5, <1>6

(* fclose brings all of it to the disk.                                      *)
LEMMA FlushedIs ==
    ASSUME NEW p \in PartFile
    PROVE  /\ Flushed(p) \in PartFile /\ Flushed(p).is = p.is
           /\ Flushed(p).mem = 0 /\ Flushed(p).disk = Held(p)
           /\ Flushed(p).clean = p.clean
           /\ Held(Flushed(p)) = Held(p) /\ Flushed(p).disk >= p.disk
<1>1. Held(p) \in Nat /\ p.disk <= Held(p)
  BY HeldType
<1>2. /\ Flushed(p).is = p.is /\ Flushed(p).mem = 0 /\ Flushed(p).disk = Held(p)
      /\ Flushed(p).clean = p.clean
  BY DEF Flushed, PartFile
<1>3. Flushed(p) \in PartFile
  BY <1>1 DEF Flushed, PartFile
<1>4. Held(Flushed(p)) = Held(p)
  <2>1. Held(Flushed(p)) = Flushed(p).disk + Flushed(p).mem
    BY DEF Held
  <2> QED BY <1>1, <1>2, <2>1
<1> QED BY <1>1, <1>2, <1>3, <1>4

(* What is left without the buffer: all that is on the disk, and a prefix if *)
(* the whole was one.                                                        *)
LEMMA UnflushedIs ==
    ASSUME NEW p \in PartFile
    PROVE  /\ Unflushed(p) \in PartFile /\ Unflushed(p).is = p.is
           /\ Unflushed(p).mem = 0 /\ Unflushed(p).disk = p.disk
           /\ Held(Unflushed(p)) = p.disk /\ p.disk <= Held(p)
           /\ p.clean = Held(p) => Unflushed(p).clean = p.disk
<1>1. p.disk \in Nat /\ p.mem \in Nat /\ p.clean \in Nat
  BY DEF PartFile
<1>2. /\ Unflushed(p).is = p.is /\ Unflushed(p).mem = 0 /\ Unflushed(p).disk = p.disk
      /\ Unflushed(p).clean = Lesser(p.clean, p.disk)
  BY DEF Unflushed, PartFile
<1>3. Lesser(p.clean, p.disk) \in Nat /\ (p.clean >= p.disk => Lesser(p.clean, p.disk) = p.disk)
  BY <1>1 DEF Lesser
<1>4. Unflushed(p) \in PartFile
  BY <1>3 DEF Unflushed, PartFile
<1>5. Held(Unflushed(p)) = p.disk /\ Held(p) = p.disk + p.mem
  BY <1>1, <1>2 DEF Held
<1> QED BY <1>1, <1>2, <1>3, <1>4, <1>5

-------------------------------------------------------------------------------
(* Sums over parts *)

(* A property some natural number has has a least one: the form of induction*)
(* in which the sums below are reasoned about.                               *)
LEMMA LeastNatural ==
    ASSUME NEW S \in SUBSET Nat, S # {}
    PROVE  \E m \in S : \A k \in S : m <= k
<1> DEFINE L == {p \in Nat \X Nat : p[1] < p[2]}
<1>1. IsWellFoundedOn(L, Nat)
  BY NatLessThanWellFounded DEF OpToRel
<1>2. \E m \in S : \A k \in S : <<k, m>> \notin L
  <2> HIDE DEF L
  <2> QED BY <1>1, WFMin
<1>3. \A m, k \in Nat : <<k, m>> \notin L => m <= k
  OBVIOUS
<1> QED BY <1>2, <1>3

(* s is the sequence of the partial sums of f.                               *)
Sums(s, f, n) ==
    /\ s \in [0 .. n -> Int] /\ s[0] = 0
    /\ \A i \in 1 .. n : s[i] = s[i - 1] + f[i - 1]

(* Partial sums exist.                                                       *)
LEMMA SumsExist ==
    ASSUME NEW n \in Nat, NEW f, \A i \in 0 .. n - 1 : f[i] \in Int
    PROVE  \E s : Sums(s, f, n)
<1> DEFINE Bad == {m \in 0 .. n : ~ \E s : Sums(s, f, m)}
<1>1. SUFFICES ASSUME n \in Bad PROVE FALSE
  OBVIOUS
<1>2. PICK m \in Bad : \A k \in Bad : m <= k
  <2>1. Bad \in SUBSET Nat /\ Bad # {}
    BY <1>1
  <2> HIDE DEF Bad
  <2> QED BY <2>1, LeastNatural
<1>3. CASE m = 0
  <2>1. Sums([i \in 0 .. 0 |-> 0], f, 0)
    BY DEF Sums
  <2> QED BY <1>3, <2>1
<1>4. CASE m # 0
  <2>1. m - 1 \in 0 .. n /\ m - 1 \notin Bad /\ m \in 1 .. n
    BY <1>2, <1>4
  <2>2. PICK s : Sums(s, f, m - 1)
    BY <2>1
  <2> DEFINE r == [i \in 0 .. m |-> IF i = m THEN s[m - 1] + f[m - 1] ELSE s[i]]
  <2>3. s[m - 1] \in Int /\ f[m - 1] \in Int /\ \A i \in 0 .. m - 1 : s[i] \in Int
    BY <2>1, <2>2 DEF Sums
  <2>4. r \in [0 .. m -> Int] /\ r[0] = 0
    BY <2>1, <2>2, <2>3 DEF Sums
  <2>5. ASSUME NEW i \in 1 .. m PROVE r[i] = r[i - 1] + f[i - 1]
    <3>1. r[i - 1] = s[i - 1]
      BY <2>1
    <3>2. CASE i = m
      BY <2>1, <3>1, <3>2
    <3>3. CASE i # m
      <4>1. i \in 1 .. m - 1 /\ r[i] = s[i]
        BY <2>1, <3>3
      <4> QED BY <2>2, <3>1, <4>1 DEF Sums
    <3> QED BY <3>2, <3>3
  <2>6. Sums(r, f, m)
    <3> HIDE DEF r
    <3> QED BY <2>4, <2>5 DEF Sums
  <2> QED BY <2>6, <1>2
<1> QED BY <1>3, <1>4

(* What Total gives is the last partial sum, whatever the partial sums.      *)
LEMMA TotalIs ==
    ASSUME NEW n \in Nat, NEW f, \A i \in 0 .. n - 1 : f[i] \in Int
    PROVE  \E s : Sums(s, f, n) /\ Total(f, n) = s[n]
<1> DEFINE Rec(s) == s = [i \in 0 .. n |-> IF i = 0 THEN 0 ELSE s[i - 1] + f[i - 1]]
           t == CHOOSE s : Rec(s)
<1>1. PICK s : Sums(s, f, n)
  BY SumsExist
<1>2. Rec(s)
  <2>1. s = [i \in 0 .. n |-> s[i]]
    BY <1>1 DEF Sums
  <2>2. \A i \in 0 .. n : s[i] = IF i = 0 THEN 0 ELSE s[i - 1] + f[i - 1]
    BY <1>1 DEF Sums
  <2>3. [i \in 0 .. n |-> s[i]] = [i \in 0 .. n |-> IF i = 0 THEN 0 ELSE s[i - 1] + f[i - 1]]
    BY <2>2
  <2> QED BY <2>1, <2>3
<1>3. Rec(t)
  <2> HIDE DEF Rec
  <2> QED BY <1>2
<1>4. Total(f, n) = t[n]
  BY DEF Total
<1> HIDE DEF t
<1>5. /\ t[0] = 0 /\ \A i \in 1 .. n : t[i] = t[i - 1] + f[i - 1]
      /\ t = [i \in 0 .. n |-> t[i]]
  <2>1. \A i \in 0 .. n : t[i] = IF i = 0 THEN 0 ELSE t[i - 1] + f[i - 1]
    BY <1>3
  <2>2. t = [i \in 0 .. n |-> t[i]]
    BY <1>3
  <2>3. t[0] = 0
    BY <2>1
  <2>4. ASSUME NEW i \in 1 .. n PROVE t[i] = t[i - 1] + f[i - 1]
    <3>1. i \in 0 .. n /\ i # 0
      OBVIOUS
    <3> HIDE DEF Rec
    <3> QED BY <2>1, <3>1
  <2> QED BY <2>2, <2>3, <2>4
<1>6. t = s
  <2> DEFINE Bad == {i \in 0 .. n : t[i] # s[i]}
  <2>1. SUFFICES ASSUME Bad # {} PROVE FALSE
    <3>1. \A i \in 0 .. n : Bad = {} => t[i] = s[i]
      OBVIOUS
    <3>2. s = [i \in 0 .. n |-> s[i]]
      BY <1>1 DEF Sums
    <3> HIDE DEF Bad
    <3> QED BY <3>1, <3>2, <1>5
  <2>2. PICK m \in Bad : \A k \in Bad : m <= k
    <3>1. Bad \in SUBSET Nat
      OBVIOUS
    <3> HIDE DEF Bad
    <3> QED BY <2>1, <3>1, LeastNatural
  <2>3. CASE m = 0
    BY <1>1, <1>5, <2>3 DEF Sums
  <2>4. CASE m # 0
    <3>1. m - 1 \in 0 .. n /\ m - 1 \notin Bad /\ m \in 1 .. n
      BY <2>2, <2>4
    <3>2. t[m - 1] = s[m - 1]
      BY <3>1
    <3> QED BY <1>1, <1>5, <3>1, <3>2 DEF Sums
  <2> QED BY <2>3, <2>4
<1> QED BY <1>1, <1>4, <1>6

(* A sum of integers is one.                                                 *)
LEMMA TotalInt ==
    ASSUME NEW n \in Nat, NEW f, \A i \in 0 .. n - 1 : f[i] \in Int
    PROVE  Total(f, n) \in Int
<1>1. PICK s : Sums(s, f, n) /\ Total(f, n) = s[n]
  BY TotalIs
<1> QED BY <1>1 DEF Sums

(* A sum of natural numbers is one.                                          *)
LEMMA TotalType ==
    ASSUME NEW n \in Nat, NEW f, \A i \in 0 .. n - 1 : f[i] \in Nat
    PROVE  Total(f, n) \in Nat
<1>1. PICK s : Sums(s, f, n) /\ Total(f, n) = s[n]
  BY TotalIs
<1> DEFINE Bad == {i \in 0 .. n : s[i] \notin Nat}
<1>2. ASSUME Bad # {} PROVE FALSE
  <2>1. PICK m \in Bad : \A k \in Bad : m <= k
    <3>1. Bad \in SUBSET Nat
      OBVIOUS
    <3> HIDE DEF Bad
    <3> QED BY <1>2, <3>1, LeastNatural
  <2>2. m # 0 /\ m \in 1 .. n
    BY <1>1 DEF Sums
  <2>3. s[m - 1] \in Nat /\ f[m - 1] \in Nat
    BY <2>1, <2>2
  <2> QED BY <1>1, <2>2, <2>3 DEF Sums
<1> QED BY <1>1, <1>2

(* No part of it larger, the sum is not larger.                              *)
LEMMA TotalMonotone ==
    ASSUME NEW n \in Nat, NEW f, NEW g,
           \A i \in 0 .. n - 1 : f[i] \in Int /\ g[i] \in Int /\ f[i] <= g[i]
    PROVE  Total(f, n) <= Total(g, n)
<1>1. PICK s : Sums(s, f, n) /\ Total(f, n) = s[n]
  BY TotalIs
<1>2. PICK r : Sums(r, g, n) /\ Total(g, n) = r[n]
  BY TotalIs
<1>t. \A i \in 0 .. n : s[i] \in Int /\ r[i] \in Int
  BY <1>1, <1>2 DEF Sums
<1> DEFINE Bad == {i \in 0 .. n : ~(s[i] <= r[i])}
<1>3. ASSUME Bad # {} PROVE FALSE
  <2>1. PICK m \in Bad : \A k \in Bad : m <= k
    <3>1. Bad \in SUBSET Nat
      OBVIOUS
    <3> HIDE DEF Bad
    <3> QED BY <1>3, <3>1, LeastNatural
  <2>2. m # 0 /\ m \in 1 .. n
    BY <1>1, <1>2 DEF Sums
  <2>3. s[m - 1] <= r[m - 1] /\ f[m - 1] <= g[m - 1]
    BY <2>1, <2>2
  <2>4. s[m] = s[m - 1] + f[m - 1] /\ r[m] = r[m - 1] + g[m - 1]
    BY <1>1, <1>2, <2>2 DEF Sums
  <2>5. s[m - 1] \in Int /\ r[m - 1] \in Int /\ f[m - 1] \in Int /\ g[m - 1] \in Int
    BY <1>t, <2>2
  <2> QED BY <2>1, <2>3, <2>4, <2>5
<1> QED BY <1>1, <1>2, <1>3

(* The sum of sums is the sum of the two.                                    *)
LEMMA TotalPlus ==
    ASSUME NEW n \in Nat, NEW f, NEW g, NEW h,
           \A i \in 0 .. n - 1 : f[i] \in Int /\ g[i] \in Int /\ h[i] = f[i] + g[i]
    PROVE  Total(h, n) = Total(f, n) + Total(g, n)
<1>1. PICK s : Sums(s, f, n) /\ Total(f, n) = s[n]
  BY TotalIs
<1>2. PICK r : Sums(r, g, n) /\ Total(g, n) = r[n]
  BY TotalIs
<1>3. PICK q : Sums(q, h, n) /\ Total(h, n) = q[n]
  <2>1. \A i \in 0 .. n - 1 : h[i] \in Int
    OBVIOUS
  <2> QED BY <2>1, TotalIs
<1>t. \A i \in 0 .. n : s[i] \in Int /\ r[i] \in Int /\ q[i] \in Int
  BY <1>1, <1>2, <1>3 DEF Sums
<1> DEFINE Bad == {i \in 0 .. n : q[i] # s[i] + r[i]}
<1>4. ASSUME Bad # {} PROVE FALSE
  <2>1. PICK m \in Bad : \A k \in Bad : m <= k
    <3>1. Bad \in SUBSET Nat
      OBVIOUS
    <3> HIDE DEF Bad
    <3> QED BY <1>4, <3>1, LeastNatural
  <2>2. m # 0 /\ m \in 1 .. n
    BY <1>1, <1>2, <1>3 DEF Sums
  <2>3. q[m - 1] = s[m - 1] + r[m - 1] /\ h[m - 1] = f[m - 1] + g[m - 1]
    BY <2>1, <2>2
  <2>4. /\ s[m] = s[m - 1] + f[m - 1] /\ r[m] = r[m - 1] + g[m - 1]
        /\ q[m] = q[m - 1] + h[m - 1]
    BY <1>1, <1>2, <1>3, <2>2 DEF Sums
  <2>5. s[m - 1] \in Int /\ r[m - 1] \in Int /\ f[m - 1] \in Int /\ g[m - 1] \in Int
    BY <1>t, <2>2
  <2> QED BY <2>1, <2>3, <2>4, <2>5
<1> QED BY <1>1, <1>2, <1>3, <1>4

(* The sum of what is zero but in one place.                                 *)
LEMMA TotalOfOne ==
    ASSUME NEW n \in Nat, NEW k \in 0 .. n - 1, NEW d \in Int
    PROVE  Total([i \in 0 .. n - 1 |-> IF i = k THEN d ELSE 0], n) = d
<1> DEFINE f == [i \in 0 .. n - 1 |-> IF i = k THEN d ELSE 0]
<1>0. \A i \in 0 .. n - 1 : f[i] = (IF i = k THEN d ELSE 0) /\ f[i] \in Int
  OBVIOUS
<1> HIDE DEF f
<1>1. PICK s : Sums(s, f, n) /\ Total(f, n) = s[n]
  BY <1>0, TotalIs
<1> DEFINE Bad == {i \in 0 .. n : s[i] # (IF i <= k THEN 0 ELSE d)}
<1>2. ASSUME Bad # {} PROVE FALSE
  <2>1. PICK m \in Bad : \A i \in Bad : m <= i
    <3>1. Bad \in SUBSET Nat
      OBVIOUS
    <3> HIDE DEF Bad
    <3> QED BY <1>2, <3>1, LeastNatural
  <2>2. m # 0 /\ m \in 1 .. n
    BY <1>1 DEF Sums
  <2>3. s[m - 1] = (IF m - 1 <= k THEN 0 ELSE d)
    BY <2>1, <2>2
  <2>4. s[m] = s[m - 1] + f[m - 1]
    BY <1>1, <2>2 DEF Sums
  <2>5. f[m - 1] = IF m - 1 = k THEN d ELSE 0
    BY <1>0, <2>2
  <2> QED BY <2>1, <2>2, <2>3, <2>4, <2>5
<1>3. s[n] = d
  BY <1>2
<1> QED BY <1>1, <1>3 DEF f

(* A sum changes by as much as the one summand that changes.                 *)
LEMMA TotalStep ==
    ASSUME NEW n \in Nat, NEW k \in 0 .. n - 1, NEW f, NEW g,
           \A i \in 0 .. n - 1 : f[i] \in Int /\ g[i] \in Int /\ (i # k => g[i] = f[i])
    PROVE  Total(g, n) = Total(f, n) + (g[k] - f[k])
<1> DEFINE d == g[k] - f[k]
           e == [i \in 0 .. n - 1 |-> IF i = k THEN d ELSE 0]
<1>1. d \in Int
  OBVIOUS
<1>2. \A i \in 0 .. n - 1 : f[i] \in Int /\ e[i] \in Int /\ g[i] = f[i] + e[i]
  OBVIOUS
<1>3. Total(e, n) = d
  <2> HIDE DEF d
  <2> QED BY <1>1, TotalOfOne
<1> HIDE DEF d, e
<1>4. Total(g, n) = Total(f, n) + Total(e, n)
  BY <1>2, TotalPlus
<1> QED BY <1>3, <1>4 DEF d

(* Equal summands, equal sums.                                               *)
LEMMA TotalSame ==
    ASSUME NEW n \in Nat, NEW f, NEW g, \A i \in 0 .. n - 1 : f[i] \in Nat /\ g[i] = f[i]
    PROVE  Total(g, n) = Total(f, n)
<1>1. Total(f, n) \in Nat /\ Total(g, n) \in Nat
  BY TotalType
<1>2. Total(f, n) <= Total(g, n) /\ Total(g, n) <= Total(f, n)
  <2>1. \A i \in 0 .. n - 1 : f[i] \in Int /\ g[i] \in Int /\ f[i] <= g[i] /\ g[i] <= f[i]
    OBVIOUS
  <2> QED BY <2>1, TotalMonotone
<1> QED BY <1>1, <1>2

(* Nothing but zeros.                                                        *)
LEMMA TotalOfNone ==
    ASSUME NEW n \in Nat, NEW f, \A i \in 0 .. n - 1 : f[i] = 0
    PROVE  Total(f, n) = 0
<1> DEFINE sum == Total(f, n)
<1>1. sum \in Nat
  BY TotalType
<1>2. sum = sum + sum
  BY TotalPlus
<1> HIDE DEF sum
<1>3. sum = 0
  BY <1>1, <1>2
<1> QED BY <1>3 DEF sum
===============================================================================
