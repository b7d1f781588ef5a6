--------------------------- MODULE LogStoreProofs ---------------------------
(***************************************************************************)
(* Proofs about LogStore, for any number of processes, crashes, power      *)
(* losses and failing calls, any sizes of batches and any bounds.          *)
(*                                                                         *)
(* The argument.  Everything a power loss can leave of the file begins     *)
(* with the confirmed records.  What follows them is garbage only while a  *)
(* marker that undoes it is durable; whenever the marker is anything else, *)
(* or may become so, nothing of the file can be lost any more and it holds *)
(* the confirmed records and at most one whole batch (DiskOK).  The writer *)
(* keeps it so because at each of its system calls it knows what the disk  *)
(* holds (WriterOK), which takes that nobody else is past the lock: the    *)
(* first theorems suppose one writer at a time, the last one shows when    *)
(* the lock files provide it (LockInv).                                    *)
(***************************************************************************)
EXTENDS LogStoreProperties, FiniteSetTheorems, SequenceTheorems, WellFoundedInduction, TLAPS

Rec     == [seq : Nat, batch : Nat, of : Nat]
LogCell == [rec : Rec, end : BOOLEAN]

-----------------------------------------------------------------------------
(* Lines.  A log of whole lines is Cells(r) for its records r.             *)

LEMMA Halves ==
    ASSUME NEW n \in Nat, NEW i \in 1 .. 2 * n
    PROVE  \/ i % 2 = 1 /\ \E k \in 1 .. n : i = 2 * k - 1 /\ (i + 1) \div 2 = k
           \/ i % 2 # 1 /\ \E k \in 1 .. n : i = 2 * k /\ i \div 2 = k
<1>1. PICK k \in Nat : k = (i + 1) \div 2
  OBVIOUS
<1>2. CASE i % 2 = 1
  <2>1. i = 2 * k - 1 /\ k \in 1 .. n
    BY <1>1, <1>2
  <2> QED
    BY <1>1, <1>2, <2>1
<1>3. CASE i % 2 # 1
  <2>1. i = 2 * (i \div 2) /\ i \div 2 \in 1 .. n
    BY <1>3
  <2> QED
    BY <1>3, <2>1
<1> QED
  BY <1>2, <1>3

LEMMA CellsAre ==
    ASSUME NEW r \in Seq(Rec)
    PROVE  /\ Cells(r) \in Seq(LogCell)
           /\ Len(Cells(r)) = 2 * Len(r)
           /\ \A k \in 1 .. Len(r) : /\ Cells(r)[2 * k - 1] = Begin(r[k])
                                     /\ Cells(r)[2 * k] = End(r[k])
<1>1. PICK n \in Nat : n = Len(r)
  OBVIOUS
<1>2. ASSUME NEW k \in 1 .. n PROVE r[k] \in Rec
  BY <1>1
<1>3. ASSUME NEW x \in Rec PROVE Begin(x) \in LogCell /\ End(x) \in LogCell
  BY DEF Begin, End, LogCell
<1> DEFINE cell(i) == IF i % 2 = 1 THEN Begin(r[(i + 1) \div 2]) ELSE End(r[i \div 2])
<1>4. Cells(r) = [i \in 1 .. 2 * n |-> cell(i)]
  BY <1>1 DEF Cells
<1>5. ASSUME NEW i \in 1 .. 2 * n PROVE cell(i) \in LogCell
  BY <1>2, <1>3, Halves
<1> HIDE DEF cell
<1>6. Cells(r) \in Seq(LogCell) /\ Len(Cells(r)) = 2 * n
  BY <1>4, <1>5
<1>7. ASSUME NEW k \in 1 .. n
      PROVE  Cells(r)[2 * k - 1] = Begin(r[k]) /\ Cells(r)[2 * k] = End(r[k])
  <2>1. /\ 2 * k - 1 \in 1 .. 2 * n /\ 2 * k \in 1 .. 2 * n
        /\ (2 * k - 1) % 2 = 1 /\ ((2 * k - 1) + 1) \div 2 = k
        /\ (2 * k) % 2 = 0 /\ (2 * k) \div 2 = k
    OBVIOUS
  <2>2. cell(2 * k - 1) = Begin(r[k]) /\ cell(2 * k) = End(r[k])
    BY <2>1 DEF cell
  <2> QED
    BY <1>4, <2>1, <2>2
<1> QED
  BY <1>1, <1>6, <1>7

LEMMA WholeLines ==
    ASSUME NEW l \in Seq(LogCell), Len(l) # 0 => l[Len(l)].end
    PROVE  CompleteEnd(l) = Len(l) /\ Whole(l) = l
<1>1. PICK n \in Nat : n = Len(l) /\ DOMAIN l = 1 .. n
  OBVIOUS
<1> DEFINE S == {0} \cup {i \in DOMAIN l : l[i].end}
<1>2. n \in S /\ \A i \in S : i \in Nat /\ i <= n
  BY <1>1
<1>3. CompleteEnd(l) = CHOOSE x \in S : \A y \in S : x >= y
  BY DEF CompleteEnd, Max
<1> HIDE DEF S
<1>4. \A x \in S : (\A y \in S : x >= y) => x = n
  BY <1>2
<1>5. CompleteEnd(l) = n
  <2>1. n \in S /\ \A y \in S : n >= y
    BY <1>2
  <2>2. PICK m : m = CHOOSE x \in S : \A y \in S : x >= y
    OBVIOUS
  <2>3. m \in S /\ \A y \in S : m >= y
    BY <2>1, <2>2
  <2> QED
    BY <1>3, <1>4, <2>2, <2>3
<1>6. Whole(l) = SubSeq(l, 1, n)
  BY <1>1, <1>5 DEF Whole, Prefix
<1>7. SubSeq(l, 1, n) = l
  BY <1>1
<1> QED
  BY <1>1, <1>5, <1>6, <1>7

Numbered(r) == \A i \in DOMAIN r : r[i].seq = i

LEMMA WholeCells ==
    ASSUME NEW r \in Seq(Rec)
    PROVE  /\ Whole(Cells(r)) = Cells(r) /\ CompleteEnd(Cells(r)) = 2 * Len(r)
           /\ Records(Cells(r)) = r
           /\ Numbered(r) => Readable(Cells(r))
<1>1. PICK c : c = Cells(r)
  OBVIOUS
<1>2. PICK n \in Nat : n = Len(r) /\ DOMAIN r = 1 .. n
  OBVIOUS
<1>3. /\ c \in Seq(LogCell) /\ Len(c) = 2 * n /\ DOMAIN c = 1 .. 2 * n
      /\ \A k \in 1 .. n : c[2 * k - 1] = Begin(r[k]) /\ c[2 * k] = End(r[k])
  BY <1>1, <1>2, CellsAre
<1>4. \A k \in 1 .. n : /\ c[2 * k - 1].rec = r[k] /\ c[2 * k].rec = r[k]
                        /\ ~c[2 * k - 1].end /\ c[2 * k].end
  <2> SUFFICES ASSUME NEW k \in 1 .. n
               PROVE  /\ c[2 * k - 1].rec = r[k] /\ c[2 * k].rec = r[k]
                      /\ ~c[2 * k - 1].end /\ c[2 * k].end
    OBVIOUS
  <2>1. c[2 * k - 1] = Begin(r[k]) /\ c[2 * k] = End(r[k])
    BY <1>3
  <2> QED
    BY <2>1 DEF Begin, End
<1>5. Len(c) # 0 => c[Len(c)].end
  <2>1. ASSUME n # 0 PROVE c[2 * n].end
    <3>1. n \in 1 .. n
      BY <2>1
    <3> QED
      BY <1>4, <3>1
  <2>2. Len(c) = 2 * n
    BY <1>3
  <2> QED
    BY <2>1, <2>2
<1>6. CompleteEnd(c) = 2 * n /\ Whole(c) = c
  BY <1>3, <1>5, WholeLines
<1>7. Records(c) = r
  <2>1. Len(c) \div 2 = n
    BY <1>3
  <2>2. Records(c) = [i \in 1 .. n |-> c[2 * i].rec]
    BY <2>1 DEF Records
  <2>3. r = [i \in 1 .. n |-> r[i]]
    BY <1>2
  <2> QED
    BY <1>4, <2>2, <2>3
<1>8. ASSUME Numbered(r) PROVE Readable(c)
  <2> SUFFICES ASSUME NEW i \in 1 .. 2 * n
               PROVE  IF i % 2 = 1 THEN ~c[i].end
                      ELSE c[i].end /\ c[i - 1].rec = c[i].rec /\ c[i].rec.seq = i \div 2
    BY <1>6 DEF Readable
  <2>1. CASE i % 2 = 1
    <3>1. PICK k \in 1 .. n : i = 2 * k - 1
      BY <2>1, Halves
    <3> QED
      BY <1>4, <2>1, <3>1
  <2>2. CASE i % 2 # 1
    <3>1. PICK k \in 1 .. n : i = 2 * k /\ i \div 2 = k
      BY <2>2, Halves
    <3>2. r[k].seq = k
      BY <1>2, <1>8 DEF Numbered
    <3>3. c[i].end /\ c[i - 1].rec = r[k] /\ c[i].rec = r[k]
      BY <1>4, <3>1
    <3> QED
      BY <2>2, <3>1, <3>2, <3>3
  <2> QED
    BY <2>1, <2>2
<1> QED
  BY <1>1, <1>2, <1>6, <1>7, <1>8

LEMMA CellsConcat ==
    ASSUME NEW r \in Seq(Rec), NEW b \in Seq(Rec)
    PROVE  r \o b \in Seq(Rec) /\ Cells(r \o b) = Cells(r) \o Cells(b)
<1>1. PICK n \in Nat, m \in Nat : n = Len(r) /\ m = Len(b)
  OBVIOUS
<1>2. PICK s : s = r \o b
  OBVIOUS
<1>3. /\ s \in Seq(Rec) /\ Len(s) = n + m
      /\ \A i \in 1 .. n + m : s[i] = IF i <= n THEN r[i] ELSE b[i - n]
  BY <1>1, <1>2, ConcatProperties
<1>4. PICK x, y, z : x = Cells(s) /\ y = Cells(r) /\ z = Cells(b)
  OBVIOUS
<1>5. /\ x \in Seq(LogCell) /\ Len(x) = 2 * (n + m)
      /\ \A k \in 1 .. n + m : x[2 * k - 1] = Begin(s[k]) /\ x[2 * k] = End(s[k])
  BY <1>3, <1>4, CellsAre
<1>6. /\ y \in Seq(LogCell) /\ Len(y) = 2 * n
      /\ \A k \in 1 .. n : y[2 * k - 1] = Begin(r[k]) /\ y[2 * k] = End(r[k])
  BY <1>1, <1>4, CellsAre
<1>7. /\ z \in Seq(LogCell) /\ Len(z) = 2 * m
      /\ \A k \in 1 .. m : z[2 * k - 1] = Begin(b[k]) /\ z[2 * k] = End(b[k])
  BY <1>1, <1>4, CellsAre
<1>8. PICK w : w = y \o z
  OBVIOUS
<1>9. /\ w \in Seq(LogCell) /\ Len(w) = 2 * n + 2 * m
      /\ \A i \in 1 .. 2 * n : w[i] = y[i]
      /\ \A i \in 1 .. 2 * m : w[2 * n + i] = z[i]
  <2>1. w \in Seq(LogCell) /\ Len(w) = Len(y) + Len(z)
    BY <1>6, <1>7, <1>8, ConcatProperties
  <2>2. \A i \in 1 .. Len(y) + Len(z) : w[i] = IF i <= Len(y) THEN y[i] ELSE z[i - Len(y)]
    BY <1>6, <1>7, <1>8, ConcatProperties
  <2>3. PICK ly \in Nat, lz \in Nat : ly = 2 * n /\ lz = 2 * m /\ ly = Len(y) /\ lz = Len(z)
    BY <1>6, <1>7
  <2>4. \A i \in 1 .. ly + lz : w[i] = IF i <= ly THEN y[i] ELSE z[i - ly]
    BY <2>2, <2>3
  <2>5. ASSUME NEW i \in 1 .. ly PROVE w[i] = y[i]
    BY <2>4
  <2>6. ASSUME NEW i \in 1 .. lz PROVE w[ly + i] = z[i]
    <3>1. ly + i \in 1 .. ly + lz /\ ~(ly + i <= ly) /\ (ly + i) - ly = i
      OBVIOUS
    <3> QED
      BY <2>4, <3>1
  <2> QED
    BY <2>1, <2>3, <2>5, <2>6
<1>10. ASSUME NEW i \in 1 .. 2 * (n + m) PROVE x[i] = w[i]
  <2>1. PICK t \in Nat : t = n + m
    OBVIOUS
  <2>2. i \in 1 .. 2 * t
    BY <2>1
  <2>3. PICK k \in 1 .. t : i = 2 * k - 1 \/ i = 2 * k
    BY <2>2, Halves
  <2>4. x[2 * k - 1] = Begin(s[k]) /\ x[2 * k] = End(s[k])
    BY <1>5, <2>1
  <2>5. w[2 * k - 1] = Begin(s[k]) /\ w[2 * k] = End(s[k])
    <3>1. CASE k <= n
      <4>1. s[k] = r[k]
        BY <1>3, <2>1, <3>1
      <4>2. k \in 1 .. n /\ 2 * k - 1 \in 1 .. 2 * n /\ 2 * k \in 1 .. 2 * n
        BY <3>1
      <4>3. y[2 * k - 1] = Begin(r[k]) /\ y[2 * k] = End(r[k])
        BY <1>6, <4>2
      <4> QED
        BY <1>9, <4>1, <4>2, <4>3
    <3>2. CASE ~(k <= n)
      <4>1. s[k] = b[k - n]
        BY <1>3, <2>1, <3>2
      <4>2. PICK j \in 1 .. m : j = k - n
        BY <2>1, <3>2
      <4>3. z[2 * j - 1] = Begin(b[j]) /\ z[2 * j] = End(b[j])
        BY <1>7
      <4>4. /\ 2 * j - 1 \in 1 .. 2 * m /\ 2 * j \in 1 .. 2 * m
            /\ 2 * n + (2 * j - 1) = 2 * k - 1 /\ 2 * n + 2 * j = 2 * k
        BY <4>2
      <4>5. w[2 * n + (2 * j - 1)] = z[2 * j - 1] /\ w[2 * n + 2 * j] = z[2 * j]
        BY <1>9, <4>4
      <4> QED
        BY <4>1, <4>2, <4>3, <4>4, <4>5
    <3> QED
      BY <3>1, <3>2
  <2> QED
    BY <2>3, <2>4, <2>5
<1>11. x = w
  <2>1. 2 * (n + m) = 2 * n + 2 * m
    OBVIOUS
  <2>2. Len(x) = Len(w) /\ \A i \in 1 .. Len(x) : x[i] = w[i]
    BY <1>5, <1>9, <1>10, <2>1
  <2> QED
    BY <1>5, <1>9, <2>2, SeqEqual
<1> QED
  BY <1>2, <1>3, <1>4, <1>8, <1>11
-----------------------------------------------------------------------------
(* Prefixes.                                                               *)

LEMMA PrefixIs ==
    ASSUME NEW S, NEW s \in Seq(S), NEW t \in Seq(S)
    PROVE  IsPrefix(s, t) <=> Len(s) <= Len(t) /\ \A i \in 1 .. Len(s) : s[i] = t[i]
<1>1. PICK n \in Nat, m \in Nat : n = Len(s) /\ m = Len(t)
  OBVIOUS
<1> SUFFICES ASSUME n <= m
             PROVE  SubSeq(s, 1, n) = SubSeq(t, 1, n) <=> \A i \in 1 .. n : s[i] = t[i]
  BY <1>1 DEF IsPrefix
<1>2. /\ SubSeq(s, 1, n) \in Seq(S) /\ Len(SubSeq(s, 1, n)) = n
      /\ \A i \in 1 .. n : SubSeq(s, 1, n)[i] = s[i]
  BY <1>1
<1>3. /\ SubSeq(t, 1, n) \in Seq(S) /\ Len(SubSeq(t, 1, n)) = n
      /\ \A i \in 1 .. n : SubSeq(t, 1, n)[i] = t[i]
  BY <1>1
<1>4. ASSUME \A i \in 1 .. n : s[i] = t[i] PROVE SubSeq(s, 1, n) = SubSeq(t, 1, n)
  <2>1. PICK x, y : x = SubSeq(s, 1, n) /\ y = SubSeq(t, 1, n)
    OBVIOUS
  <2>2. /\ x \in Seq(S) /\ y \in Seq(S) /\ Len(x) = Len(y)
        /\ \A i \in 1 .. Len(x) : x[i] = y[i]
    BY <1>2, <1>3, <1>4, <2>1
  <2>3. x = y
    BY <2>2, SeqEqual
  <2> QED
    BY <2>1, <2>3
<1> QED
  BY <1>2, <1>3, <1>4

LEMMA PrefixOfConcat ==
    ASSUME NEW S, NEW s \in Seq(S), NEW t \in Seq(S)
    PROVE  /\ s \o t \in Seq(S) /\ Len(s \o t) = Len(s) + Len(t)
           /\ IsPrefix(s, s \o t) /\ Prefix(s \o t, Len(s)) = s
<1>0. PICK w : w = s \o t
  OBVIOUS
<1>1. PICK n \in Nat, m \in Nat : n = Len(s) /\ m = Len(t)
  OBVIOUS
<1>2. w \in Seq(S) /\ Len(w) = n + m /\ \A i \in 1 .. n : w[i] = s[i]
  <2>1. w \in Seq(S) /\ Len(w) = n + m
    BY <1>0, <1>1, ConcatProperties
  <2>2. \A i \in 1 .. n + m : w[i] = IF i <= n THEN s[i] ELSE t[i - n]
    BY <1>0, <1>1, ConcatProperties
  <2> QED
    BY <2>1, <2>2
<1>3. IsPrefix(s, w)
  <2>1. Len(s) <= Len(w) /\ \A i \in 1 .. Len(s) : s[i] = w[i]
    BY <1>1, <1>2
  <2> QED
    BY <1>2, <2>1, PrefixIs
<1>4. Prefix(w, n) = SubSeq(w, 1, n)
  BY <1>2 DEF Prefix
<1>5. SubSeq(w, 1, n) = s
  <2>1. SubSeq(w, 1, n) = SubSeq(s, 1, n)
    BY <1>1, <1>3 DEF IsPrefix
  <2> QED
    BY <1>1, <2>1
<1> QED
  BY <1>0, <1>1, <1>2, <1>3, <1>4, <1>5

LEMMA PrefixTrans ==
    ASSUME NEW S, NEW r \in Seq(S), NEW s \in Seq(S), NEW t \in Seq(S),
           IsPrefix(r, s), IsPrefix(s, t)
    PROVE  IsPrefix(r, t)
<1>1. Len(r) <= Len(s) /\ \A i \in 1 .. Len(r) : r[i] = s[i]
  BY PrefixIs
<1>2. Len(s) <= Len(t) /\ \A i \in 1 .. Len(s) : s[i] = t[i]
  BY PrefixIs
<1>3. Len(r) <= Len(t) /\ \A i \in 1 .. Len(r) : r[i] = t[i]
  BY <1>1, <1>2
<1> QED
  BY <1>3, PrefixIs

LEMMA PrefixSame ==
    ASSUME NEW S, NEW s \in Seq(S)
    PROVE  IsPrefix(s, s)
BY PrefixIs

LEMMA PrefixAppend ==
    ASSUME NEW S, NEW s \in Seq(S), NEW e \in S
    PROVE  Append(s, e) \in Seq(S) /\ IsPrefix(s, Append(s, e))
<1>1. PICK w : w = Append(s, e)
  OBVIOUS
<1>2. w \in Seq(S) /\ Len(w) = Len(s) + 1 /\ \A i \in 1 .. Len(s) : w[i] = s[i]
  BY <1>1, AppendProperties
<1>3. Len(s) <= Len(w) /\ \A i \in 1 .. Len(s) : s[i] = w[i]
  BY <1>2
<1> QED
  BY <1>1, <1>2, <1>3, PrefixIs

LEMMA PrefixCut ==
    ASSUME NEW S, NEW s \in Seq(S), NEW n \in Nat
    PROVE  Prefix(s, n) \in Seq(S) /\ IsPrefix(Prefix(s, n), s)
<1>1. PICK k \in 0 .. Len(s) : Prefix(s, n) = SubSeq(s, 1, k)
  BY DEF Prefix
<1>2. PICK w : w = SubSeq(s, 1, k)
  OBVIOUS
<1>3. w \in Seq(S) /\ Len(w) = k /\ \A i \in 1 .. k : w[i] = s[i]
  BY <1>2
<1>4. Len(w) <= Len(s) /\ \A i \in 1 .. Len(w) : w[i] = s[i]
  BY <1>3
<1> QED
  BY <1>1, <1>2, <1>3, <1>4, PrefixIs

LEMMA PrefixCutMore ==
    ASSUME NEW S, NEW r \in Seq(S), NEW s \in Seq(S), NEW n \in Nat, IsPrefix(r, s)
    PROVE  IsPrefix(Prefix(r, n), Prefix(s, n))
<1>1. PICK a \in Nat, b \in Nat : a = Len(r) /\ b = Len(s)
  OBVIOUS
<1>2. a <= b /\ \A i \in 1 .. a : r[i] = s[i]
  BY <1>1, PrefixIs
<1>3. PICK j \in Nat, k \in Nat : /\ j = (IF n < a THEN n ELSE a)
                                  /\ k = (IF n < b THEN n ELSE b)
  OBVIOUS
<1>4. j <= a /\ k <= b /\ j <= k
  BY <1>2, <1>3
<1>5. PICK x, y : x = SubSeq(r, 1, j) /\ y = SubSeq(s, 1, k)
  OBVIOUS
<1>6. x \in Seq(S) /\ Len(x) = j /\ \A i \in 1 .. j : x[i] = r[i]
  BY <1>1, <1>4, <1>5
<1>7. y \in Seq(S) /\ Len(y) = k /\ \A i \in 1 .. k : y[i] = s[i]
  BY <1>1, <1>4, <1>5
<1>8. \A i \in 1 .. j : x[i] = y[i]
  BY <1>2, <1>4, <1>6, <1>7
<1>9. IsPrefix(x, y)
  <2>1. Len(x) <= Len(y) /\ \A i \in 1 .. Len(x) : x[i] = y[i]
    BY <1>4, <1>6, <1>7, <1>8
  <2> QED
    BY <1>6, <1>7, <2>1, PrefixIs
<1> QED
  BY <1>1, <1>3, <1>5, <1>9 DEF Prefix

LEMMA AppendToConcat ==
    ASSUME NEW s \in Seq(LogCell), NEW t \in Seq(LogCell), NEW e \in LogCell
    PROVE  Append(s \o t, e) = s \o Append(t, e)
<1>0. <<e>> \in Seq(LogCell)
  OBVIOUS
<1>1. PICK one : one = <<e>> /\ one \in Seq(LogCell)
  BY <1>0
<1>2. Append(s \o t, e) = (s \o t) \o one /\ Append(t, e) = t \o one
  BY <1>1, AppendIsConcat, ConcatProperties
<1> QED
  BY <1>1, <1>2, ConcatAssociative

LEMMA LeastOf ==
    ASSUME NEW S, S \subseteq Nat, S # {}
    PROVE  \E i \in S : \A j \in S : i <= j
<1> DEFINE Before == OpToRel(<, Nat)
<1>1. Before = {ss \in Nat \X Nat : ss[1] < ss[2]}
  BY Zenon DEF OpToRel
<1>2. IsWellFoundedOn(Before, Nat)
  BY NatLessThanWellFounded
<1> HIDE DEF Before
<1>3. PICK least \in S : \A k \in S : ~(<<k, least>> \in Before)
  BY <1>2, WFMin
<1>4. ASSUME NEW k \in S PROVE least <= k
  <2>1. k \in Nat /\ least \in Nat /\ <<k, least>> \in Nat \X Nat
    BY <1>3
  <2>2. ~(k < least)
    BY <1>1, <1>3, <2>1
  <2> QED
    BY <2>1, <2>2
<1> QED
  BY <1>3, <1>4

LEMMA LargestOf ==
    ASSUME NEW n \in Nat, NEW S \in SUBSET (0 .. n), S # {}
    PROVE  Max(S) \in S /\ \A y \in S : Max(S) >= y
<1> DEFINE T == {k \in Nat : \A y \in S : k >= y}
<1>1. n \in T /\ T \in SUBSET Nat
  OBVIOUS
<1>2. PICK x \in T : \A k \in T : x <= k
  BY <1>1, LeastOf
<1>3. x \in S
  <2>1. SUFFICES ASSUME x \notin S PROVE FALSE
    OBVIOUS
  <2>2. PICK y \in S : TRUE
    OBVIOUS
  <2>3. x \in Nat /\ x # 0
    BY <1>2, <2>1, <2>2
  <2>4. x - 1 \in T
    BY <1>2, <2>1, <2>3
  <2> QED
    BY <1>2, <2>3, <2>4
<1>4. \A y \in S : x >= y
  BY <1>2
<1>5. PICK m : m = CHOOSE z \in S : \A y \in S : z >= y
  OBVIOUS
<1> HIDE DEF T
<1>6. m \in S /\ \A y \in S : m >= y
  BY <1>3, <1>4, <1>5
<1> QED
  BY <1>5, <1>6 DEF Max

LEMMA WholeCut ==
    ASSUME NEW l \in Seq(LogCell)
    PROVE  Whole(l) \in Seq(LogCell) /\ IsPrefix(Whole(l), l)
<1>1. PICK n \in Nat : n = Len(l) /\ DOMAIN l = 1 .. n
  OBVIOUS
<1>2. PICK S : S = {0} \cup {i \in DOMAIN l : l[i].end}
  OBVIOUS
<1>3. S \in SUBSET (0 .. n) /\ S # {}
  BY <1>1, <1>2
<1>4. Max(S) \in S
  BY <1>3, LargestOf
<1>5. CompleteEnd(l) \in Nat
  BY <1>2, <1>3, <1>4 DEF CompleteEnd
<1> QED
  BY <1>5, PrefixCut DEF Whole
-----------------------------------------------------------------------------
(* The invariant.                                                          *)

(* b is one whole batch that continues the records c.                      *)
Follows(c, b) ==
    /\ b \in Seq(Rec) /\ b # <<>>
    /\ Abstract!WholeBatch(b)
    /\ \A i \in DOMAIN b : b[i].seq = Len(c) + i

Starts(l, c) == \E t \in Seq(LogCell) : l = Cells(c) \o t

(* The file is the records c, or these and one batch more.                 *)
WholeLog(l, c) ==
    \/ l = Cells(c)
    \/ \E b \in Seq(Rec) : Follows(c, b) /\ l = Cells(c \o b)

Boundary == 2 * Len(confirmed)

(* What the disk holds and may hold begins with what was confirmed; unless *)
(* a marker that undoes the rest is durable, that is all there is, or one  *)
(* whole batch more of which nothing can be lost.                          *)
DiskOK ==
    /\ confirmed \in Seq(Rec) /\ Numbered(confirmed)
    /\ log \in lossLog /\ marker \in lossMarker
    /\ lossMarker \subseteq {Absent, Empty, At(Boundary)}
    /\ \A l \in lossLog : Starts(l, confirmed)
    /\ lossMarker # {At(Boundary)} => lossLog = {log} /\ WholeLog(log, confirmed)

Holding == {"open"} \cup Appending

(* What a writer knows of the disk at each of its system calls.            *)
WriterOK(p) ==
    /\ pc[p] = "truncated" => /\ marker = At(Boundary)
                              /\ log = Cells(confirmed) /\ lossLog = {log}
    /\ pc[p] \in {"removed", "scanning"} => marker = Absent
    /\ pc[p] \in Holding => head[p] = Len(confirmed) /\ size[p] = Boundary
    /\ pc[p] = "open" => /\ marker = Absent /\ lossMarker = {Absent}
                         /\ log = Cells(confirmed)
    /\ pc[p] \in Appending => Follows(confirmed, todo[p])
    /\ pc[p] \in {"marking", "marked"} => log = Cells(confirmed) /\ written[p] = 0
    /\ pc[p] = "marking" => marker = Empty
    /\ pc[p] = "marked" => marker = At(Boundary)
    /\ pc[p] \in {"writing", "written", "synced"} => lossMarker = {At(Boundary)}
    /\ pc[p] = "writing" => /\ written[p] \in 0 .. 2 * Len(todo[p]) - 1
                            /\ log = Cells(confirmed) \o SubSeq(Cells(todo[p]), 1, written[p])
    /\ pc[p] \in {"written", "synced", "cleared"} => log = Cells(confirmed) \o Cells(todo[p])
    /\ pc[p] = "synced" => lossLog = {log}
    /\ pc[p] = "cleared" => marker = Absent

Places == Writing \cup {"new", "locking", "refused", "failed", "unlocked", "gone"}

StateOK ==
    /\ pc \in [Procs -> Places]
    /\ head \in [Procs -> Nat] /\ size \in [Procs -> Nat] /\ written \in [Procs -> Nat]
    /\ todo \in [Procs -> Seq(Rec)]
    /\ used \in [{"appends", "kills", "losses", "faults", "closes", "reads"} -> Nat]

(* A read that is under way holds a beginning of the file.                 *)
ReaderOK ==
    /\ reader \in [at : {"idle", "marked", "captured", "refused"}, raw : Seq(LogCell),
                   undone : BOOLEAN]
    /\ served \in [lines : Seq(LogCell), undone : BOOLEAN]
    /\ reader.at = "captured" /\ ~reader.undone => IsPrefix(reader.raw, log)

WritersOK == \A p \in Procs : WriterOK(p)

LogInv == StateOK /\ DiskOK /\ WritersOK /\ ReaderOK /\ ServedStays

(* What a rollback and a scan find, by the marker there is.                *)
LEMMA WholeLogIs ==
    ASSUME NEW c \in Seq(Rec), Numbered(c), NEW l, WholeLog(l, c)
    PROVE  \E r \in Seq(Rec) :
              /\ Numbered(r) /\ l = Cells(r) /\ IsPrefix(c, r)
              /\ r # c => \E b \in Seq(Rec) : Follows(c, b) /\ r = c \o b
<1>1. CASE l = Cells(c)
  BY <1>1, PrefixSame
<1>2. CASE \E b \in Seq(Rec) : Follows(c, b) /\ l = Cells(c \o b)
  <2>1. PICK b \in Seq(Rec) : Follows(c, b) /\ l = Cells(c \o b)
    BY <1>2
  <2>2. PICK r : r = c \o b
    OBVIOUS
  <2>3. PICK n \in Nat, m \in Nat : n = Len(c) /\ m = Len(b)
    OBVIOUS
  <2>4. /\ r \in Seq(Rec) /\ Len(r) = n + m /\ IsPrefix(c, r)
        /\ \A i \in 1 .. n + m : r[i] = IF i <= n THEN c[i] ELSE b[i - n]
    BY <2>2, <2>3, PrefixOfConcat, ConcatProperties
  <2>5. ASSUME NEW i \in 1 .. n + m PROVE r[i].seq = i
    <3>1. CASE i <= n
      <4>1. i \in DOMAIN c /\ r[i] = c[i]
        BY <2>3, <2>4, <3>1
      <4> QED
        BY <4>1 DEF Numbered
    <3>2. CASE ~(i <= n)
      <4>1. i - n \in DOMAIN b /\ r[i] = b[i - n]
        BY <2>3, <2>4, <3>2
      <4>2. b[i - n].seq = n + (i - n)
        BY <2>1, <2>3, <4>1 DEF Follows
      <4> QED
        BY <4>1, <4>2
    <3> QED
      BY <3>1, <3>2
  <2>6. Numbered(r)
    <3>1. DOMAIN r = 1 .. n + m
      BY <2>4
    <3> QED
      BY <2>5, <3>1 DEF Numbered
  <2> QED
    BY <2>1, <2>2, <2>4, <2>6
<1> QED
  BY <1>1, <1>2 DEF WholeLog

LEMMA WholeLogTells ==
    ASSUME NEW c \in Seq(Rec), Numbered(c), NEW l, WholeLog(l, c)
    PROVE  /\ l \in Seq(LogCell) /\ Whole(l) = l /\ Readable(l)
           /\ Len(l) \div 2 = Len(Records(l))
           /\ Records(l) \in Seq(Rec) /\ Numbered(Records(l)) /\ IsPrefix(c, Records(l))
           /\ Cells(Records(l)) = l /\ Len(l) = 2 * Len(Records(l))
           /\ Records(l) # c => \E b \in Seq(Rec) : Follows(c, b) /\ Records(l) = c \o b
<1>1. PICK r \in Seq(Rec) :
              /\ Numbered(r) /\ l = Cells(r) /\ IsPrefix(c, r)
              /\ r # c => \E b \in Seq(Rec) : Follows(c, b) /\ r = c \o b
  BY WholeLogIs
<1>2. Whole(l) = l /\ Records(l) = r /\ Readable(l)
  BY <1>1, WholeCells
<1>3. l \in Seq(LogCell) /\ Len(l) = 2 * Len(r)
  BY <1>1, CellsAre
<1>4. Len(l) \div 2 = Len(r)
  BY <1>3
<1> QED
  BY <1>1, <1>2, <1>3, <1>4

LEMMA StartsTell ==
    ASSUME NEW c \in Seq(Rec), NEW l, Starts(l, c)
    PROVE  /\ l \in Seq(LogCell) /\ IsPrefix(Cells(c), l)
           /\ Prefix(l, 2 * Len(c)) = Cells(c)
<1>1. PICK t \in Seq(LogCell) : l = Cells(c) \o t
  BY DEF Starts
<1>2. Cells(c) \in Seq(LogCell) /\ Len(Cells(c)) = 2 * Len(c)
  BY CellsAre
<1> QED
  BY <1>1, <1>2, PrefixOfConcat

LEMMA StartsAll ==
    ASSUME NEW c \in Seq(Rec)
    PROVE  Starts(Cells(c), c) /\ WholeLog(Cells(c), c)
<1>1. <<>> \in Seq(LogCell)
  OBVIOUS
<1>2. Cells(c) \o <<>> = Cells(c)
  BY CellsAre
<1> QED
  BY <1>1, <1>2 DEF Starts, WholeLog

(* A disk with a rollback marker holds what was confirmed; any other one   *)
(* holds the file as it is.                                                *)
LEMMA DisksAre ==
    ASSUME DiskOK, NEW l \in lossLog, NEW m \in lossMarker
    PROVE  \/ m = At(Boundary) /\ Rolled(l, m) = Cells(confirmed)
           \/ m \in {Absent, Empty} /\ l = log /\ Rolled(l, m) = l /\ WholeLog(l, confirmed)
<1>1. CASE m = At(Boundary)
  <2>1. m.kind = "at" /\ m.offset = 2 * Len(confirmed)
    BY <1>1 DEF At, Boundary
  <2>2. Rolled(l, m) = Prefix(l, 2 * Len(confirmed))
    BY <2>1 DEF Rolled
  <2> QED
    BY <1>1, <2>2, StartsTell DEF DiskOK
<1>2. CASE m \in {Absent, Empty}
  <2>1. m.kind # "at"
    BY <1>2 DEF Absent, Empty
  <2>2. m # At(Boundary)
    BY <2>1 DEF At
  <2>3. lossLog = {log} /\ WholeLog(log, confirmed)
    BY <2>2 DEF DiskOK
  <2> QED
    BY <1>2, <2>1, <2>3 DEF Rolled
<1> QED
  BY <1>1, <1>2 DEF DiskOK

LEMMA DisksTell ==
    ASSUME DiskOK, NEW l \in lossLog, NEW m \in lossMarker
    PROVE  /\ Rolled(l, m) \in Seq(LogCell) /\ Whole(Rolled(l, m)) = Rolled(l, m)
           /\ Readable(Rolled(l, m)) /\ IsPrefix(confirmed, Records(Rolled(l, m)))
<1>1. confirmed \in Seq(Rec) /\ Numbered(confirmed)
  BY DEF DiskOK
<1>2. WholeLog(Rolled(l, m), confirmed)
  BY <1>1, DisksAre, StartsAll
<1>3. PICK r : r = Rolled(l, m)
  OBVIOUS
<1> QED
  BY <1>1, <1>2, <1>3, WholeLogTells

LEMMA DiskSurvives == DiskOK => ConfirmedSurvives /\ NeverCorrupt
<1> SUFFICES ASSUME DiskOK, NEW disk \in Disks
             PROVE  IsPrefix(confirmed, Recovered(disk)) /\ Readable(Rolled(disk[1], disk[2]))
  BY DEF ConfirmedSurvives, NeverCorrupt
<1>1. log \in lossLog /\ marker \in lossMarker
  BY DEF DiskOK
<1>2. disk \in lossLog \X lossMarker
  BY <1>1 DEF Disks
<1>3. PICK l \in lossLog, m \in lossMarker : l = disk[1] /\ m = disk[2]
  BY <1>2
<1> QED
  BY <1>3, DisksTell DEF Recovered
-----------------------------------------------------------------------------
(* What a step may do to the disk.                                         *)

(* The records c, the file l, what it may become in L, the marker m and    *)
(* what it may become in M.                                                *)
DiskIs(c, l, L, m, M) ==
    /\ c \in Seq(Rec) /\ Numbered(c)
    /\ l \in L /\ m \in M
    /\ M \subseteq {Absent, Empty, At(2 * Len(c))}
    /\ \A x \in L : Starts(x, c)
    /\ M # {At(2 * Len(c))} => L = {l} /\ WholeLog(l, c)

LEMMA DiskOKIs == DiskOK <=> DiskIs(confirmed, log, lossLog, marker, lossMarker)
BY DEF DiskOK, DiskIs, Boundary

LEMMA MarkersDiffer ==
    ASSUME NEW n
    PROVE  Absent # At(n) /\ Empty # At(n) /\ Absent # Empty
<1>1. Absent.kind = "absent" /\ Empty.kind = "empty" /\ At(n).kind = "at"
  BY DEF Absent, Empty, At
<1> QED
  BY <1>1

(* A sync, or a power loss: some of the possible contents remain.          *)
LEMMA DiskLess ==
    ASSUME NEW c, NEW l, NEW L, NEW m, NEW M, DiskIs(c, l, L, m, M),
           NEW K \in SUBSET L, NEW k \in K, NEW N \in SUBSET M, NEW n \in N
    PROVE  DiskIs(c, k, K, n, N)
<1>1. CASE M = {At(2 * Len(c))}
  <2>1. N = {At(2 * Len(c))}
    BY <1>1
  <2> QED
    BY <1>1, <2>1 DEF DiskIs
<1>2. CASE M # {At(2 * Len(c))}
  <2>1. L = {l} /\ WholeLog(l, c)
    BY <1>2 DEF DiskIs
  <2>2. k = l /\ K = {l}
    BY <2>1
  <2> QED
    BY <2>1, <2>2 DEF DiskIs
<1> QED
  BY <1>1, <1>2

(* The marker changes while the file is whole and durable.                 *)
LEMMA DiskMark ==
    ASSUME NEW c, NEW l, NEW L, NEW m, NEW M, DiskIs(c, l, L, m, M),
           L = {l}, WholeLog(l, c), NEW n \in {Absent, Empty, At(2 * Len(c))}
    PROVE  DiskIs(c, l, L, n, M \cup {n})
BY DEF DiskIs

(* The file changes while a rollback marker is durable.                    *)
LEMMA DiskWrite ==
    ASSUME NEW c, NEW l, NEW L, NEW m, NEW M, DiskIs(c, l, L, m, M),
           M = {At(2 * Len(c))}, NEW k, Starts(k, c)
    PROVE  DiskIs(c, k, L \cup {k}, m, M)
BY DEF DiskIs

LEMMA DiskCut ==
    ASSUME NEW c, NEW l, NEW L, NEW m, NEW M, DiskIs(c, l, L, m, M)
    PROVE  DiskIs(c, Cells(c), {Cells(c)}, m, M)
<1>1. c \in Seq(Rec)
  BY DEF DiskIs
<1>2. PICK k : k = Cells(c)
  OBVIOUS
<1>3. Starts(k, c) /\ WholeLog(k, c)
  BY <1>1, <1>2, StartsAll
<1> QED
  BY <1>2, <1>3 DEF DiskIs

(* Somebody builds on what the file holds.                                 *)
LEMMA DiskConfirm ==
    ASSUME NEW c, NEW l, NEW L, NEW m, NEW M, DiskIs(c, l, L, m, M), m = Absent
    PROVE  DiskIs(Records(l), l, L, m, {m}) /\ L = {l} /\ WholeLog(l, c)
<1>1. L = {l} /\ WholeLog(l, c) /\ c \in Seq(Rec) /\ Numbered(c)
  BY MarkersDiffer DEF DiskIs
<1>2. PICK r : r = Records(l)
  OBVIOUS
<1>3. r \in Seq(Rec) /\ Numbered(r) /\ Cells(r) = l
  BY <1>1, <1>2, WholeLogTells
<1>4. Starts(l, r) /\ WholeLog(l, r)
  BY <1>3, StartsAll
<1>5. DiskIs(r, l, L, m, {m})
  BY <1>1, <1>3, <1>4 DEF DiskIs
<1> QED
  BY <1>1, <1>2, <1>5

(* Two processes are never both past the writer lock.                      *)
Alone == \A p, q \in Procs : pc[p] \in Writing /\ pc[q] \in Writing => p = q

LEMMA AloneIs == SingleWriter => Alone
<1> SUFFICES ASSUME SingleWriter, NEW p \in Procs, NEW q \in Procs,
                    pc[p] \in Writing, pc[q] \in Writing, p # q
             PROVE  FALSE
  BY DEF Alone
<1>1. PICK S : S = {x \in Procs : pc[x] \in Writing}
  OBVIOUS
<1>2. S \subseteq Procs /\ p \in S /\ q \in S
  BY <1>1
<1>3. IsFiniteSet(S)
  BY <1>2, ProcsAssumption, FS_Subset
<1>4. IsFiniteSet({p}) /\ Cardinality({p}) = 1
  BY FS_Singleton
<1>5. IsFiniteSet({p, q}) /\ Cardinality({p, q}) = 2
  <2>1. Cardinality({p} \cup {q}) = Cardinality({p}) + 1 /\ IsFiniteSet({p} \cup {q})
    BY <1>4, FS_AddElement
  <2>2. {p} \cup {q} = {p, q}
    OBVIOUS
  <2> QED
    BY <1>4, <2>1, <2>2
<1>6. Cardinality({p, q}) <= Cardinality(S)
  BY <1>2, <1>3, FS_Subset
<1>7. Cardinality(S) <= 1
  BY <1>1 DEF SingleWriter
<1>8. Cardinality(S) \in Nat
  BY <1>3, FS_CardinalityType
<1> QED
  BY <1>5, <1>6, <1>7, <1>8

(* A process that is not past the lock knows nothing of the disk.          *)
LEMMA IdleWriter ==
    ASSUME NEW p, pc'[p] \notin Writing
    PROVE  WriterOK(p)'
BY DEF WriterOK, Writing, Holding, Appending

LEMMA OtherWriter ==
    ASSUME Alone, NEW p \in Procs, NEW q \in Procs, q # p,
           pc[p] \in Writing, pc'[q] = pc[q]
    PROVE  WriterOK(q)'
<1>1. pc'[q] \notin Writing
  BY DEF Alone
<1> QED
  BY <1>1, IdleWriter

(* How a step changes what is in the log: by undoing or writing behind a   *)
(* rollback marker, by a marker that comes or goes, by confirming what is  *)
(* there, or not at all.                                                   *)
Effect ==
    \/ UNCHANGED <<marker, confirmed>> /\ (log' = log \/ marker = At(Boundary))
    \/ /\ log' = log /\ confirmed' = confirmed
       /\ marker' \in {Absent, Empty} \/ log = Cells(confirmed)
    \/ /\ log' = log /\ marker' = marker /\ marker = Absent
       /\ WholeLog(log, confirmed) /\ confirmed' = Records(log)

(* A power loss may also make a marker reappear over a batch.              *)
Loss ==
    /\ confirmed' = confirmed
    /\ log' = log \/ (marker = At(Boundary) /\ marker' = marker)

LEMMA SameDisk ==
    ASSUME DiskOK, UNCHANGED <<fileVars, confirmed>>
    PROVE  DiskOK' /\ Effect
BY DEF DiskOK, Effect, Boundary, fileVars
-----------------------------------------------------------------------------
(* One lemma per step of a writer.                                         *)

LEMMA Moves ==
    ASSUME StateOK, NEW p \in Procs, NEW from, NEW to, Go(p, from, to)
    PROVE  /\ pc[p] = from /\ pc'[p] = to
           /\ \A q \in Procs : q # p => pc'[q] = pc[q]
BY DEF StateOK, Go

LEMMA OneWriter ==
    ASSUME Alone, NEW p \in Procs, pc[p] \in Writing,
           \A q \in Procs : q # p => pc'[q] = pc[q], WriterOK(p)'
    PROVE  WritersOK'
<1> SUFFICES ASSUME NEW q \in Procs PROVE WriterOK(q)'
  BY DEF WritersOK
<1>1. CASE q = p
  BY <1>1
<1>2. CASE q # p
  BY <1>2, OtherWriter
<1> QED
  BY <1>1, <1>2

(* Steps that leave the disk alone.                                        *)
LEMMA QuietStep ==
    ASSUME DiskOK, WritersOK, UNCHANGED <<fileVars, confirmed>>,
           \A q \in Procs : \/ pc'[q] \notin Writing \/ pc'[q] = "recovering"
                            \/ pc'[q] = "scanning" /\ marker = Absent
                            \/ /\ pc'[q] = pc[q] /\ head'[q] = head[q] /\ size'[q] = size[q]
                               /\ todo'[q] = todo[q] /\ written'[q] = written[q]
    PROVE  DiskOK' /\ WritersOK' /\ Effect
<1>1. DiskOK' /\ Effect
  BY SameDisk
<1>2. ASSUME NEW q \in Procs PROVE WriterOK(q)'
  <2>1. CASE pc'[q] \notin Writing
    BY <2>1, IdleWriter
  <2>2. CASE pc'[q] = "recovering"
    BY <2>2 DEF WriterOK, Holding, Appending
  <2>3. CASE pc'[q] = "scanning" /\ marker = Absent
    BY <2>3 DEF WriterOK, Holding, Appending, fileVars
  <2>4. CASE /\ pc'[q] = pc[q] /\ head'[q] = head[q] /\ size'[q] = size[q]
             /\ todo'[q] = todo[q] /\ written'[q] = written[q]
    <3>1. WriterOK(q)
      BY DEF WritersOK
    <3> QED
      BY <2>4, <3>1 DEF WriterOK, Boundary, fileVars
  <2> QED
    BY <2>1, <2>2, <2>3, <2>4
<1> QED
  BY <1>1, <1>2 DEF WritersOK

LEMMA TruncateStep ==
    ASSUME StateOK, DiskOK, WritersOK, Alone, NEW p \in Procs, TruncateBatch(p)
    PROVE  DiskOK' /\ WritersOK' /\ Effect
<1>1. /\ pc[p] = "recovering" /\ pc'[p] = "truncated"
      /\ \A q \in Procs : q # p => pc'[q] = pc[q]
  BY Moves DEF TruncateBatch
<1>2. marker = At(Boundary)
  <2>1. marker \in {Absent, Empty, At(Boundary)}
    BY DEF DiskOK
  <2> QED
    BY <2>1 DEF TruncateBatch, Absent, Empty
<1>3. /\ log' = Cells(confirmed) /\ lossLog' = {Cells(confirmed)}
      /\ UNCHANGED <<marker, lossMarker, confirmed>>
  <2>1. log \in lossLog /\ marker \in lossMarker
    BY DEF DiskOK
  <2>2. Rolled(log, marker) = Cells(confirmed)
    BY <1>2, <2>1, DisksAre, MarkersDiffer
  <2> QED
    BY <2>2 DEF TruncateBatch, SetLog
<1>4. DiskIs(confirmed, Cells(confirmed), {Cells(confirmed)}, marker, lossMarker)
  BY DiskOKIs, DiskCut
<1>5. DiskOK'
  BY <1>3, <1>4 DEF DiskIs, DiskOK, Boundary
<1>6. WriterOK(p)'
  BY <1>1, <1>2, <1>3 DEF WriterOK, Holding, Appending, Boundary
<1>7. WritersOK'
  BY <1>1, <1>6, OneWriter DEF Writing
<1> QED
  BY <1>2, <1>3, <1>5, <1>7 DEF Effect

LEMMA RemoveStep ==
    ASSUME StateOK, DiskOK, WritersOK, Alone, NEW p \in Procs, NEW to,
           \/ RemoveMarker(p, "truncated", "removed") /\ to = "removed"
           \/ ClearMarker(p) /\ to = "cleared"
    PROVE  DiskOK' /\ WritersOK' /\ Effect
<1>1. PICK from : /\ RemoveMarker(p, from, to)
                  /\ \/ from = "truncated" /\ to = "removed"
                     \/ from = "synced" /\ to = "cleared"
  BY DEF ClearMarker
<1>2. /\ pc[p] = from /\ pc'[p] = to /\ \A q \in Procs : q # p => pc'[q] = pc[q]
  BY <1>1, Moves DEF RemoveMarker
<1>3. /\ marker' = Absent /\ lossMarker' = lossMarker \cup {Absent}
      /\ UNCHANGED <<log, lossLog, confirmed, head, size, todo>>
  BY <1>1 DEF RemoveMarker, storeVars
<1>4. WriterOK(p) /\ confirmed \in Seq(Rec)
  BY DEF WritersOK, DiskOK
<1>5. lossLog = {log} /\ WholeLog(log, confirmed)
  <2>1. CASE from = "truncated"
    <3>1. lossLog = {log} /\ log = Cells(confirmed)
      BY <1>2, <1>4, <2>1 DEF WriterOK
    <3> QED
      BY <3>1 DEF WholeLog
  <2>2. CASE from = "synced"
    <3>1. /\ lossLog = {log} /\ log = Cells(confirmed) \o Cells(todo[p])
          /\ Follows(confirmed, todo[p])
      BY <1>2, <1>4, <2>2 DEF WriterOK, Appending
    <3>2. todo[p] \in Seq(Rec)
      BY <3>1 DEF Follows
    <3>3. log = Cells(confirmed \o todo[p])
      BY <1>4, <3>1, <3>2, CellsConcat
    <3> QED
      BY <3>1, <3>2, <3>3 DEF WholeLog
  <2> QED
    BY <1>1, <2>1, <2>2
<1>6. DiskIs(confirmed, log, lossLog, Absent, lossMarker \cup {Absent})
  BY <1>5, DiskOKIs, DiskMark
<1>7. DiskOK'
  BY <1>3, <1>6 DEF DiskIs, DiskOK, Boundary
<1>8. WriterOK(p)'
  <2>1. CASE from = "truncated" /\ to = "removed"
    BY <1>2, <1>3, <2>1 DEF WriterOK, Holding, Appending
  <2>2. CASE from = "synced" /\ to = "cleared"
    BY <1>2, <1>3, <1>4, <2>2 DEF WriterOK, Holding, Appending, Boundary
  <2> QED
    BY <1>1, <2>1, <2>2
<1>9. WritersOK'
  BY <1>1, <1>2, <1>8, OneWriter DEF Writing, Appending
<1> QED
  BY <1>3, <1>7, <1>9 DEF Effect

LEMMA SyncRemovalStep ==
    ASSUME StateOK, DiskOK, WritersOK, Alone, NEW p \in Procs,
           SyncMarker(p, "removed", "scanning")
    PROVE  DiskOK' /\ WritersOK' /\ Effect
<1>1. /\ pc[p] = "removed" /\ pc'[p] = "scanning"
      /\ \A q \in Procs : q # p => pc'[q] = pc[q]
  BY Moves DEF SyncMarker
<1>2. lossMarker' = {marker} /\ UNCHANGED <<log, lossLog, marker, confirmed>>
  BY DEF SyncMarker
<1>3. marker = Absent
  BY <1>1 DEF WritersOK, WriterOK
<1>4. marker \in lossMarker /\ log \in lossLog
  BY DEF DiskOK
<1>5. DiskIs(confirmed, log, lossLog, marker, {marker})
  BY <1>4, DiskOKIs, DiskLess
<1>6. DiskOK'
  BY <1>2, <1>5 DEF DiskIs, DiskOK, Boundary
<1>7. WriterOK(p)'
  BY <1>1, <1>2, <1>3 DEF WriterOK, Holding, Appending
<1>8. WritersOK'
  BY <1>1, <1>7, OneWriter DEF Writing
<1> QED
  BY <1>2, <1>6, <1>8 DEF Effect

LEMMA ScanStep ==
    ASSUME StateOK, DiskOK, WritersOK, Alone, NEW p \in Procs, Scan(p)
    PROVE  DiskOK' /\ WritersOK' /\ Effect /\ log' = log
<1>1. pc[p] = "scanning"
  BY DEF Scan, Go
<1>2. marker = Absent
  BY <1>1 DEF WritersOK, WriterOK
<1>3. confirmed \in Seq(Rec) /\ Numbered(confirmed)
  BY DEF DiskOK
<1>4. /\ DiskIs(Records(log), log, lossLog, marker, {marker})
      /\ lossLog = {log} /\ WholeLog(log, confirmed)
  BY <1>2, DiskOKIs, DiskConfirm
<1>5. PICK r : r = Records(log)
  OBVIOUS
<1>6. /\ Readable(log) /\ Whole(log) = log /\ r \in Seq(Rec)
      /\ Len(log) \div 2 = Len(r) /\ Len(log) = 2 * Len(r) /\ Cells(r) = log
  BY <1>3, <1>4, <1>5, WholeLogTells
<1>7. /\ Go(p, "scanning", "open")
      /\ log' = log /\ lossLog' = lossLog /\ lossMarker' = {marker} /\ marker' = marker
      /\ head' = [head EXCEPT ![p] = Len(r)] /\ size' = [size EXCEPT ![p] = 2 * Len(r)]
      /\ confirmed' = r
  BY <1>5, <1>6 DEF Scan
<1>8. pc'[p] = "open" /\ \A q \in Procs : q # p => pc'[q] = pc[q]
  BY <1>7, Moves
<1>9. DiskOK'
  BY <1>4, <1>5, <1>7 DEF DiskIs, DiskOK, Boundary
<1>10. head'[p] = Len(r) /\ size'[p] = 2 * Len(r)
  BY <1>7 DEF StateOK
<1>11. WriterOK(p)'
  BY <1>2, <1>6, <1>7, <1>8, <1>10 DEF WriterOK, Holding, Appending, Boundary
<1>12. WritersOK'
  BY <1>1, <1>8, <1>11, OneWriter DEF Writing
<1> QED
  BY <1>2, <1>4, <1>5, <1>7, <1>9, <1>12 DEF Effect
LEMMA BatchFollows ==
    ASSUME StateOK, NEW p \in Procs, NEW k \in BatchSizes, NEW c, head[p] = Len(c)
    PROVE  Follows(c, Batch(p, k))
<1>1. k \in Nat \ {0}
  BY BoundsAssumption
<1>2. PICK n \in Nat, h \in Nat : n = used.appends + 1 /\ h = head[p]
  BY DEF StateOK
<1>3. PICK b : b = Batch(p, k)
  OBVIOUS
<1>4. b = [i \in 1 .. k |-> [seq |-> h + i, batch |-> n, of |-> k]]
  BY <1>2, <1>3 DEF Batch
<1>5. b \in Seq(Rec) /\ Len(b) = k /\ DOMAIN b = 1 .. k
  <2>1. ASSUME NEW i \in 1 .. k PROVE [seq |-> h + i, batch |-> n, of |-> k] \in Rec
    BY <1>1 DEF Rec
  <2>2. b \in [1 .. k -> Rec]
    BY <1>4, <2>1
  <2> QED
    BY <1>1, <2>2
<1>6. \A i \in 1 .. k : b[i].seq = h + i /\ b[i].batch = n /\ b[i].of = k
  BY <1>4
<1>7. 1 \in 1 .. k
  BY <1>1
<1>8. b # <<>> /\ b[1].of = k /\ b[1].batch = n
  BY <1>1, <1>5, <1>6, <1>7
<1>9. Abstract!WholeBatch(b)
  BY <1>5, <1>6, <1>8 DEF Abstract!WholeBatch
<1> QED
  BY <1>2, <1>3, <1>5, <1>6, <1>8, <1>9 DEF Follows

LEMMA BeginStep ==
    ASSUME StateOK, DiskOK, WritersOK, Alone, NEW p \in Procs, NEW k \in BatchSizes,
           BeginAppend(p, k)
    PROVE  DiskOK' /\ WritersOK' /\ Effect
<1>1. /\ pc[p] = "open" /\ pc'[p] = "marking"
      /\ \A q \in Procs : q # p => pc'[q] = pc[q]
  BY Moves DEF BeginAppend
<1>2. /\ marker' = Empty /\ lossMarker' = lossMarker \cup {Empty}
      /\ UNCHANGED <<log, lossLog, confirmed, head, size>>
      /\ todo'[p] = Batch(p, k) /\ written'[p] = 0
  BY DEF BeginAppend, StateOK
<1>3. /\ marker = Absent /\ log = Cells(confirmed)
      /\ head[p] = Len(confirmed) /\ size[p] = Boundary
  BY <1>1 DEF WritersOK, WriterOK, Holding
<1>4. lossLog = {log} /\ WholeLog(log, confirmed)
  BY <1>3, DiskOKIs, DiskConfirm
<1>5. DiskIs(confirmed, log, lossLog, Empty, lossMarker \cup {Empty})
  BY <1>4, DiskOKIs, DiskMark
<1>6. DiskOK'
  BY <1>2, <1>5 DEF DiskIs, DiskOK, Boundary
<1>7. Follows(confirmed, todo'[p])
  BY <1>2, <1>3, BatchFollows
<1>8. WriterOK(p)'
  BY <1>1, <1>2, <1>3, <1>7 DEF WriterOK, Holding, Appending, Boundary
<1>9. WritersOK'
  BY <1>1, <1>8, OneWriter DEF Writing
<1> QED
  BY <1>2, <1>6, <1>9 DEF Effect

LEMMA WriteMarkerStep ==
    ASSUME StateOK, DiskOK, WritersOK, Alone, NEW p \in Procs, WriteMarker(p)
    PROVE  DiskOK' /\ WritersOK' /\ Effect
<1>1. /\ pc[p] = "marking" /\ pc'[p] = "marked"
      /\ \A q \in Procs : q # p => pc'[q] = pc[q]
  BY Moves DEF WriteMarker
<1>2. /\ log = Cells(confirmed) /\ written[p] = 0 /\ marker = Empty
      /\ head[p] = Len(confirmed) /\ size[p] = Boundary /\ Follows(confirmed, todo[p])
  BY <1>1 DEF WritersOK, WriterOK, Holding, Appending
<1>3. /\ marker' = At(Boundary) /\ lossMarker' = lossMarker \cup {At(Boundary)}
      /\ UNCHANGED <<log, lossLog, confirmed, head, size, todo, written>>
  BY <1>2 DEF WriteMarker, storeVars
<1>4. lossLog = {log} /\ WholeLog(log, confirmed)
  <2>1. lossMarker # {At(Boundary)}
    BY <1>2, MarkersDiffer DEF DiskOK
  <2> QED
    BY <2>1 DEF DiskOK
<1>5. DiskIs(confirmed, log, lossLog, At(Boundary), lossMarker \cup {At(Boundary)})
  <2>1. PICK n \in {Absent, Empty, At(2 * Len(confirmed))} : n = At(Boundary)
    BY DEF Boundary
  <2>2. DiskIs(confirmed, log, lossLog, marker, lossMarker)
    BY DiskOKIs
  <2>3. DiskIs(confirmed, log, lossLog, n, lossMarker \cup {n})
    BY <1>4, <2>2 DEF DiskIs
  <2> QED
    BY <2>1, <2>3
<1>6. DiskOK'
  BY <1>3, <1>5 DEF DiskIs, DiskOK, Boundary
<1>7. WriterOK(p)'
  BY <1>1, <1>2, <1>3 DEF WriterOK, Holding, Appending, Boundary
<1>8. WritersOK'
  BY <1>1, <1>7, OneWriter DEF Writing, Appending
<1> QED
  BY <1>2, <1>3, <1>6, <1>8 DEF Effect

LEMMA MarkDurableStep ==
    ASSUME StateOK, DiskOK, WritersOK, Alone, NEW p \in Procs, MarkDurable(p)
    PROVE  DiskOK' /\ WritersOK' /\ Effect
<1>1. /\ pc[p] = "marked" /\ pc'[p] = "writing"
      /\ \A q \in Procs : q # p => pc'[q] = pc[q]
  BY Moves DEF MarkDurable, SyncMarker
<1>2. /\ log = Cells(confirmed) /\ written[p] = 0 /\ marker = At(Boundary)
      /\ head[p] = Len(confirmed) /\ size[p] = Boundary /\ Follows(confirmed, todo[p])
  BY <1>1 DEF WritersOK, WriterOK, Holding, Appending
<1>3. /\ lossMarker' = {marker}
      /\ UNCHANGED <<log, lossLog, marker, confirmed, head, size, todo, written>>
  BY DEF MarkDurable, SyncMarker, storeVars
<1>4. marker \in lossMarker /\ log \in lossLog
  BY DEF DiskOK
<1>5. DiskIs(confirmed, log, lossLog, marker, {marker})
  BY <1>4, DiskOKIs, DiskLess
<1>6. DiskOK'
  BY <1>3, <1>5 DEF DiskIs, DiskOK, Boundary
<1>7. /\ written[p] \in 0 .. 2 * Len(todo[p]) - 1
      /\ log = Cells(confirmed) \o SubSeq(Cells(todo[p]), 1, written[p])
  <2>1. todo[p] \in Seq(Rec) /\ todo[p] # <<>> /\ confirmed \in Seq(Rec)
    BY <1>2 DEF Follows, DiskOK
  <2>2. Len(todo[p]) \in Nat /\ Len(todo[p]) # 0
    BY <2>1
  <2>3. SubSeq(Cells(todo[p]), 1, 0) = <<>>
    BY <2>1, CellsAre
  <2>4. Cells(confirmed) \o <<>> = Cells(confirmed)
    BY <2>1, CellsAre
  <2>5. written[p] \in 0 .. 2 * Len(todo[p]) - 1
    BY <1>2, <2>2
  <2>6. Cells(confirmed) \o SubSeq(Cells(todo[p]), 1, written[p]) = Cells(confirmed)
    BY <1>2, <2>3, <2>4
  <2> QED
    BY <1>2, <2>5, <2>6
<1>8. WriterOK(p)'
  BY <1>1, <1>2, <1>3, <1>7 DEF WriterOK, Holding, Appending, Boundary
<1>9. WritersOK'
  BY <1>1, <1>8, OneWriter DEF Writing, Appending
<1> QED
  BY <1>3, <1>6, <1>9 DEF Effect

(* One cell more of a batch behind the confirmed records.                  *)
LEMMA CellWritten ==
    ASSUME NEW c \in Seq(Rec), NEW b \in Seq(Rec), NEW w \in 0 .. 2 * Len(b) - 1,
           NEW l, l = Cells(c) \o SubSeq(Cells(b), 1, w)
    PROVE  /\ l \in Seq(LogCell) /\ Cells(b)[w + 1] \in LogCell
           /\ Append(l, Cells(b)[w + 1]) = Cells(c) \o SubSeq(Cells(b), 1, w + 1)
           /\ Starts(Append(l, Cells(b)[w + 1]), c)
           /\ SubSeq(Cells(b), 1, 2 * Len(b)) = Cells(b)
<1>1. PICK n \in Nat : n = 2 * Len(b)
  OBVIOUS
<1>2. PICK z : z = Cells(b)
  OBVIOUS
<1>3. z \in Seq(LogCell) /\ Len(z) = n
  BY <1>1, <1>2, CellsAre
<1>4. w \in Nat /\ w + 1 \in 1 .. n
  BY <1>1
<1>5. z[w + 1] \in LogCell
  BY <1>3, <1>4
<1>6. PICK x : x = SubSeq(z, 1, w)
  OBVIOUS
<1>7. PICK y : y = SubSeq(z, 1, w + 1)
  OBVIOUS
<1>8. x \in Seq(LogCell) /\ Len(x) = w /\ \A i \in 1 .. w : x[i] = z[i]
  BY <1>3, <1>4, <1>6
<1>9. y \in Seq(LogCell) /\ Len(y) = w + 1 /\ \A i \in 1 .. w + 1 : y[i] = z[i]
  BY <1>3, <1>4, <1>7
<1>10. Append(x, z[w + 1]) = y
  <2>1. PICK v : v = Append(x, z[w + 1])
    OBVIOUS
  <2>2. /\ v \in Seq(LogCell) /\ Len(v) = w + 1
        /\ \A i \in 1 .. w : v[i] = x[i]
        /\ v[w + 1] = z[w + 1]
    BY <1>5, <1>8, <2>1, AppendProperties
  <2>3. ASSUME NEW i \in 1 .. w + 1 PROVE v[i] = y[i]
    <3>1. CASE i \in 1 .. w
      BY <1>8, <1>9, <2>2, <3>1
    <3>2. CASE i = w + 1
      BY <1>9, <2>2, <3>2
    <3> QED
      BY <1>4, <3>1, <3>2
  <2>4. v = y
    <3>1. Len(v) = Len(y) /\ \A i \in 1 .. Len(v) : v[i] = y[i]
      BY <1>9, <2>2, <2>3
    <3> QED
      BY <1>9, <2>2, <3>1, SeqEqual
  <2> QED
    BY <2>1, <2>4
<1>11. PICK f : f = Cells(c)
  OBVIOUS
<1>12. f \in Seq(LogCell)
  BY <1>11, CellsAre
<1>13. l \in Seq(LogCell) /\ Append(l, z[w + 1]) = f \o y
  <2>1. l = f \o x
    BY <1>2, <1>6, <1>11
  <2>2. f \o x \in Seq(LogCell)
    BY <1>8, <1>12, ConcatProperties
  <2>3. PICK e \in LogCell : e = z[w + 1]
    BY <1>5
  <2>4. Append(f \o x, e) = f \o Append(x, e)
    <3>1. x \in Seq(LogCell)
      BY <1>8
    <3> QED
      BY <1>12, <2>3, <3>1, AppendToConcat
  <2> QED
    BY <1>10, <2>1, <2>2, <2>3, <2>4
<1>14. Starts(f \o y, c)
  BY <1>9, <1>11 DEF Starts
<1>15. SubSeq(z, 1, n) = z
  BY <1>3
<1> QED
  BY <1>1, <1>2, <1>5, <1>7, <1>11, <1>13, <1>14, <1>15
LEMMA WriteCellStep ==
    ASSUME StateOK, DiskOK, WritersOK, Alone, NEW p \in Procs, WriteCell(p)
    PROVE  DiskOK' /\ WritersOK' /\ Effect /\ IsPrefix(log, log')
<1>1. /\ confirmed \in Seq(Rec) /\ lossMarker = {At(Boundary)} /\ marker = At(Boundary)
      /\ written[p] \in 0 .. 2 * Len(todo[p]) - 1
      /\ log = Cells(confirmed) \o SubSeq(Cells(todo[p]), 1, written[p])
      /\ head[p] = Len(confirmed) /\ size[p] = Boundary /\ Follows(confirmed, todo[p])
      /\ pc[p] = "writing"
  <2>1. pc[p] = "writing"
    BY DEF WriteCell, Go
  <2>2. WriterOK(p) /\ confirmed \in Seq(Rec) /\ marker \in lossMarker
    BY DEF WritersOK, DiskOK
  <2> QED
    BY <2>1, <2>2 DEF WriterOK, Holding, Appending
<1>2. PICK b \in Seq(Rec) : b = todo[p]
  BY <1>1 DEF Follows
<1>3. PICK w \in 0 .. 2 * Len(b) - 1 : w = written[p]
  BY <1>1, <1>2
<1>4. PICK e : e = Cells(b)[w + 1]
  OBVIOUS
<1>5. /\ log \in Seq(LogCell) /\ e \in LogCell
      /\ Append(log, e) = Cells(confirmed) \o SubSeq(Cells(b), 1, w + 1)
      /\ Starts(Append(log, e), confirmed)
      /\ SubSeq(Cells(b), 1, 2 * Len(b)) = Cells(b)
  <2>1. log = Cells(confirmed) \o SubSeq(Cells(b), 1, w)
    BY <1>1, <1>2, <1>3
  <2>2. PICK c \in Seq(Rec) : c = confirmed
    BY <1>1
  <2> QED
    BY <1>4, <2>1, <2>2, CellWritten
<1>6. /\ log' = Append(log, e) /\ lossLog' = lossLog \cup {log'}
      /\ written'[p] = w + 1
      /\ Go(p, "writing", IF w + 1 = Len(Cells(b)) THEN "written" ELSE "writing")
      /\ UNCHANGED <<marker, lossMarker, confirmed, head, size, todo>>
  BY <1>2, <1>3, <1>4 DEF WriteCell, StateOK
<1>7. /\ pc'[p] = (IF w + 1 = 2 * Len(b) THEN "written" ELSE "writing")
      /\ \A q \in Procs : q # p => pc'[q] = pc[q]
  <2>1. Len(Cells(b)) = 2 * Len(b)
    BY CellsAre
  <2> QED
    BY <1>6, <2>1, Moves
<1>8. DiskIs(confirmed, Append(log, e), lossLog \cup {Append(log, e)}, marker, lossMarker)
  <2>1. DiskIs(confirmed, log, lossLog, marker, lossMarker)
    BY DiskOKIs
  <2>2. lossMarker = {At(2 * Len(confirmed))}
    BY <1>1 DEF Boundary
  <2>3. PICK k : k = Append(log, e) /\ Starts(k, confirmed)
    BY <1>5
  <2>4. DiskIs(confirmed, k, lossLog \cup {k}, marker, lossMarker)
    BY <2>1, <2>2, <2>3, DiskWrite
  <2> QED
    BY <2>3, <2>4
<1>9. DiskOK'
  BY <1>6, <1>8 DEF DiskIs, DiskOK, Boundary
<1>10. WriterOK(p)'
  <2>1. Len(b) \in Nat
    OBVIOUS
  <2>2. CASE w + 1 = 2 * Len(b)
    <3>1. log' = Cells(confirmed) \o Cells(b)
      BY <1>5, <1>6, <2>2
    <3>2. pc'[p] = "written"
      BY <1>7, <2>2
    <3> QED
      BY <1>1, <1>2, <1>6, <3>1, <3>2 DEF WriterOK, Holding, Appending, Boundary
  <2>3. CASE w + 1 # 2 * Len(b)
    <3>1. pc'[p] = "writing" /\ w + 1 \in 0 .. 2 * Len(b) - 1
      BY <1>7, <2>1, <2>3
    <3>2. log' = Cells(confirmed) \o SubSeq(Cells(b), 1, w + 1)
      BY <1>5, <1>6
    <3> QED
      BY <1>1, <1>2, <1>6, <3>1, <3>2 DEF WriterOK, Holding, Appending, Boundary
  <2> QED
    BY <2>2, <2>3
<1>11. WritersOK'
  BY <1>1, <1>7, <1>10, OneWriter DEF Writing, Appending
<1>12. IsPrefix(log, log')
  BY <1>5, <1>6, PrefixAppend
<1> QED
  BY <1>1, <1>6, <1>9, <1>11, <1>12 DEF Effect

LEMMA SyncLogStep ==
    ASSUME StateOK, DiskOK, WritersOK, Alone, NEW p \in Procs, SyncLog(p)
    PROVE  DiskOK' /\ WritersOK' /\ Effect
<1>1. /\ pc[p] = "written" /\ pc'[p] = "synced"
      /\ \A q \in Procs : q # p => pc'[q] = pc[q]
  BY Moves DEF SyncLog
<1>2. /\ log = Cells(confirmed) \o Cells(todo[p]) /\ lossMarker = {At(Boundary)}
      /\ head[p] = Len(confirmed) /\ size[p] = Boundary /\ Follows(confirmed, todo[p])
  BY <1>1 DEF WritersOK, WriterOK, Holding, Appending
<1>3. /\ log' = log /\ lossLog' = {log}
      /\ UNCHANGED <<marker, lossMarker, confirmed, head, size, todo>>
  BY DEF SyncLog, SetLog, storeVars
<1>4. marker \in lossMarker /\ log \in lossLog
  BY DEF DiskOK
<1>5. DiskIs(confirmed, log, {log}, marker, lossMarker)
  BY <1>4, DiskOKIs, DiskLess
<1>6. DiskOK'
  BY <1>3, <1>5 DEF DiskIs, DiskOK, Boundary
<1>7. WriterOK(p)'
  BY <1>1, <1>2, <1>3 DEF WriterOK, Holding, Appending, Boundary
<1>8. WritersOK'
  BY <1>1, <1>7, OneWriter DEF Writing, Appending
<1> QED
  BY <1>3, <1>6, <1>8 DEF Effect

LEMMA AcknowledgeStep ==
    ASSUME StateOK, DiskOK, WritersOK, Alone, NEW p \in Procs, Acknowledge(p)
    PROVE  DiskOK' /\ WritersOK' /\ Effect
<1>1. /\ pc[p] = "cleared" /\ pc'[p] = "open"
      /\ \A q \in Procs : q # p => pc'[q] = pc[q]
  BY Moves DEF Acknowledge
<1>2. /\ log = Cells(confirmed) \o Cells(todo[p]) /\ marker = Absent
      /\ head[p] = Len(confirmed) /\ size[p] = Boundary /\ Follows(confirmed, todo[p])
  BY <1>1 DEF WritersOK, WriterOK, Holding, Appending
<1>3. PICK b \in Seq(Rec) : b = todo[p]
  BY <1>2 DEF Follows
<1>4. confirmed \in Seq(Rec) /\ Numbered(confirmed)
  BY DEF DiskOK
<1>5. PICK r \in Seq(Rec) : r = confirmed \o b
  BY <1>4, ConcatProperties
<1>6. log = Cells(r) /\ Len(r) = Len(confirmed) + Len(b)
  BY <1>2, <1>3, <1>4, <1>5, CellsConcat, ConcatProperties
<1>7. Records(log) = r
  BY <1>6, WholeCells
<1>8. DiskIs(Records(log), log, lossLog, marker, {marker}) /\ WholeLog(log, confirmed)
  BY ZenonT(30), <1>2, DiskOKIs, DiskConfirm
<1>9. /\ confirmed' = r /\ lossMarker' = {marker} /\ UNCHANGED <<log, lossLog, marker>>
      /\ head'[p] = head[p] + Len(b) /\ size'[p] = size[p] + 2 * Len(b)
  BY <1>3, <1>5 DEF Acknowledge, StateOK
<1>10. DiskOK'
  BY <1>7, <1>8, <1>9 DEF DiskIs, DiskOK, Boundary
<1>11. head'[p] = Len(r) /\ size'[p] = 2 * Len(r)
  <2>1. PICK n \in Nat, m \in Nat : n = Len(confirmed) /\ m = Len(b)
    BY <1>4
  <2>2. size[p] = 2 * n
    BY <1>2, <2>1 DEF Boundary
  <2> QED
    BY <1>2, <1>6, <1>9, <2>1, <2>2
<1>12. WriterOK(p)'
  BY <1>1, <1>2, <1>6, <1>9, <1>11 DEF WriterOK, Holding, Appending, Boundary
<1>13. WritersOK'
  BY <1>1, <1>12, OneWriter DEF Writing, Appending
<1> QED
  BY <1>2, <1>7, <1>8, <1>9, <1>10, <1>13 DEF Effect

LEMMA PowerLossStep ==
    ASSUME StateOK, DiskOK, PowerLoss
    PROVE  DiskOK' /\ WritersOK' /\ Loss
<1>1. PICK l \in lossLog : log' = l /\ lossLog' = {l}
  BY DEF PowerLoss, SetLog
<1>2. PICK m \in lossMarker : marker' = m /\ lossMarker' = {m}
  BY DEF PowerLoss
<1>3. confirmed' = confirmed
  BY DEF PowerLoss, Release
<1>4. DiskIs(confirmed, l, {l}, m, {m})
  BY DiskOKIs, DiskLess
<1>5. DiskOK'
  BY <1>1, <1>2, <1>3, <1>4 DEF DiskIs, DiskOK, Boundary
<1>6. ASSUME NEW q \in Procs PROVE pc'[q] \in {"new", "gone"}
  BY DEF PowerLoss, Release
<1>7. ASSUME NEW q \in Procs PROVE WriterOK(q)'
  <2>1. pc'[q] \notin Writing
    BY <1>6 DEF Writing, Appending
  <2> QED
    BY <2>1, IdleWriter
<1>8. Loss
  <2>1. CASE lossMarker = {At(Boundary)}
    <3>1. marker = At(Boundary) /\ m = At(Boundary)
      BY <2>1 DEF DiskOK
    <3> QED
      BY <1>2, <1>3, <3>1 DEF Loss
  <2>2. CASE lossMarker # {At(Boundary)}
    BY <1>1, <1>2, <1>3, <2>2 DEF DiskOK, Loss
  <2> QED
    BY <2>1, <2>2
<1> QED
  BY <1>5, <1>7, <1>8 DEF WritersOK
-----------------------------------------------------------------------------
(* Every step.                                                             *)

LEMMA QuietMove ==
    ASSUME StateOK, DiskOK, WritersOK, NEW p \in Procs, NEW from, NEW to, Go(p, from, to),
           UNCHANGED <<storeVars, fileVars, confirmed>>,
           \/ to \in {"locking", "recovering", "refused", "gone"}
           \/ to = "scanning" /\ marker = Absent
    PROVE  DiskOK' /\ WritersOK' /\ Effect
<1>1. pc'[p] = to /\ \A q \in Procs : q # p => pc'[q] = pc[q]
  BY Moves
<1>2. UNCHANGED <<head, size, todo, written>> /\ UNCHANGED <<fileVars, confirmed>>
  BY DEF storeVars
<1>3. \A q \in Procs : \/ pc'[q] \notin Writing \/ pc'[q] = "recovering"
                       \/ pc'[q] = "scanning" /\ marker = Absent
                       \/ /\ pc'[q] = pc[q] /\ head'[q] = head[q] /\ size'[q] = size[q]
                          /\ todo'[q] = todo[q] /\ written'[q] = written[q]
  <2> SUFFICES ASSUME NEW q \in Procs
               PROVE  \/ pc'[q] \notin Writing \/ pc'[q] = "recovering"
                      \/ pc'[q] = "scanning" /\ marker = Absent
                      \/ /\ pc'[q] = pc[q] /\ head'[q] = head[q] /\ size'[q] = size[q]
                         /\ todo'[q] = todo[q] /\ written'[q] = written[q]
    OBVIOUS
  <2>1. CASE q = p
    BY <1>1, <2>1 DEF Writing, Appending
  <2>2. CASE q # p
    BY <1>1, <1>2, <2>2
  <2> QED
    BY <2>1, <2>2
<1> QED
  BY <1>2, <1>3, QuietStep

(* A process stops past the lock: it fails, closes or dies.                *)
LEMMA QuietStop ==
    ASSUME DiskOK, WritersOK, NEW p \in Procs,
           UNCHANGED <<head, size, written, fileVars, confirmed>>,
           pc'[p] \notin Writing, \A q \in Procs : q # p => pc'[q] = pc[q] /\ todo'[q] = todo[q]
    PROVE  DiskOK' /\ WritersOK' /\ Effect
<1>1. \A q \in Procs : \/ pc'[q] \notin Writing \/ pc'[q] = "recovering"
                       \/ pc'[q] = "scanning" /\ marker = Absent
                       \/ /\ pc'[q] = pc[q] /\ head'[q] = head[q] /\ size'[q] = size[q]
                          /\ todo'[q] = todo[q] /\ written'[q] = written[q]
  <2> SUFFICES ASSUME NEW q \in Procs, q # p
               PROVE  /\ pc'[q] = pc[q] /\ head'[q] = head[q] /\ size'[q] = size[q]
                      /\ todo'[q] = todo[q] /\ written'[q] = written[q]
    OBVIOUS
  <2> QED
    OBVIOUS
<1> QED
  BY <1>1, QuietStep

LEMMA StopStep ==
    ASSUME StateOK, DiskOK, WritersOK, ~KeepsWriting, NEW p \in Procs,
           Fault(p) \/ Unlock(p) \/ Kill(p)
    PROVE  DiskOK' /\ WritersOK' /\ Effect
<1>1. CASE Fault(p)
  <2>1. pc'[p] = "failed" /\ \A q \in Procs : q # p => pc'[q] = pc[q] /\ todo'[q] = todo[q]
    BY <1>1 DEF Fault, StateOK
  <2>2. UNCHANGED <<head, size, written, fileVars, confirmed>>
    BY <1>1 DEF Fault
  <2>3. pc'[p] \notin Writing
    BY <2>1 DEF Writing, Appending
  <2> QED
    BY <2>1, <2>2, <2>3, QuietStop
<1>2. CASE Unlock(p)
  <2>1. pc'[p] = "unlocked" /\ \A q \in Procs : q # p => pc'[q] = pc[q] /\ todo'[q] = todo[q]
    BY <1>2 DEF Unlock, StateOK, storeVars
  <2>2. UNCHANGED <<head, size, written, fileVars, confirmed>>
    BY <1>2 DEF Unlock, storeVars
  <2>3. pc'[p] \notin Writing
    BY <2>1 DEF Writing, Appending
  <2> QED
    BY <2>1, <2>2, <2>3, QuietStop
<1>3. CASE Kill(p)
  <2>1. pc'[p] = "gone" /\ \A q \in Procs : q # p => pc'[q] = pc[q] /\ todo'[q] = todo[q]
    BY <1>3 DEF Kill, Release, storeVars
  <2>2. UNCHANGED <<head, size, written, fileVars, confirmed>>
    BY <1>3 DEF Kill, Release, storeVars
  <2>3. pc'[p] \notin Writing
    BY <2>1 DEF Writing, Appending
  <2> QED
    BY <2>1, <2>2, <2>3, QuietStop
<1> QED
  BY <1>1, <1>2, <1>3

LEMMA ReadStep ==
    ASSUME DiskOK, WritersOK, ReadNext \/ UNCHANGED vars
    PROVE  DiskOK' /\ WritersOK' /\ Effect
<1>1. UNCHANGED <<pc, storeVars, fileVars, confirmed>>
  BY DEF ReadNext, ReadRefused, ReadMarker, ReadLog, ReadMarkerAgain, vars
<1>2. UNCHANGED <<pc, head, size, todo, written>> /\ UNCHANGED <<fileVars, confirmed>>
  BY <1>1 DEF storeVars
<1> QED
  BY <1>2, QuietStep

(* The steps of one process, by what they do to the disk.                  *)
LEMMA ProcessStep ==
    ASSUME StateOK, DiskOK, WritersOK, Alone, ~KeepsWriting, NEW p \in Procs,
           OpenNext(p) \/ AppendNext(p) \/ Unlock(p) \/ Unlink(p) \/ Kill(p)
    PROVE  DiskOK' /\ WritersOK' /\ Effect
<1>1. CASE OpenLockFile(p) \/ Flock(p) \/ FlockRefused(p) \/ RefuseMarker(p) \/ NothingPending(p)
           \/ Unlink(p)
  <2>1. PICK from, to : /\ Go(p, from, to) /\ UNCHANGED <<storeVars, fileVars, confirmed>>
                        /\ \/ to \in {"locking", "recovering", "refused", "gone"}
                           \/ to = "scanning" /\ marker = Absent
    BY <1>1 DEF OpenLockFile, Flock, FlockRefused, RefuseMarker, NothingPending, Unlink
  <2> QED
    BY <2>1, QuietMove
<1>2. CASE TruncateBatch(p)
  BY <1>2, TruncateStep
<1>3. CASE RemoveMarker(p, "truncated", "removed")
  BY <1>3, RemoveStep
<1>4. CASE SyncMarker(p, "removed", "scanning")
  BY <1>4, SyncRemovalStep
<1>5. CASE Scan(p)
  BY <1>5, ScanStep
<1>6. CASE \E k \in BatchSizes : BeginAppend(p, k)
  BY <1>6, BeginStep
<1>7. CASE WriteMarker(p)
  BY <1>7, WriteMarkerStep
<1>8. CASE MarkDurable(p)
  BY <1>8, MarkDurableStep
<1>9. CASE WriteCell(p)
  BY <1>9, WriteCellStep
<1>10. CASE SyncLog(p)
  BY <1>10, SyncLogStep
<1>11. CASE ClearMarker(p)
  BY <1>11, RemoveStep
<1>12. CASE Acknowledge(p)
  BY <1>12, AcknowledgeStep
<1>13. CASE Fault(p) \/ Unlock(p) \/ Kill(p)
  BY <1>13, StopStep
<1> QED
  BY <1>1, <1>2, <1>3, <1>4, <1>5, <1>6, <1>7, <1>8, <1>9, <1>10, <1>11, <1>12, <1>13
     DEF OpenNext, AppendNext

(* The shapes of the values.                                               *)
LEMMA ShapeProcess ==
    ASSUME StateOK, DiskOK, WritersOK, NEW p \in Procs,
           OpenNext(p) \/ AppendNext(p) \/ Unlock(p) \/ Unlink(p) \/ Kill(p)
    PROVE  StateOK'
<1> DEFINE Events == {"appends", "kills", "losses", "faults", "closes", "reads"}
<1> DEFINE SameStore == UNCHANGED <<head, size, todo, written>>
<1>1. ASSUME NEW from, NEW to \in Places, Go(p, from, to)
      PROVE  pc' \in [Procs -> Places]
  BY <1>1 DEF Go, StateOK
<1>2. ASSUME NEW what \in Events, NEW bound, Spend(what, bound)
      PROVE  used' \in [Events -> Nat]
  BY <1>2 DEF Spend, StateOK
<1>3. ASSUME NEW from, NEW to \in Places, Go(p, from, to), UNCHANGED <<storeVars, used>>
      PROVE  StateOK'
  BY <1>1, <1>3 DEF StateOK, storeVars
<1>4. CASE \/ OpenLockFile(p) \/ Flock(p) \/ FlockRefused(p) \/ RefuseMarker(p)
           \/ NothingPending(p) \/ Unlink(p) \/ TruncateBatch(p)
           \/ RemoveMarker(p, "truncated", "removed") \/ SyncMarker(p, "removed", "scanning")
           \/ WriteMarker(p) \/ MarkDurable(p) \/ SyncLog(p) \/ ClearMarker(p)
  <2>1. PICK from, to : /\ Go(p, from, to) /\ UNCHANGED <<storeVars, used>>
                        /\ to \in {"locking", "recovering", "refused", "gone", "scanning",
                                   "truncated", "removed", "marked", "writing", "synced",
                                   "cleared"}
    BY <1>4 DEF OpenLockFile, Flock, FlockRefused, RefuseMarker, NothingPending, Unlink,
                TruncateBatch, RemoveMarker, SyncMarker, WriteMarker, MarkDurable, SyncLog,
                ClearMarker
  <2>2. to \in Places
    BY <2>1 DEF Places, Writing, Appending
  <2> QED
    BY <1>3, <2>1, <2>2
<1>5. CASE Scan(p)
  <2>1. log \in Seq(LogCell)
    BY StartsTell DEF DiskOK
  <2>2. PICK n \in Nat : n = Len(Whole(log))
    BY <2>1, WholeCut
  <2>3. n \div 2 \in Nat
    OBVIOUS
  <2>4. \/ head' = [head EXCEPT ![p] = n \div 2] /\ size' = [size EXCEPT ![p] = n]
        \/ UNCHANGED <<head, size>>
    BY <1>5, <2>2 DEF Scan
  <2>5. head' \in [Procs -> Nat] /\ size' \in [Procs -> Nat]
    BY <2>3, <2>4 DEF StateOK
  <2>6. PICK to \in {"open", "refused"} : Go(p, "scanning", to)
    BY <1>5 DEF Scan
  <2>7. pc' \in [Procs -> Places]
    BY <1>1, <2>6 DEF Places, Writing
  <2>8. UNCHANGED <<todo, written, used>>
    BY <1>5 DEF Scan
  <2> QED
    BY <2>5, <2>7, <2>8 DEF StateOK
<1>6. CASE \E k \in BatchSizes : BeginAppend(p, k)
  <2>1. PICK k \in BatchSizes : BeginAppend(p, k)
    BY <1>6
  <2>2. pc[p] = "open"
    BY <2>1 DEF BeginAppend, Go
  <2>3. head[p] = Len(confirmed)
    BY <2>2 DEF WritersOK, WriterOK, Holding
  <2>4. Batch(p, k) \in Seq(Rec)
    BY <2>3, BatchFollows DEF Follows
  <2>5. todo' \in [Procs -> Seq(Rec)] /\ written' \in [Procs -> Nat]
    BY <2>1, <2>4 DEF BeginAppend, StateOK
  <2>6. used' \in [Events -> Nat]
    BY <1>2, <2>1 DEF BeginAppend
  <2>7. pc' \in [Procs -> Places]
    BY <1>1, <2>1 DEF BeginAppend, Places, Writing, Appending
  <2>8. UNCHANGED <<head, size>>
    BY <2>1 DEF BeginAppend
  <2> QED
    BY <2>5, <2>6, <2>7, <2>8 DEF StateOK
<1>7. CASE WriteCell(p)
  <2>1. written' \in [Procs -> Nat]
    BY <1>7 DEF WriteCell, StateOK
  <2>2. PICK to \in {"written", "writing"} : Go(p, "writing", to)
    BY <1>7 DEF WriteCell
  <2>3. pc' \in [Procs -> Places]
    BY <1>1, <2>2 DEF Places, Writing, Appending
  <2>4. UNCHANGED <<head, size, todo, used>>
    BY <1>7 DEF WriteCell
  <2> QED
    BY <2>1, <2>3, <2>4 DEF StateOK
<1>8. CASE Acknowledge(p)
  <2>1. PICK n \in Nat : n = Len(todo[p])
    BY DEF StateOK
  <2>2. /\ head' = [head EXCEPT ![p] = @ + n] /\ size' = [size EXCEPT ![p] = @ + 2 * n]
        /\ todo' = [todo EXCEPT ![p] = <<>>] /\ Go(p, "cleared", "open")
        /\ UNCHANGED <<written, used>>
    BY <1>8, <2>1 DEF Acknowledge
  <2>3. head' \in [Procs -> Nat] /\ size' \in [Procs -> Nat]
    BY <2>1, <2>2 DEF StateOK
  <2>4. <<>> \in Seq(Rec)
    OBVIOUS
  <2>5. todo' \in [Procs -> Seq(Rec)]
    BY <2>2, <2>4 DEF StateOK
  <2>6. pc' \in [Procs -> Places]
    BY <1>1, <2>2 DEF Places, Writing
  <2> QED
    BY <2>2, <2>3, <2>5, <2>6 DEF StateOK
<1>9. CASE Fault(p)
  <2>1. <<>> \in Seq(Rec)
    OBVIOUS
  <2>2. todo' \in [Procs -> Seq(Rec)]
    BY <1>9, <2>1 DEF Fault, StateOK
  <2>3. used' \in [Events -> Nat]
    BY <1>2, <1>9 DEF Fault
  <2>4. pc' \in [Procs -> Places]
    BY <1>9 DEF Fault, StateOK, Places, Writing
  <2>5. UNCHANGED <<head, size, written>>
    BY <1>9 DEF Fault
  <2> QED
    BY <2>2, <2>3, <2>4, <2>5 DEF StateOK
<1>10. CASE Unlock(p)
  <2>1. used' \in [Events -> Nat]
    BY <1>2, <1>10 DEF Unlock, StateOK
  <2>2. pc' \in [Procs -> Places]
    BY <1>10 DEF Unlock, StateOK, Places
  <2> QED
    BY <1>10, <2>1, <2>2 DEF Unlock, StateOK, storeVars
<1>11. CASE Kill(p)
  <2>1. used' \in [Events -> Nat]
    BY <1>2, <1>11 DEF Kill
  <2>2. pc' \in [Procs -> Places]
    BY <1>11 DEF Kill, Release, StateOK, Places
  <2> QED
    BY <1>11, <2>1, <2>2 DEF Kill, Release, StateOK, storeVars
<1> QED
  BY <1>4, <1>5, <1>6, <1>7, <1>8, <1>9, <1>10, <1>11 DEF OpenNext, AppendNext

LEMMA ShapeStep ==
    ASSUME StateOK, DiskOK, WritersOK, [Next]_vars
    PROVE  StateOK'
<1>1. CASE \E p \in Procs : OpenNext(p) \/ AppendNext(p) \/ Unlock(p) \/ Unlink(p) \/ Kill(p)
  BY <1>1, ShapeProcess
<1>2. CASE PowerLoss
  <2>1. pc' \in [Procs -> Places]
    BY <1>2 DEF PowerLoss, Release, StateOK, Places
  <2>2. used' \in [{"appends", "kills", "losses", "faults", "closes", "reads"} -> Nat]
    BY <1>2 DEF PowerLoss, Spend, StateOK
  <2> QED
    BY <1>2, <2>1, <2>2 DEF PowerLoss, Release, StateOK, storeVars
<1>3. CASE ReadNext
  <2>1. used' \in [{"appends", "kills", "losses", "faults", "closes", "reads"} -> Nat]
    <3>1. used' = used \/ used' = [used EXCEPT !["reads"] = @ + 1]
      BY <1>3 DEF ReadNext, ReadRefused, ReadMarker, ReadLog, ReadMarkerAgain, Spend
    <3> QED
      BY <3>1 DEF StateOK
  <2>2. UNCHANGED <<pc, storeVars>>
    BY <1>3 DEF ReadNext, ReadRefused, ReadMarker, ReadLog, ReadMarkerAgain
  <2> QED
    BY <2>1, <2>2 DEF StateOK, storeVars
<1>4. CASE UNCHANGED vars
  BY <1>4 DEF vars, StateOK, storeVars
<1> QED
  BY <1>1, <1>2, <1>3, <1>4 DEF Next

LEMMA DiskStep ==
    ASSUME StateOK, DiskOK, WritersOK, Alone, ~KeepsWriting, [Next]_vars
    PROVE  DiskOK' /\ WritersOK' /\ (Effect \/ (PowerLoss /\ Loss))
<1>1. CASE \E p \in Procs : OpenNext(p) \/ AppendNext(p) \/ Unlock(p) \/ Unlink(p) \/ Kill(p)
  BY <1>1, ProcessStep
<1>2. CASE PowerLoss
  BY <1>2, PowerLossStep
<1>3. CASE ReadNext \/ UNCHANGED vars
  BY <1>3, ReadStep
<1> QED
  BY <1>1, <1>2, <1>3 DEF Next

LEMMA DiskInit == Init => StateOK /\ DiskOK /\ WritersOK
<1> SUFFICES ASSUME Init PROVE StateOK /\ DiskOK /\ WritersOK
  OBVIOUS
<1>1. <<>> \in Seq(Rec) /\ <<>> \in Seq(LogCell)
  OBVIOUS
<1>2. Cells(<<>>) = <<>>
  <2>1. PICK e \in Seq(Rec) : e = <<>>
    BY <1>1
  <2>2. Cells(e) \in Seq(LogCell) /\ Len(Cells(e)) = 2 * Len(e)
    BY CellsAre
  <2>3. Len(e) = 0
    BY <2>1
  <2> QED
    BY <2>1, <2>2, <2>3
<1>3. StateOK
  BY <1>1 DEF Init, StateOK, Places
<1>4. Starts(<<>>, <<>>) /\ WholeLog(<<>>, <<>>)
  BY <1>1, <1>2, StartsAll
<1>5. Numbered(<<>>)
  BY DEF Numbered
<1>6. DiskOK
  BY <1>1, <1>4, <1>5 DEF Init, DiskOK
<1>7. WritersOK
  BY DEF Init, WritersOK, WriterOK, Holding, Appending
<1> QED
  BY <1>3, <1>6, <1>7
-----------------------------------------------------------------------------
(* What the log holds, for its readers.                                    *)

Shown(l, m) == Whole(Rolled(l, m))

LEMMA ShownIs ==
    ASSUME NEW c, NEW l, NEW L, NEW m, NEW M, DiskIs(c, l, L, m, M)
    PROVE  /\ c \in Seq(Rec) /\ Numbered(c)
           /\ l \in Seq(LogCell) /\ IsPrefix(Cells(c), l) /\ Prefix(l, 2 * Len(c)) = Cells(c)
           /\ \/ m = At(2 * Len(c)) /\ Shown(l, m) = Cells(c)
              \/ m \in {Absent, Empty} /\ Shown(l, m) = l /\ WholeLog(l, c)
<1>1. c \in Seq(Rec) /\ Numbered(c) /\ Starts(l, c)
  BY DEF DiskIs
<1>2. l \in Seq(LogCell) /\ IsPrefix(Cells(c), l) /\ Prefix(l, 2 * Len(c)) = Cells(c)
  BY <1>1, StartsTell
<1>3. CASE m = At(2 * Len(c))
  <2>1. m.kind = "at" /\ m.offset = 2 * Len(c)
    BY <1>3 DEF At
  <2>2. Rolled(l, m) = Cells(c)
    BY <1>2, <2>1 DEF Rolled
  <2>3. Shown(l, m) = Cells(c)
    BY <1>1, <2>2, WholeCells DEF Shown
  <2> QED
    BY <1>1, <1>2, <1>3, <2>3
<1>4. CASE m \in {Absent, Empty}
  <2>1. m.kind # "at"
    BY <1>4 DEF Absent, Empty
  <2>2. M # {At(2 * Len(c))}
    BY <1>4, MarkersDiffer DEF DiskIs
  <2>3. WholeLog(l, c)
    BY <2>2 DEF DiskIs
  <2>4. Whole(l) = l
    BY <1>1, <2>3, WholeLogTells
  <2>5. Shown(l, m) = l
    BY <2>1, <2>4 DEF Shown, Rolled
  <2> QED
    BY <1>1, <1>2, <1>4, <2>3, <2>5
<1> QED
  BY <1>3, <1>4 DEF DiskIs

LEMMA DiskOKAfter == DiskOK' <=> DiskIs(confirmed', log', lossLog', marker', lossMarker')
BY DEF DiskOK, DiskIs, Boundary

(* The log never loses what it shows but by a power loss.                  *)
LEMMA ShownGrows ==
    ASSUME DiskOK, DiskOK', Effect
    PROVE  IsPrefix(Shown(log, marker), Shown(log', marker'))
<1>1. DiskIs(confirmed, log, lossLog, marker, lossMarker)
  BY DiskOKIs
<1>2. DiskIs(confirmed', log', lossLog', marker', lossMarker')
  BY DiskOKAfter
<1>3. PICK c \in Seq(Rec) : c = confirmed /\ IsPrefix(Cells(c), log)
  BY <1>1, ShownIs
<1>4. Cells(c) \in Seq(LogCell) /\ log \in Seq(LogCell)
  BY <1>1, ShownIs, CellsAre
<1>5. CASE UNCHANGED <<marker, confirmed>> /\ (log' = log \/ marker = At(Boundary))
  <2>1. CASE log' = log
    <3>1. Shown(log', marker') = Shown(log, marker) /\ Shown(log, marker) \in Seq(LogCell)
      BY <1>1, <1>3, <1>4, <1>5, <2>1, ShownIs
    <3> QED
      BY <3>1, PrefixSame
  <2>2. CASE marker = At(Boundary)
    <3>1. Shown(log, marker) = Cells(c)
      BY <1>1, <1>3, <2>2, ShownIs, MarkersDiffer DEF Boundary
    <3>2. Shown(log', marker') = Cells(c)
      BY <1>2, <1>3, <1>5, <2>2, ShownIs, MarkersDiffer DEF Boundary
    <3> QED
      BY <1>4, <3>1, <3>2, PrefixSame
  <2> QED
    BY <1>5, <2>1, <2>2
<1>6. CASE /\ log' = log /\ confirmed' = confirmed
           /\ marker' \in {Absent, Empty} \/ log = Cells(confirmed)
  <2>1. Shown(log, marker) = Cells(c) \/ Shown(log, marker) = log
    BY <1>1, <1>3, ShownIs
  <2>2. Shown(log', marker') = log \/ (Shown(log', marker') = Cells(c) /\ log = Cells(c))
    BY <1>2, <1>3, <1>6, ShownIs, MarkersDiffer
  <2> QED
    BY <1>3, <1>4, <2>1, <2>2, PrefixSame
<1>7. CASE /\ log' = log /\ marker' = marker /\ marker = Absent
  <2>1. Shown(log, marker) = log
    BY <1>1, <1>7, ShownIs, MarkersDiffer
  <2> QED
    BY <1>4, <1>7, <2>1, PrefixSame
<1> QED
  BY <1>5, <1>6, <1>7 DEF Effect

(* What a reader captured grows with the file until a batch is undone.     *)
LEMMA LogGrows ==
    ASSUME StateOK, DiskOK, WritersOK, Alone, ~KeepsWriting, NEW p \in Procs,
           OpenNext(p) \/ AppendNext(p) \/ Unlock(p) \/ Unlink(p) \/ Kill(p),
           ~TruncateBatch(p)
    PROVE  IsPrefix(log, log') /\ UNCHANGED <<reader, served>>
<1>1. log \in Seq(LogCell)
  BY StartsTell DEF DiskOK
<1>2. CASE Scan(p)
  <2>1. log' = log
    BY <1>2, ScanStep
  <2> QED
    BY <1>1, <1>2, <2>1, PrefixSame DEF Scan, readVars
<1>3. CASE WriteCell(p)
  BY <1>3, WriteCellStep DEF WriteCell, readVars
<1>4. CASE ~Scan(p) /\ ~WriteCell(p)
  <2>1. log' = log /\ UNCHANGED <<reader, served>>
    BY <1>4 DEF OpenNext, AppendNext, OpenLockFile, Flock, FlockRefused, RefuseMarker,
                NothingPending, Unlink, RemoveMarker, SyncMarker, WriteMarker, MarkDurable,
                SyncLog, SetLog, ClearMarker, BeginAppend, Acknowledge, Fault, Unlock, Kill,
                fileVars, readVars
  <2> QED
    BY <1>1, <2>1, PrefixSame
<1> QED
  BY <1>2, <1>3, <1>4

LEMMA LossesStay ==
    ASSUME StateOK, [Next]_vars, ~PowerLoss
    PROVE  used'.losses = used.losses
<1>1. \/ used' = used
      \/ \E what \in {"appends", "kills", "faults", "closes", "reads"} :
            used' = [used EXCEPT ![what] = @ + 1]
  BY DEF Next, OpenNext, AppendNext, ReadNext, OpenLockFile, Flock, FlockRefused, RefuseMarker,
         NothingPending, TruncateBatch, Scan, Unlink, RemoveMarker, SyncMarker, WriteMarker,
         MarkDurable, WriteCell, SyncLog, ClearMarker, BeginAppend, Acknowledge, Fault, Unlock,
         Kill, Release, ReadRefused, ReadMarker, ReadLog, ReadMarkerAgain, Spend, vars
<1> QED
  BY <1>1 DEF StateOK

LEMMA ReaderStep ==
    ASSUME StateOK, DiskOK, WritersOK, ReaderOK, Alone, ~KeepsWriting, [Next]_vars
    PROVE  ReaderOK'
<1>1. log \in Seq(LogCell) /\ log' \in Seq(LogCell)
  <2>1. DiskOK'
    BY DiskStep
  <2> QED
    BY <2>1, DiskOKIs, DiskOKAfter, ShownIs
<1>2. CASE \E p \in Procs : TruncateBatch(p)
  <2>1. /\ reader' = [reader EXCEPT !.undone = reader.undone \/ reader.at = "captured"]
        /\ served' = served
    BY <1>2 DEF TruncateBatch
  <2> QED
    BY <2>1 DEF ReaderOK
<1>3. CASE \E p \in Procs : /\ OpenNext(p) \/ AppendNext(p) \/ Unlock(p) \/ Unlink(p) \/ Kill(p)
                            /\ ~TruncateBatch(p)
  <2>1. IsPrefix(log, log') /\ UNCHANGED <<reader, served>>
    BY <1>3, LogGrows
  <2>2. reader.raw \in Seq(LogCell)
    BY DEF ReaderOK
  <2>3. reader.at = "captured" /\ ~reader.undone => IsPrefix(reader.raw, log')
    BY <1>1, <2>1, <2>2, PrefixTrans DEF ReaderOK
  <2> QED
    BY <2>1, <2>3 DEF ReaderOK
<1>4. <<>> \in Seq(LogCell)
  OBVIOUS
<1>5. CASE PowerLoss
  BY <1>4, <1>5 DEF PowerLoss, ReaderOK
<1>6. CASE ReadNext
  <2>1. log' = log
    BY <1>6 DEF ReadNext, ReadRefused, ReadMarker, ReadLog, ReadMarkerAgain, fileVars
  <2>2. CASE ReadRefused("idle") \/ ReadRefused("captured") \/ ReadMarker
    BY <2>2 DEF ReadRefused, ReadMarker, ReaderOK
  <2>3. CASE ReadLog
    BY <1>1, <2>1, <2>3, PrefixSame DEF ReadLog, ReaderOK
  <2>4. CASE ReadMarkerAgain
    <3>1. Served(reader.raw) \in Seq(LogCell)
      <4>1. reader.raw \in Seq(LogCell)
        BY DEF ReaderOK
      <4>2. marker \in {Absent, Empty, At(Boundary)} /\ Boundary \in Nat
        BY DEF DiskOK, Boundary
      <4>3. Rolled(reader.raw, marker) \in Seq(LogCell)
        <5>1. CASE marker = At(Boundary)
          <6>1. Rolled(reader.raw, marker) = Prefix(reader.raw, Boundary)
            BY <5>1 DEF Rolled, At
          <6> QED
            BY <4>1, <4>2, <6>1, PrefixCut
        <5>2. CASE marker \in {Absent, Empty}
          BY <4>1, <5>2 DEF Rolled, Absent, Empty
        <5> QED
          BY <4>2, <5>1, <5>2
      <4> QED
        BY <4>3, WholeCut DEF Served
    <3> QED
      BY <1>4, <2>4, <3>1 DEF ReadMarkerAgain, ReaderOK
  <2> QED
    BY <1>6, <2>2, <2>3, <2>4 DEF ReadNext
<1>7. CASE UNCHANGED vars
  BY <1>7 DEF vars, readVars, fileVars, ReaderOK
<1> QED
  BY <1>2, <1>3, <1>5, <1>6, <1>7 DEF Next
(* A read returns a beginning of what the log shows, or knows it may not.  *)
LEMMA ReadIsShown ==
    ASSUME DiskOK, ReaderOK, reader.at = "captured", ~reader.undone
    PROVE  IsPrefix(Served(reader.raw), Shown(log, marker))
<1>1. PICK raw \in Seq(LogCell) : raw = reader.raw /\ IsPrefix(raw, log)
  BY DEF ReaderOK
<1>2. DiskIs(confirmed, log, lossLog, marker, lossMarker)
  BY DiskOKIs
<1>3. /\ confirmed \in Seq(Rec) /\ log \in Seq(LogCell)
      /\ Prefix(log, 2 * Len(confirmed)) = Cells(confirmed)
  BY <1>2, ShownIs
<1>4. PICK n \in Nat : n = 2 * Len(confirmed)
  BY <1>3
<1>5. PICK cut \in Seq(LogCell) : cut = Rolled(raw, marker) /\ IsPrefix(cut, Shown(log, marker))
  <2>1. CASE marker = At(2 * Len(confirmed)) /\ Shown(log, marker) = Cells(confirmed)
    <3>1. Rolled(raw, marker) = Prefix(raw, n)
      BY <1>4, <2>1 DEF Rolled, At
    <3>2. Prefix(raw, n) \in Seq(LogCell) /\ IsPrefix(Prefix(raw, n), Prefix(log, n))
      BY <1>1, <1>3, PrefixCut, PrefixCutMore
    <3> QED
      BY <1>3, <1>4, <2>1, <3>1, <3>2
  <2>2. CASE marker \in {Absent, Empty} /\ Shown(log, marker) = log
    <3>1. Rolled(raw, marker) = raw
      BY <2>2 DEF Rolled, Absent, Empty
    <3> QED
      BY <1>1, <2>2, <3>1
  <2> QED
    BY <1>2, <2>1, <2>2, ShownIs
<1>6. Shown(log, marker) \in Seq(LogCell)
  BY <1>2, <1>3, ShownIs, CellsAre
<1>7. Whole(cut) \in Seq(LogCell) /\ IsPrefix(Whole(cut), cut)
  BY WholeCut
<1>8. IsPrefix(Whole(cut), Shown(log, marker))
  BY <1>5, <1>6, <1>7, PrefixTrans
<1> QED
  BY <1>1, <1>5, <1>8 DEF Served

LEMMA ServedStep ==
    ASSUME StateOK, DiskOK, WritersOK, ReaderOK, ServedStays, Alone, ~KeepsWriting, [Next]_vars
    PROVE  ServedStays'
<1>1. ServedStays <=> \/ used.losses > 0 \/ served.undone
                      \/ IsPrefix(served.lines, Shown(log, marker))
  BY DEF ServedStays, Shown
<1>2. ServedStays' <=> \/ used'.losses > 0 \/ served'.undone
                       \/ IsPrefix(served'.lines, Shown(log', marker'))
  BY DEF ServedStays, Shown
<1>3. used.losses \in Nat
  BY DEF StateOK
<1>4. CASE PowerLoss
  <2>1. used'.losses = used.losses + 1
    BY <1>4 DEF PowerLoss, Spend, StateOK
  <2> QED
    BY <1>2, <1>3, <2>1
<1>5. CASE ReadMarkerAgain
  <2>1. /\ reader.at = "captured" /\ log' = log /\ marker' = marker
        /\ served' = [lines |-> Served(reader.raw), undone |-> reader.undone]
    BY <1>5 DEF ReadMarkerAgain, fileVars
  <2>2. served'.lines = Served(reader.raw) /\ served'.undone = reader.undone
    BY <2>1
  <2> QED
    BY <1>2, <2>1, <2>2, ReadIsShown
<1>6. CASE ~PowerLoss /\ ~ReadMarkerAgain
  <2>1. used'.losses = used.losses
    BY <1>6, LossesStay
  <2>2. served' = served
    BY <1>6 DEF Next, OpenNext, AppendNext, ReadNext, OpenLockFile, Flock, FlockRefused,
         RefuseMarker, NothingPending, TruncateBatch, Scan, Unlink, RemoveMarker, SyncMarker,
         WriteMarker, MarkDurable, WriteCell, SyncLog, ClearMarker, BeginAppend, Acknowledge,
         Fault, Unlock, Kill, ReadRefused, ReadMarker, ReadLog, vars, readVars
  <2>3. DiskOK' /\ Effect
    BY <1>6, DiskStep
  <2>4. PICK x, y : x = Shown(log, marker) /\ y = Shown(log', marker')
    OBVIOUS
  <2>5. IsPrefix(x, y) /\ x \in Seq(LogCell) /\ y \in Seq(LogCell) /\ served.lines \in Seq(LogCell)
    <3>1. DiskIs(confirmed, log, lossLog, marker, lossMarker)
      BY DiskOKIs
    <3>2. DiskIs(confirmed', log', lossLog', marker', lossMarker')
      BY <2>3, DiskOKAfter
    <3>3. x \in Seq(LogCell)
      BY <2>4, <3>1, ShownIs, CellsAre
    <3>4. y \in Seq(LogCell)
      BY <2>4, <3>2, ShownIs, CellsAre
    <3> QED
      BY <2>3, <2>4, <3>3, <3>4, ShownGrows DEF ReaderOK
  <2>6. IsPrefix(served.lines, x) => IsPrefix(served.lines, y)
    BY <2>5, PrefixTrans
  <2> QED
    BY <1>1, <1>2, <2>1, <2>2, <2>4, <2>6
<1> QED
  BY <1>4, <1>5, <1>6

LEMMA ReaderInit == Init => ReaderOK /\ ServedStays
<1> SUFFICES ASSUME Init PROVE ReaderOK /\ ServedStays
  OBVIOUS
<1>1. <<>> \in Seq(LogCell)
  OBVIOUS
<1>2. ReaderOK
  BY <1>1 DEF Init, ReaderOK
<1>3. DiskIs(confirmed, log, lossLog, marker, lossMarker)
  BY DiskInit, DiskOKIs
<1>4. PICK x \in Seq(LogCell) : x = Shown(log, marker)
  BY <1>3, ShownIs, CellsAre
<1>5. PICK e \in Seq(LogCell) : e = <<>>
  BY <1>1
<1>6. IsPrefix(e, x)
  <2>1. Len(e) <= Len(x) /\ \A i \in 1 .. Len(e) : e[i] = x[i]
    BY <1>5
  <2> QED
    BY <2>1, PrefixIs
<1>7. served.lines = <<>>
  BY DEF Init
<1> QED
  BY <1>2, <1>4, <1>5, <1>6, <1>7 DEF ServedStays, Shown

LEMMA LogInit == Init => LogInv
BY DiskInit, ReaderInit DEF LogInv

LEMMA LogStep ==
    ASSUME LogInv, SingleWriter, ~KeepsWriting, [Next]_vars
    PROVE  LogInv'
BY AloneIs, DiskStep, ShapeStep, ReaderStep, ServedStep DEF LogInv

-----------------------------------------------------------------------------
(* With one writer at a time, and callers that stop appending after an     *)
(* append failed, a record whose append returned survives every crash,     *)
(* power loss and failing call (Append, recoverAndScan, clearPending).     *)
THEOREM ConfirmedRecordsSurvive ==
    ~KeepsWriting => (Spec /\ []SingleWriter => []ConfirmedSurvives)
<1> SUFFICES ASSUME ~KeepsWriting PROVE Spec /\ []SingleWriter => []ConfirmedSurvives
  OBVIOUS
<1>1. Init => LogInv
  BY LogInit
<1>2. LogInv /\ SingleWriter /\ [Next]_vars => LogInv'
  BY LogStep
<1>3. LogInv => ConfirmedSurvives
  BY DiskSurvives DEF LogInv
<1> QED
  BY <1>1, <1>2, <1>3, PTL DEF Spec

(* Nor does any of them leave a log that Open refuses as damaged           *)
(* (recoverAndScan).                                                       *)
THEOREM TheLogIsNeverCorrupt ==
    ~KeepsWriting => (Spec /\ []SingleWriter => []NeverCorrupt)
<1> SUFFICES ASSUME ~KeepsWriting PROVE Spec /\ []SingleWriter => []NeverCorrupt
  OBVIOUS
<1>1. Init => LogInv
  BY LogInit
<1>2. LogInv /\ SingleWriter /\ [Next]_vars => LogInv'
  BY LogStep
<1>3. LogInv => NeverCorrupt
  BY DiskSurvives DEF LogInv
<1> QED
  BY <1>1, <1>2, <1>3, PTL DEF Spec

(* What a lock-free read returned stays in the log, unless a batch was     *)
(* undone during the read or the power failed (readConfirmed).             *)
THEOREM WhatWasServedStays ==
    ~KeepsWriting => (Spec /\ []SingleWriter => []ServedStays)
<1> SUFFICES ASSUME ~KeepsWriting PROVE Spec /\ []SingleWriter => []ServedStays
  OBVIOUS
<1>1. Init => LogInv
  BY LogInit
<1>2. LogInv /\ SingleWriter /\ [Next]_vars => LogInv'
  BY LogStep
<1>3. LogInv => ServedStays
  BY DEF LogInv
<1> QED
  BY <1>1, <1>2, <1>3, PTL DEF Spec
-----------------------------------------------------------------------------
(* The log implements the append-only log of whole batches.                *)

LEMMA SuffixOf ==
    ASSUME NEW c \in Seq(Rec), NEW b \in Seq(Rec)
    PROVE  Abstract!Suffix(c, c \o b) = b
<1>1. PICK r \in Seq(Rec) : r = c \o b
  BY ConcatProperties
<1>2. PICK n \in Nat, m \in Nat : n = Len(c) /\ m = Len(b)
  OBVIOUS
<1>3. Len(r) = n + m /\ \A i \in 1 .. n + m : r[i] = IF i <= n THEN c[i] ELSE b[i - n]
  BY <1>1, <1>2, ConcatProperties
<1>4. PICK s : s = SubSeq(r, n + 1, n + m)
  OBVIOUS
<1>5. s \in Seq(Rec) /\ Len(s) = m /\ \A i \in 1 .. m : s[i] = r[n + i]
  <2>1. \A i \in n + 1 .. n + m : r[i] \in Rec
    BY <1>3
  <2>2. /\ s \in Seq(Rec) /\ Len(s) = IF n + 1 <= n + m THEN (n + m) - (n + 1) + 1 ELSE 0
        /\ \A i \in 1 .. (n + m) - (n + 1) + 1 : s[i] = r[(n + 1) + i - 1]
    BY <1>4, <2>1, SubSeqProperties
  <2>3. \A i \in 1 .. m : (n + 1) + i - 1 = n + i
    OBVIOUS
  <2>4. (n + m) - (n + 1) + 1 = m /\ (n + 1 <= n + m <=> m # 0)
    OBVIOUS
  <2> QED
    BY <2>2, <2>3, <2>4
<1>6. ASSUME NEW i \in 1 .. m PROVE s[i] = b[i]
  <2>1. n + i \in 1 .. n + m /\ ~(n + i <= n) /\ (n + i) - n = i
    OBVIOUS
  <2> QED
    BY <1>3, <1>5, <2>1
<1>7. s = b
  <2>1. Len(s) = Len(b) /\ \A i \in 1 .. Len(s) : s[i] = b[i]
    BY <1>2, <1>5, <1>6
  <2> QED
    BY <1>5, <2>1, SeqEqual
<1> QED
  BY <1>1, <1>2, <1>3, <1>4, <1>7 DEF Abstract!Suffix

LEMMA VisibleIs ==
    ASSUME NEW c, NEW l, NEW L, NEW m, NEW M, DiskIs(c, l, L, m, M)
    PROVE  \/ Records(Whole(Rolled(l, m))) = c
           \/ /\ Records(Whole(Rolled(l, m))) = Records(l) /\ m # At(2 * Len(c))
              /\ WholeLog(l, c)
<1>1. c \in Seq(Rec)
  BY ShownIs
<1>2. CASE m = At(2 * Len(c)) /\ Shown(l, m) = Cells(c)
  BY <1>1, <1>2, WholeCells DEF Shown
<1>3. CASE m \in {Absent, Empty} /\ Shown(l, m) = l /\ WholeLog(l, c)
  BY <1>3, MarkersDiffer DEF Shown
<1> QED
  BY <1>2, <1>3, ShownIs

LEMMA AbstractStep ==
    ASSUME DiskOK, DiskOK', Effect \/ Loss
    PROVE  [Abstract!Next]_(Abstract!logVars)
<1>1. DiskIs(confirmed, log, lossLog, marker, lossMarker)
  BY DiskOKIs
<1>2. DiskIs(confirmed', log', lossLog', marker', lossMarker')
  BY DiskOKAfter
<1>3. PICK c \in Seq(Rec) : c = confirmed /\ Numbered(c)
  BY DEF DiskOK
<1>4. PICK v : v = Records(Whole(Rolled(log, marker)))
  OBVIOUS
<1>5. PICK w : w = Records(Whole(Rolled(log', marker')))
  OBVIOUS
<1>6. PICK r : r = Records(log)
  OBVIOUS
<1>7. v = c \/ (v = r /\ marker # At(2 * Len(c)) /\ WholeLog(log, c))
  BY <1>1, <1>3, <1>4, <1>6, VisibleIs
<1>8. CASE confirmed' = confirmed /\ log' = log
  <2>1. w = c \/ (w = r /\ WholeLog(log, c))
    BY <1>2, <1>3, <1>5, <1>6, <1>8, VisibleIs
  <2>2. CASE v = w
    BY <1>4, <1>5, <1>8, <2>2 DEF Abstract!logVars
  <2>3. CASE v # w /\ v = c
    <3>1. w = r /\ r # c /\ WholeLog(log, c)
      BY <2>1, <2>3
    <3>2. /\ r \in Seq(Rec) /\ Numbered(r) /\ IsPrefix(c, r)
          /\ \E b \in Seq(Rec) : Follows(c, b) /\ r = c \o b
      BY <1>3, <1>6, <3>1, WholeLogTells
    <3>3. PICK b \in Seq(Rec) : Follows(c, b) /\ r = c \o b
      BY <3>2
    <3>4. Abstract!Suffix(c, w) = b
      BY <3>1, <3>3, SuffixOf
    <3>5. Abstract!WholeBatch(Abstract!Suffix(c, w))
      BY <3>3, <3>4 DEF Follows
    <3>6. IsStrictPrefix(c, w) /\ \A i \in DOMAIN w : w[i].seq = i
      BY <3>1, <3>2 DEF IsStrictPrefix, Numbered
    <3>7. /\ Records(Whole(Rolled(log, marker))) = c /\ confirmed = c /\ confirmed' = c
          /\ Records(Whole(Rolled(log', marker'))) = w
      BY <1>3, <1>4, <1>5, <1>8, <2>3
    <3>8. Abstract!Publish
      <4>1. Abstract!IsStrictPrefix(c, w)
        BY <3>6 DEF IsStrictPrefix, IsPrefix, Abstract!IsStrictPrefix, Abstract!IsPrefix
      <4> QED
        BY <3>5, <3>6, <3>7, <4>1 DEF Abstract!Publish
    <3> QED
      BY <3>8 DEF Abstract!Next
  <2>4. CASE v # w /\ v # c
    <3>1. w = c
      BY <1>7, <2>1, <2>4
    <3>2. Abstract!Withdraw
      BY <1>3, <1>4, <1>5, <1>8, <2>4, <3>1 DEF Abstract!Withdraw
    <3> QED
      BY <3>2 DEF Abstract!Next
  <2> QED
    BY <2>2, <2>3, <2>4
<1>9. CASE UNCHANGED <<marker, confirmed>> /\ marker = At(Boundary)
  <2>1. v = c
    BY <1>3, <1>7, <1>9 DEF Boundary
  <2>2. w = c
    BY <1>2, <1>3, <1>5, <1>9, VisibleIs DEF Boundary
  <2> QED
    BY <1>4, <1>5, <1>9, <2>1, <2>2 DEF Abstract!logVars
<1>10. CASE /\ log' = log /\ marker' = marker /\ marker = Absent
            /\ WholeLog(log, confirmed) /\ confirmed' = Records(log)
  <2>1. v = w
    BY <1>4, <1>5, <1>10
  <2>2. v = r
    <3>1. Shown(log, marker) = log
      BY <1>1, <1>10, ShownIs, MarkersDiffer
    <3> QED
      BY <1>4, <1>6, <3>1 DEF Shown
  <2>3. CASE v = c
    BY <1>3, <1>4, <1>5, <1>6, <1>10, <2>1, <2>2, <2>3 DEF Abstract!logVars
  <2>4. CASE v # c
    <3>1. Abstract!Confirm
      BY <1>3, <1>4, <1>5, <1>6, <1>10, <2>1, <2>2, <2>4 DEF Abstract!Confirm
    <3> QED
      BY <3>1 DEF Abstract!Next
  <2> QED
    BY <2>3, <2>4
<1> QED
  BY <1>8, <1>9, <1>10 DEF Effect, Loss

LEMMA AbstractInit == Init => Abstract!Init
<1> SUFFICES ASSUME Init PROVE Abstract!Init
  OBVIOUS
<1>1. DiskIs(confirmed, log, lossLog, marker, lossMarker)
  BY DiskInit, DiskOKIs
<1>2. PICK l \in Seq(LogCell) : l = <<>>
  <2>1. <<>> \in Seq(LogCell)
    OBVIOUS
  <2> QED
    BY <2>1
<1>3. Records(l) = <<>>
  <2>1. Len(l) \div 2 = 0
    BY <1>2
  <2> QED
    BY <2>1 DEF Records
<1>4. confirmed = <<>> /\ log = l
  BY <1>2 DEF Init
<1> QED
  BY <1>1, <1>3, <1>4, VisibleIs DEF Abstract!Init

(* With one writer at a time, and callers that stop appending after an     *)
(* append failed, the file with its marker is at every moment the log of   *)
(* AtomicLog: batches appear whole and in order, what was confirmed stays, *)
(* and only the last batch, not yet confirmed, may be withdrawn.           *)
THEOREM TheLogIsAtomic ==
    ~KeepsWriting => (Spec /\ []SingleWriter => ImplementsAtomicLog)
<1> SUFFICES ASSUME ~KeepsWriting PROVE Spec /\ []SingleWriter => ImplementsAtomicLog
  OBVIOUS
<1>1. Init => LogInv /\ Abstract!Init
  BY LogInit, AbstractInit
<1>2. LogInv /\ SingleWriter /\ [Next]_vars => LogInv'
  BY LogStep
<1>3. LogInv /\ SingleWriter /\ [Next]_vars => [Abstract!Next]_(Abstract!logVars)
  <2> SUFFICES ASSUME LogInv, SingleWriter, [Next]_vars
               PROVE  [Abstract!Next]_(Abstract!logVars)
    OBVIOUS
  <2>1. DiskOK /\ DiskOK' /\ (Effect \/ Loss)
    BY AloneIs, DiskStep DEF LogInv
  <2> QED
    BY <2>1, AbstractStep
<1> QED
  BY <1>1, <1>2, <1>3, PTL DEF Spec, ImplementsAtomicLog, Abstract!Spec
-----------------------------------------------------------------------------
(* The writer lock.                                                        *)

Opened == {p \in Procs : pc[p] # "new"}

Keeping == Writing \cup {"failed", "refused"}

(* Who is past the lock, or waits for it, has the lock file open that the  *)
(* path names, and who is past it holds its lock.                          *)
LockInv ==
    /\ pc \in [Procs -> Places] /\ fd \in [Procs -> Nat]
    /\ held \in [Inodes -> Procs \cup {Nobody}]
    /\ entry \in 0 .. Cardinality(Opened)
    /\ \A p \in Procs : fd[p] <= Cardinality(Opened) /\ (fd[p] = 0 <=> pc[p] = "new")
    /\ \A p \in Procs : pc[p] \in Writing \cup {"locking"} => fd[p] = entry
    /\ \A p \in Procs : pc[p] \in Keeping => held[fd[p]] = p

(* Nobody removes the lock file while another process has it open and      *)
(* waits for its lock or is past it.                                       *)
QuietUnlink == \A p, q \in Procs : Unlink(p) /\ q # p => pc[q] \notin Writing \cup {"locking"}

LEMMA OpenedIs ==
    /\ IsFiniteSet(Opened) /\ Cardinality(Opened) \in Nat
    /\ Cardinality(Opened) <= Cardinality(Procs) /\ Cardinality(Procs) \in Nat
    /\ IsFiniteSet(Opened') /\ Cardinality(Opened') \in Nat
    /\ Cardinality(Opened') <= Cardinality(Procs)
    /\ Opened \subseteq Opened' => Cardinality(Opened) <= Cardinality(Opened')
    /\ \A p : Opened' = Opened \cup {p} /\ p \notin Opened =>
              Cardinality(Opened') = Cardinality(Opened) + 1
<1>1. PICK R, S : R = Opened /\ S = Opened'
  OBVIOUS
<1>2. R \subseteq Procs /\ S \subseteq Procs
  BY <1>1 DEF Opened
<1>3. /\ IsFiniteSet(R) /\ Cardinality(R) \in Nat /\ Cardinality(R) <= Cardinality(Procs)
      /\ IsFiniteSet(S) /\ Cardinality(S) \in Nat /\ Cardinality(S) <= Cardinality(Procs)
      /\ Cardinality(Procs) \in Nat
  BY <1>2, ProcsAssumption, FS_Subset, FS_CardinalityType
<1>4. R \subseteq S => Cardinality(R) <= Cardinality(S)
  BY <1>3, FS_Subset
<1>5. ASSUME NEW p, S = R \cup {p}, p \notin R PROVE Cardinality(S) = Cardinality(R) + 1
  BY <1>3, <1>5, FS_AddElement
<1> QED
  BY <1>1, <1>3, <1>4, <1>5

(* The inode of a lock file that is created.                               *)
LEMMA FreshIs ==
    ASSUME LockInv
    PROVE  Max({0} \cup {fd[q] : q \in Procs}) \in 0 .. Cardinality(Opened)
<1>1. PICK n \in Nat : n = Cardinality(Opened)
  BY OpenedIs
<1>2. PICK S : S = {0} \cup {fd[q] : q \in Procs}
  OBVIOUS
<1>3. S \in SUBSET (0 .. n) /\ S # {}
  BY <1>1, <1>2 DEF LockInv
<1>4. Max(S) \in S
  BY <1>3, LargestOf
<1> QED
  BY <1>1, <1>2, <1>3, <1>4

LEMMA LockInit == Init => LockInv
<1> SUFFICES ASSUME Init PROVE LockInv
  OBVIOUS
<1>1. Cardinality(Opened) \in Nat
  BY OpenedIs
<1> QED
  BY <1>1 DEF Init, LockInv, Places, Writing, Appending, Keeping

(* A step of p that leaves the locks alone.                                *)
LEMMA LockMove ==
    ASSUME LockInv, NEW p \in Procs, NEW to \in Places, UNCHANGED lockVars,
           pc[p] # "new", to # "new", pc' = [pc EXCEPT ![p] = to],
           to \in Writing \cup {"locking"} => pc[p] \in Writing \cup {"locking"},
           to \in Keeping => pc[p] \in Keeping
    PROVE  LockInv'
<1>1. Opened' = Opened
  BY DEF Opened, LockInv
<1>2. ASSUME NEW q \in Procs
      PROVE  /\ fd[q] = 0 <=> pc'[q] = "new"
             /\ pc'[q] \in Writing \cup {"locking"} => fd[q] = entry
             /\ pc'[q] \in Keeping => held[fd[q]] = q
  <2>1. pc'[q] = IF q = p THEN to ELSE pc[q]
    BY DEF LockInv
  <2> QED
    BY <2>1 DEF LockInv
<1>3. pc' \in [Procs -> Places]
  BY DEF LockInv
<1> QED
  BY <1>1, <1>2, <1>3 DEF LockInv, lockVars

LEMMA LockOpen == ASSUME LockInv, NEW p \in Procs, OpenLockFile(p) PROVE LockInv'
<1>1. pc[p] = "new" /\ pc' = [pc EXCEPT ![p] = "locking"] /\ held' = held
  BY DEF OpenLockFile, Go
<1>2. PICK n \in Nat : n = Cardinality(Opened)
  BY OpenedIs
<1>3. Cardinality(Opened') = n + 1
  <2>1. Opened' = Opened \cup {p} /\ p \notin Opened
    BY <1>1 DEF Opened, LockInv
  <2> QED
    BY <1>2, <2>1, OpenedIs
<1>4. PICK i : /\ entry' = i /\ fd' = [fd EXCEPT ![p] = i]
               /\ \/ entry = 0 /\ i \in 1 .. n + 1
                  \/ entry # 0 /\ i = entry
  <2>1. PICK m \in 0 .. n : m = Max({0} \cup {fd[q] : q \in Procs})
    BY <1>2, FreshIs
  <2>2. PICK i : i = IF entry = 0 THEN 1 + m ELSE entry
    OBVIOUS
  <2>3. entry' = i /\ fd' = [fd EXCEPT ![p] = i]
    BY <2>1, <2>2 DEF OpenLockFile
  <2>4. entry = 0 => i \in 1 .. n + 1
    BY <2>1, <2>2
  <2> QED
    BY <2>2, <2>3, <2>4
<1>5. i \in 1 .. n + 1
  BY <1>2, <1>4 DEF LockInv
<1>6. ASSUME NEW q \in Procs
      PROVE  /\ fd'[q] <= n + 1 /\ (fd'[q] = 0 <=> pc'[q] = "new")
             /\ pc'[q] \in Writing \cup {"locking"} => fd'[q] = i
             /\ pc'[q] \in Keeping => held[fd'[q]] = q
  <2>1. CASE q = p
    <3>1. fd'[p] = i /\ pc'[p] = "locking"
      BY <1>1, <1>4 DEF LockInv
    <3> QED
      BY <1>5, <2>1, <3>1 DEF Keeping, Writing, Appending
  <2>2. CASE q # p
    <3>1. fd'[q] = fd[q] /\ pc'[q] = pc[q]
      BY <1>1, <1>4, <2>2 DEF LockInv
    <3>2. fd[q] <= n /\ fd[q] \in Nat /\ (fd[q] = 0 <=> pc[q] = "new")
      BY <1>2 DEF LockInv
    <3>3. pc[q] \in Writing \cup {"locking"} => fd[q] = entry /\ fd[q] # 0
      BY <3>2 DEF LockInv, Writing, Appending
    <3> QED
      BY <1>4, <3>1, <3>2, <3>3 DEF LockInv
  <2> QED
    BY <2>1, <2>2
<1>7. pc' \in [Procs -> Places] /\ fd' \in [Procs -> Nat]
  BY <1>1, <1>4, <1>5 DEF LockInv, Places
<1> QED
  BY <1>1, <1>3, <1>4, <1>5, <1>6, <1>7 DEF LockInv

LEMMA LockTake == ASSUME LockInv, NEW p \in Procs, Flock(p) PROVE LockInv'
<1>1. /\ pc[p] = "locking" /\ pc' = [pc EXCEPT ![p] = "recovering"]
      /\ held[fd[p]] = Nobody /\ held' = [held EXCEPT ![fd[p]] = p]
      /\ entry' = entry /\ fd' = fd
  BY DEF Flock, Go
<1>2. Opened' = Opened
  BY <1>1 DEF Opened, LockInv
<1>3. fd[p] \in Inodes
  <2>1. fd[p] \in Nat /\ fd[p] # 0 /\ fd[p] <= Cardinality(Opened)
    BY <1>1 DEF LockInv
  <2> QED
    BY <2>1, OpenedIs DEF Inodes
<1>4. ASSUME NEW q \in Procs
      PROVE  /\ fd[q] = 0 <=> pc'[q] = "new"
             /\ pc'[q] \in Writing \cup {"locking"} => fd[q] = entry
             /\ pc'[q] \in Keeping => held'[fd[q]] = q
  <2>1. CASE q = p
    BY <1>1, <1>3, <2>1 DEF LockInv
  <2>2. CASE q # p
    <3>1. pc'[q] = pc[q]
      BY <1>1, <2>2 DEF LockInv
    <3>2. pc[q] \in Keeping => held[fd[q]] = q /\ fd[q] # fd[p]
      BY <1>1, ProcsAssumption DEF LockInv
    <3>3. fd[q] # fd[p] => held'[fd[q]] = held[fd[q]]
      BY <1>1 DEF LockInv
    <3> QED
      BY <3>1, <3>2, <3>3 DEF LockInv
  <2> QED
    BY <2>1, <2>2
<1>5. pc' \in [Procs -> Places] /\ held' \in [Inodes -> Procs \cup {Nobody}]
  BY <1>1 DEF LockInv, Places, Writing
<1> QED
  BY <1>1, <1>2, <1>4, <1>5 DEF LockInv

LEMMA LockGive == ASSUME LockInv, NEW p \in Procs, Unlock(p) PROVE LockInv'
<1>1. /\ pc[p] \in {"open", "failed", "refused"} /\ pc' = [pc EXCEPT ![p] = "unlocked"]
      /\ held' = [held EXCEPT ![fd[p]] = Nobody] /\ entry' = entry /\ fd' = fd
  BY DEF Unlock
<1>2. Opened' = Opened
  BY <1>1 DEF Opened, LockInv
<1>3. held[fd[p]] = p
  BY <1>1 DEF LockInv, Keeping, Writing
<1>4. ASSUME NEW q \in Procs
      PROVE  /\ fd[q] = 0 <=> pc'[q] = "new"
             /\ pc'[q] \in Writing \cup {"locking"} => fd[q] = entry
             /\ pc'[q] \in Keeping => held'[fd[q]] = q
  <2>1. CASE q = p
    <3>1. pc'[q] = "unlocked"
      BY <1>1, <2>1 DEF LockInv
    <3>2. fd[q] # 0
      BY <1>1, <2>1 DEF LockInv
    <3> QED
      BY <3>1, <3>2 DEF Keeping, Writing, Appending
  <2>2. CASE q # p
    <3>1. pc'[q] = pc[q]
      BY <1>1, <2>2 DEF LockInv
    <3>2. pc[q] \in Keeping => held[fd[q]] = q /\ fd[q] # fd[p]
      BY <1>3, <2>2 DEF LockInv
    <3>3. fd[q] # fd[p] => held'[fd[q]] = held[fd[q]]
      BY <1>1 DEF LockInv
    <3> QED
      BY <3>1, <3>2, <3>3 DEF LockInv
  <2> QED
    BY <2>1, <2>2
<1>5. pc' \in [Procs -> Places] /\ held' \in [Inodes -> Procs \cup {Nobody}]
  BY <1>1 DEF LockInv, Places
<1> QED
  BY <1>1, <1>2, <1>4, <1>5 DEF LockInv

LEMMA LockUnlink == ASSUME LockInv, QuietUnlink, NEW p \in Procs, Unlink(p) PROVE LockInv'
<1>1. /\ pc[p] = "unlocked" /\ pc' = [pc EXCEPT ![p] = "gone"]
      /\ entry' = 0 /\ fd' = fd /\ held' = held
  BY DEF Unlink, Go
<1>2. Opened' = Opened
  BY <1>1 DEF Opened, LockInv
<1>3. ASSUME NEW q \in Procs
      PROVE  /\ fd[q] = 0 <=> pc'[q] = "new"
             /\ pc'[q] \notin Writing \cup {"locking"}
             /\ pc'[q] \in Keeping => held[fd[q]] = q
  <2>1. CASE q = p
    <3>1. pc'[q] = "gone" /\ fd[q] # 0
      BY <1>1, <2>1 DEF LockInv
    <3> QED
      BY <3>1 DEF Keeping, Writing, Appending
  <2>2. CASE q # p
    <3>1. pc'[q] = pc[q] /\ pc[q] \notin Writing \cup {"locking"}
      BY <1>1, <2>2 DEF LockInv, QuietUnlink
    <3> QED
      BY <3>1 DEF LockInv
  <2> QED
    BY <2>1, <2>2
<1>4. pc' \in [Procs -> Places] /\ 0 \in 0 .. Cardinality(Opened)
  BY <1>1, OpenedIs DEF LockInv, Places
<1> QED
  BY <1>1, <1>2, <1>3, <1>4 DEF LockInv

LEMMA LockRelease == ASSUME LockInv, NEW S \in SUBSET Procs, Release(S) PROVE LockInv'
<1>1. /\ pc' = [q \in Procs |-> IF q \in S /\ pc[q] # "new" THEN "gone" ELSE pc[q]]
      /\ held' = [i \in Inodes |-> IF held[i] \in S THEN Nobody ELSE held[i]]
      /\ entry' = entry /\ fd' = fd
  BY DEF Release
<1>2. Opened' = Opened
  BY <1>1 DEF Opened, LockInv
<1>3. ASSUME NEW q \in Procs
      PROVE  /\ fd[q] = 0 <=> pc'[q] = "new"
             /\ pc'[q] \in Writing \cup {"locking"} => fd[q] = entry
             /\ pc'[q] \in Keeping => held'[fd[q]] = q
  <2>1. CASE q \in S /\ pc[q] # "new"
    <3>1. pc'[q] = "gone" /\ fd[q] # 0
      BY <1>1, <2>1 DEF LockInv
    <3> QED
      BY <3>1 DEF Keeping, Writing, Appending
  <2>2. CASE ~(q \in S /\ pc[q] # "new")
    <3>1. pc'[q] = pc[q]
      BY <1>1, <2>2
    <3>2. ASSUME pc[q] \in Keeping PROVE held'[fd[q]] = q
      <4>1. held[fd[q]] = q /\ q \notin S
        BY <2>2, <3>2 DEF LockInv, Keeping, Writing, Appending
      <4>2. fd[q] \in Inodes
        <5>1. fd[q] \in Nat /\ fd[q] # 0 /\ fd[q] <= Cardinality(Opened)
          BY <3>2 DEF LockInv, Keeping, Writing, Appending
        <5> QED
          BY <5>1, OpenedIs DEF Inodes
      <4> QED
        BY <1>1, <4>1, <4>2
    <3> QED
      BY <3>1, <3>2 DEF LockInv
  <2> QED
    BY <2>1, <2>2
<1>4. pc' \in [Procs -> Places] /\ held' \in [Inodes -> Procs \cup {Nobody}]
  BY <1>1 DEF LockInv, Places
<1> QED
  BY <1>1, <1>2, <1>3, <1>4 DEF LockInv
LEMMA LockStep ==
    ASSUME LockInv, [QuietUnlink]_vars, [Next]_vars
    PROVE  LockInv'
<1>1. ASSUME NEW p \in Procs, OpenNext(p) \/ AppendNext(p) \/ Unlock(p) \/ Unlink(p) \/ Kill(p)
      PROVE  LockInv'
  <2>1. CASE OpenLockFile(p)
    BY <2>1, LockOpen
  <2>2. CASE Flock(p)
    BY <2>2, LockTake
  <2>3. CASE Unlock(p)
    BY <2>3, LockGive
  <2>4. CASE Kill(p)
    BY <2>4, LockRelease DEF Kill
  <2>5. CASE Unlink(p)
    <3>1. QuietUnlink
      <4>1. pc' # pc
        BY <2>5 DEF Unlink, Go, LockInv
      <4> QED
        BY <4>1 DEF vars
    <3> QED
      BY <2>5, <3>1, LockUnlink
  <2>6. CASE \/ FlockRefused(p) \/ RefuseMarker(p) \/ NothingPending(p) \/ TruncateBatch(p)
             \/ RemoveMarker(p, "truncated", "removed") \/ SyncMarker(p, "removed", "scanning")
             \/ Scan(p) \/ (\E k \in BatchSizes : BeginAppend(p, k))
             \/ WriteMarker(p) \/ MarkDurable(p) \/ WriteCell(p) \/ SyncLog(p)
             \/ ClearMarker(p) \/ Acknowledge(p)
    <3>1. PICK from, to : /\ Go(p, from, to) /\ UNCHANGED lockVars
                          /\ \/ from = "locking" /\ to = "gone"
                             \/ /\ from \in Writing
                                /\ to \in Writing \cup {"refused"}
      <4>1. CASE FlockRefused(p)
        BY <4>1 DEF FlockRefused
      <4>2. CASE RefuseMarker(p) \/ NothingPending(p) \/ TruncateBatch(p)
        BY <4>2 DEF RefuseMarker, NothingPending, TruncateBatch, Writing, Appending
      <4>3. CASE \/ RemoveMarker(p, "truncated", "removed") \/ SyncMarker(p, "removed", "scanning")
                 \/ MarkDurable(p) \/ ClearMarker(p)
        BY <4>3 DEF RemoveMarker, SyncMarker, MarkDurable, ClearMarker, Writing, Appending
      <4>4. CASE Scan(p)
        <5>1. Go(p, "scanning", "open") \/ Go(p, "scanning", "refused")
          BY <4>4 DEF Scan
        <5> QED
          BY <4>4, <5>1 DEF Scan, Writing
      <4>5. CASE \E k \in BatchSizes : BeginAppend(p, k)
        BY <4>5 DEF BeginAppend, Writing, Appending
      <4>6. CASE WriteCell(p)
        <5>1. Go(p, "writing", "written") \/ Go(p, "writing", "writing")
          BY <4>6 DEF WriteCell
        <5> QED
          BY <4>6, <5>1 DEF WriteCell, Writing, Appending
      <4>7. CASE WriteMarker(p) \/ SyncLog(p) \/ Acknowledge(p)
        BY <4>7 DEF WriteMarker, SyncLog, Acknowledge, Writing, Appending
      <4> QED
        BY <2>6, <4>1, <4>2, <4>3, <4>4, <4>5, <4>6, <4>7
    <3>2. pc[p] = from /\ pc' = [pc EXCEPT ![p] = to]
      BY <3>1 DEF Go
    <3>3. /\ pc[p] # "new" /\ to # "new" /\ to \in Places
          /\ to \in Writing \cup {"locking"} => pc[p] \in Writing \cup {"locking"}
          /\ to \in Keeping => pc[p] \in Keeping
      BY <3>1, <3>2 DEF Places, Keeping, Writing, Appending
    <3> QED
      BY <3>1, <3>2, <3>3, LockMove
  <2>7. CASE Fault(p)
    <3>1. PICK to \in {"open", "failed"} : pc' = [pc EXCEPT ![p] = to]
      BY <2>7 DEF Fault
    <3>2. pc[p] \in Appending /\ UNCHANGED lockVars
      BY <2>7 DEF Fault
    <3>3. /\ pc[p] # "new" /\ to # "new" /\ to \in Places
          /\ pc[p] \in Writing /\ pc[p] \in Keeping
      BY <3>1, <3>2 DEF Places, Keeping, Writing, Appending
    <3> QED
      BY <3>1, <3>2, <3>3, LockMove
  <2> QED
    BY <1>1, <2>1, <2>2, <2>3, <2>4, <2>5, <2>6, <2>7 DEF OpenNext, AppendNext
<1>2. CASE PowerLoss
  BY <1>2, LockRelease DEF PowerLoss
<1>3. CASE ReadNext \/ UNCHANGED vars
  <2>1. UNCHANGED <<pc, lockVars>>
    BY <1>3 DEF ReadNext, ReadRefused, ReadMarker, ReadLog, ReadMarkerAgain, vars
  <2>2. Opened' = Opened
    BY <2>1 DEF Opened
  <2> QED
    BY <2>1, <2>2 DEF LockInv, lockVars
<1> QED
  BY <1>1, <1>2, <1>3 DEF Next

LEMMA LockHolds == LockInv => SingleWriter
<1> SUFFICES ASSUME LockInv PROVE SingleWriter
  OBVIOUS
<1>1. PICK S : S = {p \in Procs : pc[p] \in Writing}
  OBVIOUS
<1>2. ASSUME NEW p \in S, NEW q \in S PROVE p = q
  <2>1. fd[p] = entry /\ fd[q] = entry
    BY <1>1 DEF LockInv
  <2>2. held[fd[p]] = p /\ held[fd[q]] = q
    BY <1>1 DEF LockInv, Keeping
  <2> QED
    BY <2>1, <2>2
<1>3. CASE S = {}
  BY <1>1, <1>3, FS_EmptySet DEF SingleWriter
<1>4. CASE S # {}
  <2>1. PICK p \in S : TRUE
    BY <1>4
  <2>2. S = {p}
    BY <1>2
  <2>3. Cardinality(S) = 1
    BY <2>2, FS_Singleton
  <2> QED
    BY <1>1, <2>3 DEF SingleWriter
<1> QED
  BY <1>3, <1>4

(* At most one process is past the writer lock, unless somebody's Close    *)
(* removes a lock file that another process already has open (Open, Close, *)
(* acquireLock): with the names of the lock files left alone, the lock of  *)
(* one file is all the exclusion there is, and it is enough.               *)
THEOREM OneWriterAtATime ==
    Spec /\ [][QuietUnlink]_vars => []SingleWriter
<1>1. Init => LockInv
  BY LockInit
<1>2. LockInv /\ [QuietUnlink]_vars /\ [Next]_vars => LockInv'
  BY LockStep
<1>3. LockInv => SingleWriter
  BY LockHolds
<1> QED
  BY <1>1, <1>2, <1>3, PTL DEF Spec
=============================================================================
