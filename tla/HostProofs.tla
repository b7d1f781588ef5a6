----------------------------- MODULE HostProofs -----------------------------
(***************************************************************************)
(* Proofs about Host, for any number of hosts, workers, commands, questions*)
(* and mishaps.                                                            *)
(*                                                                         *)
(* The argument.  Whoever appends to the log or has a call in flight holds *)
(* the log's writer (Held), whether its lease still runs or not: leases    *)
(* decide who may open the writer next, the writer decides who acts.  In   *)
(* the log, each dispatched call has a source of its own and the step that *)
(* follows it separates it from the next (LogOK).  A command is in one     *)
(* mailbox at most, and only until it is judged (MailOK).                  *)
(***************************************************************************)
EXTENDS HostProperties, FiniteSetTheorems, SequenceTheorems, WellFoundedInduction, TLAPS

Entries == [type : Kinds, by : 0 .. MaxWorkers, cmd : Commands \cup {"none"}]

(* How many of the first n entries of a log are of these types.            *)
Upto(s, n, types)  == {i \in 1 .. n : s[i].type \in types}
Count(s, n, types) == Cardinality(Upto(s, n, types))
Ats(s, type) == {i \in DOMAIN s : s[i].type = type}

-----------------------------------------------------------------------------
(* Counting in a log.                                                      *)

LEMMA CountType ==
    ASSUME NEW s, NEW n \in Nat, NEW types
    PROVE  IsFiniteSet(Upto(s, n, types)) /\ Count(s, n, types) \in Nat
<1>1. IsFiniteSet(1 .. n)
  BY FS_Interval
<1>2. Upto(s, n, types) \in SUBSET (1 .. n)
  BY DEF Upto
<1> QED
  BY <1>1, <1>2, FS_Subset, FS_CardinalityType DEF Count

LEMMA CountGrows ==
    ASSUME NEW s, NEW m \in Nat, NEW n \in Nat, m <= n, NEW types
    PROVE  Count(s, m, types) <= Count(s, n, types)
<1>1. Upto(s, m, types) \in SUBSET Upto(s, n, types)
  BY DEF Upto
<1> QED
  BY <1>1, CountType, FS_Subset DEF Count

LEMMA CountZero ==
    ASSUME NEW s, NEW types PROVE Count(s, 0, types) = 0
<1>1. Upto(s, 0, types) = {}
  BY DEF Upto
<1> QED
  BY <1>1, FS_EmptySet DEF Count

LEMMA CountNext ==
    ASSUME NEW s, NEW n \in Nat, NEW types
    PROVE  Count(s, n + 1, types)
             = IF s[n + 1].type \in types THEN Count(s, n, types) + 1 ELSE Count(s, n, types)
<1>1. CASE s[n + 1].type \in types
  <2>1. Upto(s, n + 1, types) = Upto(s, n, types) \cup {n + 1} /\ n + 1 \notin Upto(s, n, types)
    BY <1>1 DEF Upto
  <2> QED
    BY <1>1, <2>1, CountType, FS_AddElement DEF Count
<1>2. CASE s[n + 1].type \notin types
  <2>1. Upto(s, n + 1, types) = Upto(s, n, types)
    BY <1>2 DEF Upto
  <2> QED
    BY <1>2, <2>1 DEF Count
<1> QED
  BY <1>1, <1>2

(* An entry of the type between two positions makes a difference.          *)
LEMMA CountStrict ==
    ASSUME NEW s, NEW m \in Nat, NEW n \in Nat, NEW types,
           NEW j \in (m + 1) .. n, s[j].type \in types
    PROVE  Count(s, m, types) < Count(s, n, types)
<1>1. /\ j - 1 \in Nat /\ m <= j - 1 /\ j \in Nat /\ j <= n /\ (j - 1) + 1 = j
  OBVIOUS
<1>2. Count(s, j, types) = Count(s, j - 1, types) + 1
  BY <1>1, CountNext
<1>3. Count(s, m, types) <= Count(s, j - 1, types) /\ Count(s, j, types) <= Count(s, n, types)
  BY <1>1, CountGrows
<1>4. /\ Count(s, m, types) \in Nat /\ Count(s, n, types) \in Nat
      /\ Count(s, j, types) \in Nat /\ Count(s, j - 1, types) \in Nat
  BY <1>1, CountType
<1> QED
  BY <1>2, <1>3, <1>4

LEMMA LeastOf ==
    ASSUME NEW S, S \subseteq Nat, S # {}
    PROVE  \E i \in S : \A j \in S : i <= j
<1> DEFINE Before == OpToRel(<, Nat)
<1>1. Before = {ss \in Nat \X Nat : ss[1] < ss[2]}
  BY Zenon DEF OpToRel
<1>2. IsWellFoundedOn(Before, Nat)
  BY NatLessThanWellFounded
<1> HIDE DEF Before
<1>3. PICK least \in S : \A k \in S : ~(<<k, least>> \in Before)
  BY <1>2, WFMin
<1>4. ASSUME NEW k \in S PROVE least <= k
  <2>1. k \in Nat /\ least \in Nat /\ <<k, least>> \in Nat \X Nat
    BY <1>3
  <2>2. ~(k < least)
    BY <1>1, <1>3, <2>1
  <2> QED
    BY <2>1, <2>2
<1> QED
  BY <1>3, <1>4

(* Every number up to the count is the count of some entry.                *)
LEMMA CountReaches ==
    ASSUME NEW s, NEW n \in Nat, NEW types, NEW k \in Nat, k # 0, k <= Count(s, n, types)
    PROVE  \E i \in Upto(s, n, types) : Count(s, i, types) = k
<1> DEFINE S == {i \in 0 .. n : k <= Count(s, i, types)}
<1>1. n \in S /\ S \subseteq Nat
  OBVIOUS
<1>2. PICK i \in S : \A j \in S : i <= j
  BY <1>1, LeastOf
<1>3. i \in Nat /\ i <= n /\ k <= Count(s, i, types)
  BY <1>2
<1>4. i # 0
  BY <1>3, CountZero
<1>5. i - 1 \in Nat /\ i - 1 \in 0 .. n /\ i - 1 \notin S /\ (i - 1) + 1 = i
  BY <1>2, <1>3, <1>4
<1>6. Count(s, i - 1, types) \in Nat /\ Count(s, i - 1, types) < k
  BY <1>5, CountType
<1>7. /\ Count(s, i, types) = IF s[i].type \in types THEN Count(s, i - 1, types) + 1
                              ELSE Count(s, i - 1, types)
  BY <1>5, CountNext
<1>8. s[i].type \in types /\ Count(s, i, types) = k
  BY <1>3, <1>6, <1>7
<1> QED
  BY <1>3, <1>4, <1>8 DEF Upto

LEMMA CountAppend ==
    ASSUME NEW s \in Seq(Entries), NEW e \in Entries, NEW n \in 0 .. Len(s), NEW types
    PROVE  /\ Count(Append(s, e), n, types) = Count(s, n, types)
           /\ Count(Append(s, e), Len(s) + 1, types)
                = IF e.type \in types THEN Count(s, Len(s), types) + 1 ELSE Count(s, Len(s), types)
<1>1. /\ \A i \in 1 .. Len(s) : Append(s, e)[i] = s[i]
      /\ Append(s, e)[Len(s) + 1] = e
  BY AppendProperties
<1>2. \A m \in 0 .. Len(s) : Upto(Append(s, e), m, types) = Upto(s, m, types)
  BY <1>1 DEF Upto
<1>3. \A m \in 0 .. Len(s) : Count(Append(s, e), m, types) = Count(s, m, types)
  BY <1>2 DEF Count
<1>4. PICK l \in Nat : l = Len(s)
  OBVIOUS
<1>5. PICK t : t = Append(s, e)
  OBVIOUS
<1>6. t[l + 1] = e
  BY <1>1, <1>4, <1>5
<1>7. Count(t, l, types) = Count(s, l, types)
  BY <1>3, <1>4, <1>5
<1>8. Count(t, l + 1, types) = IF e.type \in types THEN Count(s, l, types) + 1 ELSE Count(s, l, types)
  BY <1>6, <1>7, CountNext
<1> QED
  BY <1>3, <1>4, <1>5, <1>8, Zenon

LEMMA CountAll ==
    ASSUME NEW s \in Seq(Entries), NEW type
    PROVE  Cardinality(Ats(s, type)) = Count(s, Len(s), {type})
<1>1. Ats(s, type) = Upto(s, Len(s), {type})
  BY DEF Ats, Upto
<1> QED
  BY <1>1 DEF Count
-----------------------------------------------------------------------------
(* What the log keeps: between two dispatched calls there is a step, the   *)
(* source a call belongs to is the one after the steps taken, no more      *)
(* questions are answered than were asked, and no command is there twice.  *)
Spaced(s) == \A i, j \in Ats(s, "work") : i < j => Count(s, i, {"step"}) < Count(s, j, {"step"})

Callers(s, n) == {k \in DOMAIN s : /\ s[k].type \in {"start", "answer"}
                                   /\ Count(s, k, Sources) = Count(s, n, {"step"}) + 1}
Owned(s)      == \A i \in Ats(s, "work") : Callers(s, i) # {}

Answered(s) == Count(s, Len(s), {"answer"}) <= Count(s, Len(s), {"ask"})

InLog(s, c)    == \E i \in DOMAIN s : s[i].cmd = c
NoneTwice(s) == \A i, j \in DOMAIN s : s[i].cmd = s[j].cmd /\ i # j => s[i].cmd = "none"

LogOK(s) == Spaced(s) /\ Owned(s) /\ Answered(s) /\ NoneTwice(s)

(* The entries that may be appended.                                       *)
Fits(s, e) ==
    /\ e.type = "work" => /\ \A i \in Ats(s, "work") : \E j \in Ats(s, "step") : i < j
                          /\ Callers(s, Len(s)) # {}
    /\ e.type = "answer" => Count(s, Len(s), {"answer"}) < Count(s, Len(s), {"ask"})
    /\ e.cmd # "none" => ~InLog(s, e.cmd)

LEMMA AppendIs ==
    ASSUME NEW s \in Seq(Entries), NEW e \in Entries
    PROVE  /\ Append(s, e) \in Seq(Entries) /\ Len(Append(s, e)) = Len(s) + 1
           /\ Len(s) \in Nat /\ DOMAIN s = 1 .. Len(s) /\ DOMAIN Append(s, e) = 1 .. (Len(s) + 1)
           /\ \A i \in DOMAIN s : Append(s, e)[i] = s[i] /\ i \in Nat /\ i <= Len(s)
           /\ Append(s, e)[Len(s) + 1] = e
<1>1. /\ Append(s, e) \in Seq(Entries) /\ Len(Append(s, e)) = Len(s) + 1
      /\ \A i \in 1 .. Len(s) : Append(s, e)[i] = s[i]
      /\ Append(s, e)[Len(s) + 1] = e
  BY AppendProperties
<1>2. Len(s) \in Nat /\ DOMAIN s = 1 .. Len(s)
  BY LenProperties
<1>3. DOMAIN Append(s, e) = 1 .. Len(Append(s, e))
  BY <1>1, LenProperties
<1> QED
  BY <1>1, <1>2, <1>3

LEMMA AppendAts ==
    ASSUME NEW s \in Seq(Entries), NEW e \in Entries, NEW type
    PROVE  /\ \A i \in DOMAIN s : i \in Ats(Append(s, e), type) <=> i \in Ats(s, type)
           /\ \A i \in Ats(Append(s, e), type) : i \in Ats(s, type) \/ (i = Len(s) + 1 /\ e.type = type)
           /\ Ats(s, type) \in SUBSET Ats(Append(s, e), type)
<1>1. /\ \A i \in DOMAIN s : Append(s, e)[i] = s[i]
      /\ Append(s, e)[Len(s) + 1] = e
      /\ Len(s) \in Nat /\ DOMAIN s = 1 .. Len(s) /\ DOMAIN Append(s, e) = 1 .. (Len(s) + 1)
  BY AppendIs
<1> QED
  BY <1>1 DEF Ats

LEMMA InLogAppend ==
    ASSUME NEW s \in Seq(Entries), NEW e \in Entries, NEW c
    PROVE  InLog(Append(s, e), c) <=> InLog(s, c) \/ e.cmd = c
<1>1. /\ \A i \in DOMAIN s : Append(s, e)[i] = s[i]
      /\ Append(s, e)[Len(s) + 1] = e
      /\ Len(s) \in Nat /\ DOMAIN s = 1 .. Len(s) /\ DOMAIN Append(s, e) = 1 .. (Len(s) + 1)
  BY AppendIs
<1>2. Len(s) + 1 \in DOMAIN Append(s, e) /\ \A i \in DOMAIN s : i \in DOMAIN Append(s, e)
  BY <1>1
<1>3. \A i \in DOMAIN Append(s, e) : i \in DOMAIN s \/ i = Len(s) + 1
  BY <1>1
<1> QED
  BY <1>1, <1>2, <1>3 DEF InLog

LEMMA CallersKept ==
    ASSUME NEW s \in Seq(Entries), NEW e \in Entries, NEW n \in 0 .. Len(s), Callers(s, n) # {}
    PROVE  Callers(Append(s, e), n) # {}
<1>1. PICK k \in Callers(s, n) : TRUE
  OBVIOUS
<1>2. k \in DOMAIN s /\ k \in 0 .. Len(s) /\ k \in DOMAIN Append(s, e) /\ Append(s, e)[k] = s[k]
  BY <1>1, AppendIs DEF Callers
<1>3. Count(Append(s, e), k, Sources) = Count(s, k, Sources)
  BY <1>2, CountAppend
<1>4. Count(Append(s, e), n, {"step"}) = Count(s, n, {"step"})
  BY CountAppend
<1> QED
  BY <1>1, <1>2, <1>3, <1>4 DEF Callers

LEMMA LogAppend ==
    ASSUME NEW s \in Seq(Entries), NEW e \in Entries, LogOK(s), Fits(s, e)
    PROVE  LogOK(Append(s, e))
<1> DEFINE l == Len(s)
           n == Len(s) + 1
           t == Append(s, e)
<1>1. /\ t \in Seq(Entries) /\ Len(t) = n /\ l \in Nat /\ DOMAIN s = 1 .. l /\ DOMAIN t = 1 .. n
      /\ \A i \in DOMAIN s : t[i] = s[i] /\ i \in Nat /\ i <= l
      /\ t[n] = e
  BY AppendIs
<1>2. ASSUME NEW i \in Ats(t, "work"), NEW j \in Ats(t, "work"), i < j
      PROVE  Count(t, i, {"step"}) < Count(t, j, {"step"})
  <2>1. i \in DOMAIN t /\ j \in DOMAIN t
    BY DEF Ats
  <2>2. i \in 0 .. l /\ i \in DOMAIN s
    BY <1>1, <1>2, <2>1
  <2>3. i \in Ats(s, "work") /\ Count(t, i, {"step"}) = Count(s, i, {"step"})
    BY <2>2, AppendAts, CountAppend
  <2>4. CASE j \in Ats(s, "work")
    <3>1. j \in 0 .. l /\ Count(t, j, {"step"}) = Count(s, j, {"step"})
      BY <1>1, <2>4, CountAppend DEF Ats
    <3> QED
      BY <1>2, <2>3, <2>4, <3>1 DEF LogOK, Spaced
  <2>5. CASE j \notin Ats(s, "work")
    <3>1. j = n /\ e.type = "work"
      BY <2>5, AppendAts
    <3>2. PICK m \in Ats(s, "step") : i < m
      BY <2>3, <3>1 DEF Fits
    <3>3. m \in DOMAIN t /\ m \in (i + 1) .. n /\ t[m].type \in {"step"}
      BY <1>1, <2>2, <3>2 DEF Ats
    <3>4. i \in Nat /\ n \in Nat
      BY <1>1, <2>2
    <3> HIDE DEF t, n
    <3> QED
      BY <3>1, <3>3, <3>4, CountStrict
  <2> QED
    BY <2>4, <2>5
<1>3. ASSUME NEW i \in Ats(t, "work")
      PROVE  Callers(t, i) # {}
  <2>1. CASE i \in Ats(s, "work")
    <3>1. i \in 0 .. l /\ Callers(s, i) # {}
      BY <1>1, <2>1 DEF Ats, LogOK, Owned
    <3> QED
      BY <3>1, CallersKept
  <2>2. CASE i \notin Ats(s, "work")
    <3>1. i = n /\ e.type = "work"
      BY <2>2, AppendAts
    <3>2. Callers(s, l) # {} /\ l \in 0 .. l
      BY <1>1, <3>1 DEF Fits
    <3>3. Callers(t, l) # {}
      BY <3>2, CallersKept
    <3>4. /\ Count(t, l, {"step"}) = Count(s, l, {"step"})
          /\ Count(t, l + 1, {"step"}) = IF e.type \in {"step"} THEN Count(s, l, {"step"}) + 1
                                         ELSE Count(s, l, {"step"})
      BY <3>2, CountAppend
    <3>5. Count(t, i, {"step"}) = Count(t, l, {"step"})
      BY <3>1, <3>4
    <3> HIDE DEF l, t
    <3> QED
      BY <3>3, <3>5 DEF Callers
  <2> QED
    BY <2>1, <2>2
<1>4. Answered(t)
  <2>1. l \in 0 .. l
    BY <1>1
  <2>2. /\ Count(t, n, {"answer"}) = IF e.type \in {"answer"} THEN Count(s, l, {"answer"}) + 1
                                     ELSE Count(s, l, {"answer"})
        /\ Count(t, n, {"ask"}) = IF e.type \in {"ask"} THEN Count(s, l, {"ask"}) + 1
                                  ELSE Count(s, l, {"ask"})
    BY <2>1, CountAppend
  <2>3. Count(s, l, {"answer"}) \in Nat /\ Count(s, l, {"ask"}) \in Nat
    BY <1>1, CountType
  <2>4. /\ Count(s, l, {"answer"}) <= Count(s, l, {"ask"})
        /\ e.type = "answer" => Count(s, l, {"answer"}) < Count(s, l, {"ask"})
    BY DEF LogOK, Answered, Fits
  <2>5. Len(t) = n
    BY <1>1
  <2> HIDE DEF l, t, n
  <2>6. Count(t, n, {"answer"}) <= Count(t, n, {"ask"})
    BY <2>2, <2>3, <2>4
  <2> QED
    BY <2>5, <2>6 DEF Answered
<1>5. ASSUME NEW i \in DOMAIN t, NEW j \in DOMAIN t, t[i].cmd = t[j].cmd, i # j
      PROVE  t[i].cmd = "none"
  <2>1. CASE i \in DOMAIN s /\ j \in DOMAIN s
    BY <1>1, <1>5, <2>1 DEF LogOK, NoneTwice
  <2>2. CASE i \in DOMAIN s /\ j \notin DOMAIN s
    <3>1. t[j] = e /\ t[i] = s[i]
      BY <1>1, <2>2
    <3> QED
      BY <1>5, <2>2, <3>1 DEF Fits, InLog
  <2>3. CASE i \notin DOMAIN s /\ j \in DOMAIN s
    <3>1. t[i] = e /\ t[j] = s[j]
      BY <1>1, <2>3
    <3> QED
      BY <1>5, <2>3, <3>1 DEF Fits, InLog
  <2>4. CASE i \notin DOMAIN s /\ j \notin DOMAIN s
    BY <1>1, <1>5, <2>4
  <2> QED
    BY <2>1, <2>2, <2>3, <2>4
<1> HIDE DEF t
<1>6. LogOK(t)
  BY <1>2, <1>3, <1>4, <1>5 DEF LogOK, Spaced, Owned, NoneTwice
<1> QED
  BY <1>6 DEF t

(* A call has a source of its own, so there are as many sources as calls.  *)
LEMMA CallsHaveSources ==
    ASSUME NEW s \in Seq(Entries), LogOK(s)
    PROVE  Cardinality(Ats(s, "work")) <= Cardinality(Ats(s, "start") \cup Ats(s, "answer"))
<1> DEFINE S == Ats(s, "work")
           T == Ats(s, "start") \cup Ats(s, "answer")
           f == [i \in S |-> CHOOSE k \in Callers(s, i) : TRUE]
<1>1. IsFiniteSet(S) /\ IsFiniteSet(T)
  <2>1. DOMAIN s = 1 .. Len(s) /\ Len(s) \in Nat /\ IsFiniteSet(1 .. Len(s))
    BY LenProperties, FS_Interval
  <2>2. S \in SUBSET (1 .. Len(s)) /\ T \in SUBSET (1 .. Len(s))
    BY <2>1 DEF Ats
  <2> QED
    BY <2>1, <2>2, FS_Subset
<1>2. \A i \in S : f[i] \in Callers(s, i)
  BY DEF LogOK, Owned
<1>3. f \in [S -> T]
  BY <1>2 DEF Callers, Ats
<1>4. ASSUME NEW i \in S, NEW j \in S, f[i] = f[j], i # j
      PROVE  FALSE
  <2>1. /\ Count(s, f[i], Sources) = Count(s, i, {"step"}) + 1
        /\ Count(s, f[j], Sources) = Count(s, j, {"step"}) + 1
    BY <1>2 DEF Callers
  <2>2. i \in Nat /\ j \in Nat
    BY LenProperties DEF Ats
  <2>3. Count(s, i, {"step"}) \in Nat /\ Count(s, j, {"step"}) \in Nat
    BY <2>2, CountType
  <2>4. i < j \/ j < i
    BY <1>4, <2>2
  <2>5. \/ Count(s, i, {"step"}) < Count(s, j, {"step"})
        \/ Count(s, j, {"step"}) < Count(s, i, {"step"})
    BY <2>4 DEF LogOK, Spaced
  <2> HIDE DEF f, S
  <2>6. Count(s, i, {"step"}) + 1 = Count(s, j, {"step"}) + 1
    BY <1>4, <2>1
  <2> QED
    BY <2>3, <2>5, <2>6
<1> HIDE DEF f, S, T
<1>5. ~(Cardinality(S) > Cardinality(T))
  BY <1>1, <1>3, <1>4, FS_PigeonHole
<1>6. Cardinality(S) \in Nat /\ Cardinality(T) \in Nat
  BY <1>1, FS_CardinalityType
<1>7. Cardinality(S) <= Cardinality(T)
  BY <1>5, <1>6
<1> QED
  BY <1>7 DEF S, T
-----------------------------------------------------------------------------
(* The first end of a log stays the first, and a lost call stays lost.     *)
First(s, type) == \E i \in Ats(s, type) : \A j \in Ats(s, "end") \cup Ats(s, "cancel") : i <= j
Lost(s)        == Ats(s, "lost") # {}

LEMMA FirstKept ==
    ASSUME NEW s \in Seq(Entries), NEW e \in Entries, NEW type, First(s, type)
    PROVE  First(Append(s, e), type)
<1>1. PICK i \in Ats(s, type) : \A j \in Ats(s, "end") \cup Ats(s, "cancel") : i <= j
  BY DEF First
<1>2. i \in Nat /\ i <= Len(s) /\ Len(s) \in Nat /\ i \in Ats(Append(s, e), type)
  BY AppendIs, AppendAts DEF Ats
<1>3. \A j \in Ats(Append(s, e), "end") : j \in Ats(s, "end") \/ j = Len(s) + 1
  BY AppendAts
<1>4. \A j \in Ats(Append(s, e), "cancel") : j \in Ats(s, "cancel") \/ j = Len(s) + 1
  BY AppendAts
<1>5. i <= Len(s) + 1
  BY <1>2
<1>6. \A j \in Ats(Append(s, e), "end") \cup Ats(Append(s, e), "cancel") : i <= j
  BY <1>1, <1>3, <1>4, <1>5
<1> QED
  BY <1>2, <1>6 DEF First

LEMMA LostKept ==
    ASSUME NEW s \in Seq(Entries), NEW e \in Entries, Lost(s) \/ e.type = "lost"
    PROVE  Lost(Append(s, e))
<1>1. CASE Lost(s)
  BY <1>1, AppendAts DEF Lost
<1>2. CASE e.type = "lost"
  <2>1. Len(s) + 1 \in DOMAIN Append(s, e) /\ Append(s, e)[Len(s) + 1] = e
    BY AppendIs
  <2> QED
    BY <1>2, <2>1 DEF Lost, Ats
<1> QED
  BY <1>1, <1>2

(* What a worker adds on its own: nothing, an entry, or two of them.       *)
Silent(s, e) == Fits(s, e) /\ e.cmd = "none"

Adds(s, t) ==
    \/ t = s
    \/ \E e \in Entries : Silent(s, e) /\ t = Append(s, e)
    \/ \E e, f \in Entries : Silent(s, e) /\ Silent(Append(s, e), f) /\ t = Append(Append(s, e), f)

Keeps(s, t) ==
    /\ t \in Seq(Entries) /\ LogOK(t)
    /\ \A c \in Commands : InLog(s, c) <=> InLog(t, c)
    /\ First(s, "end") => First(t, "end")
    /\ First(s, "cancel") => First(t, "cancel")
    /\ Lost(s) => Lost(t)

LEMMA SilentKeeps ==
    ASSUME HostAssumption, NEW s \in Seq(Entries), LogOK(s), NEW e \in Entries, Silent(s, e)
    PROVE  Keeps(s, Append(s, e))
<1>1. Append(s, e) \in Seq(Entries) /\ LogOK(Append(s, e))
  BY AppendIs, LogAppend DEF Silent
<1>2. \A c \in Commands : e.cmd # c
  BY DEF Silent, HostAssumption, Commands
<1> QED
  BY <1>1, <1>2, InLogAppend, FirstKept, LostKept DEF Keeps

LEMMA AddsKeeps ==
    ASSUME HostAssumption, NEW s \in Seq(Entries), LogOK(s), NEW t, Adds(s, t)
    PROVE  Keeps(s, t)
<1>1. CASE t = s
  BY <1>1 DEF Keeps
<1>2. CASE \E e \in Entries : Silent(s, e) /\ t = Append(s, e)
  BY <1>2, SilentKeeps
<1>3. CASE \E e, f \in Entries : Silent(s, e) /\ Silent(Append(s, e), f) /\ t = Append(Append(s, e), f)
  <2>1. PICK e \in Entries, f \in Entries :
            Silent(s, e) /\ Silent(Append(s, e), f) /\ t = Append(Append(s, e), f)
    BY <1>3
  <2>2. Keeps(s, Append(s, e))
    BY <2>1, SilentKeeps
  <2>3. Keeps(Append(s, e), t)
    BY <2>1, <2>2, SilentKeeps DEF Keeps
  <2> QED
    BY <2>2, <2>3 DEF Keeps
<1> QED
  BY <1>1, <1>2, <1>3 DEF Adds

-----------------------------------------------------------------------------
(* The invariant.                                                          *)

Fields    == {"pc", "host", "fresh", "rev", "out", "queue", "wake", "stop", "helper", "boundary", "late"}
CmdFields == {"pc", "host", "worker", "reply"}

IsRecord(x)  == x = [f \in Fields |-> x[f]]
IsWorker(x)  == IsRecord(x) /\ x.queue \in Seq(Commands)
IsCommand(x) == x = [f \in CmdFields |-> x[f]] /\ x.reply \in {"none", "ok", "refused"}

ShapeOK ==
    /\ log \in Seq(Entries) /\ locker \in 0 .. MaxWorkers
    /\ workers = [w \in Workers |-> workers[w]] /\ \A w \in Workers : IsWorker(workers[w])
    /\ resident \in [Hosts -> 0 .. MaxWorkers]
    /\ cmds = [c \in Commands |-> cmds[c]] /\ \A c \in Commands : IsCommand(cmds[c])

(* Whoever is between the opening of the log's writer and its closing      *)
(* holds it, with a lease or without.                                      *)
Writing == {"opened", "loaded", "top", "pass", "call", "stepped", "ended", "after", "idle", "closing"}
Held    == \A w \in Workers : workers[w].pc \in Writing => locker = w

(* What the store says of the job, and a worker of its call, is in the log.*)
Agrees(c, s) ==
    /\ c = "succeeded" => First(s, "end")
    /\ c = "cancelled" => First(s, "cancel")
    /\ c = "unknown"   => Lost(s)

ToldOK == Agrees(coord, log) /\ \A w \in Workers : workers[w].out = "unknown" => Lost(log)

(* A command lies in one mailbox at most and was not judged then; one that *)
(* was reported as taken is in the log, and one nobody has been given yet  *)
(* is not.                                                                 *)
Once ==
    \A v, w \in Workers : \A i \in DOMAIN workers[v].queue, j \in DOMAIN workers[w].queue :
        workers[v].queue[i] = workers[w].queue[j] => v = w /\ i = j

Unjudged(c) == /\ cmds[c].reply = "none" /\ cmds[c].pc \notin {"new", "intent"}
               /\ ~InLog(log, c)

Boxed == \A w \in Workers : \A i \in DOMAIN workers[w].queue : Unjudged(workers[w].queue[i])

Reported ==
    \A c \in Commands :
        /\ cmds[c].reply = "ok" \/ cmds[c].pc = "ok" => InLog(log, c)
        /\ cmds[c].pc \in {"new", "intent"} => cmds[c].reply = "none" /\ ~InLog(log, c)

MailOK == Once /\ Boxed /\ Reported

HostInv == ShapeOK /\ Held /\ LogOK(log) /\ ToldOK /\ MailOK
-----------------------------------------------------------------------------
(* A step of one worker, on its own: what it may do to the invariant.      *)

Others(w) ==
    /\ workers' = [v \in Workers |-> workers'[v]] /\ IsRecord(workers'[w])
    /\ \A v \in Workers : v # w => workers'[v] = workers[v]

Turns(w) ==
    \/ locker' = locker /\ (workers'[w].pc \in Writing => workers[w].pc \in Writing)
    \/ locker = 0 /\ locker' = w
    \/ locker = w /\ locker' = 0 /\ workers'[w].pc \notin Writing

Alone(w) ==
    /\ Others(w) /\ Turns(w) /\ Adds(log, log')
    /\ workers'[w].queue \in {workers[w].queue, <<>>}
    /\ workers'[w].out = "unknown" => Lost(log')
    /\ Agrees(coord', log)
    /\ resident' \in [Hosts -> 0 .. MaxWorkers]
    /\ UNCHANGED cmds

LEMMA HeldKept ==
    ASSUME ShapeOK, Held, NEW w \in Workers, Others(w), Turns(w)
    PROVE  Held'
<1> SUFFICES ASSUME NEW v \in Workers, workers'[v].pc \in Writing
             PROVE  locker' = v
  BY DEF Held, Workers
<1>1. w # 0 /\ v # 0
  BY DEF Workers
<1>2. v # w => locker = v
  BY DEF Others, Held
<1> QED
  BY <1>1, <1>2 DEF Held, Turns

(* A step that gives nobody a command and judges none.                     *)
LEMMA MailKept ==
    ASSUME HostInv, \A c \in Commands : InLog(log, c) <=> InLog(log', c),
           \A v \in Workers : workers'[v].queue \in {workers[v].queue, <<>>},
           \A c \in Commands : /\ cmds'[c].reply = cmds[c].reply
                               /\ cmds'[c].pc = "ok" => cmds[c].pc = "ok" \/ cmds[c].reply = "ok"
                               /\ cmds'[c].pc \in {"new", "intent"} => cmds[c].pc \in {"new", "intent"}
    PROVE  MailOK'
<1>1. ASSUME NEW v \in Workers, NEW i \in DOMAIN workers'[v].queue
      PROVE  i \in DOMAIN workers[v].queue /\ workers'[v].queue[i] = workers[v].queue[i]
  <2>1. CASE workers'[v].queue = workers[v].queue
    BY <1>1, <2>1
  <2>2. CASE workers'[v].queue = <<>>
    BY <1>1, <2>2
  <2> QED
    BY <2>1, <2>2
<1>2. Once'
  BY <1>1 DEF HostInv, MailOK, Once, Workers
<1>3. Boxed'
  <2> SUFFICES ASSUME NEW v \in Workers, NEW i \in DOMAIN workers'[v].queue,
                      NEW c, c = workers'[v].queue[i]
               PROVE  Unjudged(c)'
    BY DEF Boxed, Workers
  <2>1. c = workers[v].queue[i]
    BY <1>1
  <2>2. c \in Commands
    BY <1>1, <2>1, ElementOfSeq DEF HostInv, ShapeOK, IsWorker
  <2>3. Unjudged(c)
    BY <1>1, <2>1 DEF HostInv, MailOK, Boxed
  <2> QED
    BY <2>2, <2>3 DEF Unjudged
<1>4. Reported'
  BY DEF HostInv, MailOK, Reported, Commands
<1> QED
  BY <1>2, <1>3, <1>4 DEF MailOK

LEMMA AloneKeeps ==
    ASSUME HostAssumption, HostInv, NEW w \in Workers, Alone(w)
    PROVE  HostInv'
<1> USE DEF HostInv
<1>1. Keeps(log, log')
  BY AddsKeeps DEF ShapeOK, Alone
<1>2. \A v \in Workers : IsWorker(workers'[v])
  <2>1. ASSUME NEW v \in Workers PROVE workers'[v].queue \in Seq(Commands)
    <3>1. workers[v].queue \in Seq(Commands) /\ <<>> \in Seq(Commands)
      BY DEF ShapeOK, IsWorker
    <3>2. workers'[v].queue \in {workers[v].queue, <<>>}
      BY DEF Alone, Others
    <3> QED
      BY <3>1, <3>2
  <2> QED
    BY <2>1 DEF ShapeOK, Alone, Others, IsWorker
<1>3. ShapeOK'
  <2>1. locker' \in 0 .. MaxWorkers
    BY DEF Alone, Turns, ShapeOK, Workers, HostAssumption
  <2>2. cmds' = cmds /\ workers' = [v \in Workers |-> workers'[v]]
    BY DEF Alone, Others
  <2> QED
    BY <1>1, <1>2, <2>1, <2>2 DEF ShapeOK, Alone, Keeps, IsWorker, IsRecord, IsCommand, Workers
<1>4. Held'
  BY HeldKept DEF Alone
<1>5. LogOK(log')
  BY <1>1 DEF Keeps
<1>6. ToldOK'
  <2>1. Agrees(coord', log')
    BY <1>1 DEF Alone, Agrees, Keeps
  <2>2. ASSUME NEW v \in Workers, workers'[v].out = "unknown"
        PROVE  Lost(log')
    BY <1>1, <2>2 DEF ToldOK, Keeps, Alone, Others
  <2> QED
    BY <2>1, <2>2 DEF ToldOK, Workers
<1>7. MailOK'
  BY <1>1, MailKept DEF Alone, Others, Keeps
<1> QED
  BY <1>3, <1>4, <1>5, <1>6, <1>7

(* A step that touches no worker.                                          *)
LEMMA UntouchedKeeps ==
    ASSUME HostAssumption, HostInv, Adds(log, log'), Agrees(coord', log),
           UNCHANGED <<locker, workers, resident, cmds>>
    PROVE  HostInv'
<1>1. PICK w \in Workers : w = 1
  BY DEF Workers, HostAssumption
<1>2. workers'[w] = workers[w] /\ IsRecord(workers[w]) /\ workers' = [v \in Workers |-> workers'[v]]
  BY DEF HostInv, ShapeOK, IsWorker
<1>3. Others(w)
  BY <1>2 DEF Others
<1>4. workers'[w].out = "unknown" => Lost(log')
  BY <1>2, AddsKeeps DEF HostInv, ToldOK, ShapeOK, Keeps
<1> QED
  BY <1>2, <1>3, <1>4, AloneKeeps DEF Alone, Turns, HostInv, ShapeOK
LEMMA RecordsAre ==
    ASSUME HostInv
    PROVE  workers = [w \in Workers |-> workers[w]] /\ \A w \in Workers : IsRecord(workers[w])
BY DEF HostInv, ShapeOK, IsWorker

LEMMA BecomesIs ==
    ASSUME HostInv, NEW w \in Workers, NEW y, IsRecord(y), workers' = [workers EXCEPT ![w] = y]
    PROVE  Others(w) /\ workers'[w] = y
BY RecordsAre DEF Others

(* A step that only moves one worker.                                      *)
LEMMA MoveKeeps ==
    ASSUME HostAssumption, HostInv, NEW w \in Workers, Others(w), Turns(w),
           workers'[w].queue \in {workers[w].queue, <<>>},
           workers'[w].out = "unknown" => workers[w].out = "unknown" \/ Lost(log),
           UNCHANGED <<log, coord, resident, cmds>>
    PROVE  HostInv'
<1>1. Adds(log, log') /\ Agrees(coord', log) /\ resident' \in [Hosts -> 0 .. MaxWorkers]
  BY DEF Adds, HostInv, ToldOK, ShapeOK
<1>2. workers'[w].out = "unknown" => Lost(log')
  BY DEF HostInv, ToldOK
<1> QED
  BY <1>1, <1>2, AloneKeeps DEF Alone

-----------------------------------------------------------------------------
(* Submission, the claim and the opening of the writer.                    *)

LEMMA EntryIs ==
    ASSUME NEW type \in Kinds, NEW w \in 0 .. MaxWorkers
    PROVE  /\ Entry(type, w) \in Entries /\ Entry(type, w).type = type /\ Entry(type, w).cmd = "none"
           /\ type \notin {"work", "answer"} => \A s : Silent(s, Entry(type, w))
<1>1. Entry(type, w) \in Entries /\ Entry(type, w).type = type /\ Entry(type, w).cmd = "none"
  BY DEF Entry, Entries
<1> QED
  BY <1>1 DEF Silent, Fits

LEMMA UnbornIs == IsRecord(Unborn) /\ Unborn.queue = <<>> /\ Unborn.out = "none" /\ Unborn.pc = "unborn"
  BY DEF IsRecord, Unborn, Fields

LEMMA GoneIs ==
    ASSUME NEW w
    PROVE  IsRecord(Gone(w)) /\ Gone(w).queue = <<>> /\ Gone(w).out = "none" /\ Gone(w).pc = "gone"
<1>1. PICK y : y = Unborn
  OBVIOUS
<1>2. Gone(w) = [y EXCEPT !.pc = "gone", !.host = workers[w].host]
  BY <1>1 DEF Gone
<1>3. IsRecord(y) /\ y.queue = <<>> /\ y.out = "none"
  BY <1>1, UnbornIs
<1> QED
  BY <1>2, <1>3 DEF IsRecord, Fields

LEMMA GrantKeeps ==
    ASSUME HostAssumption, HostInv, NEW w \in Spare, NEW h, NEW fresh, Grant(w, h, fresh),
           UNCHANGED <<log, locker, resident, cmds>>
    PROVE  HostInv'
<1>1. w \in Workers /\ workers[w].pc = "unborn"
  <2>1. w \in Workers /\ Free(w)
    BY DEF Spare
  <2>2. w \in w .. MaxWorkers
    BY <2>1 DEF Workers, HostAssumption
  <2> QED
    BY <2>1, <2>2 DEF Free
<1>2. PICK x, y : x = Unborn /\ y = [x EXCEPT !.pc = "claimed", !.host = h, !.fresh = fresh]
  OBVIOUS
<1>3. IsRecord(y) /\ y.queue = <<>> /\ y.out = "none" /\ y.pc = "claimed"
  <2>1. IsRecord(x) /\ x.queue = <<>> /\ x.out = "none"
    BY <1>2, UnbornIs
  <2> QED
    BY <1>2, <2>1 DEF IsRecord, Fields
<1>4. workers' = [workers EXCEPT ![w] = y] /\ coord' = "running"
  BY <1>2 DEF Grant
<1>5. Others(w) /\ workers'[w] = y
  BY <1>1, <1>3, <1>4, RecordsAre DEF Others
<1>6. Turns(w)
  BY <1>3, <1>5 DEF Turns, Writing
<1> QED
  BY <1>1, <1>3, <1>4, <1>5, <1>6, AloneKeeps DEF Alone, Adds, Agrees, HostInv, ShapeOK

LEMMA SubmitKeeps ==
    ASSUME HostAssumption, HostInv, NEW h, Submit(h)
    PROVE  HostInv'
<1>1. /\ Entry("start", 0) \in Entries /\ Silent(log, Entry("start", 0))
  BY EntryIs DEF Kinds, Sources, HostAssumption
<1>2. <<Entry("start", 0)>> = Append(<<>>, Entry("start", 0))
  OBVIOUS
<1>3. Adds(log, log')
  BY <1>1, <1>2 DEF Submit, Adds
<1> QED
  BY <1>3, UntouchedKeeps DEF Submit, Agrees

LEMMA SubmitClaimsKeeps ==
    ASSUME HostAssumption, HostInv, NEW h, SubmitClaims(h)
    PROVE  HostInv'
<1>1. CASE \E w \in Spare : Grant(w, h, TRUE)
  BY <1>1, GrantKeeps DEF SubmitClaims
<1>2. CASE UNCHANGED <<claim, coord, workers>>
  BY <1>2, UntouchedKeeps DEF SubmitClaims, Adds, HostInv, ToldOK
<1> QED
  BY <1>1, <1>2 DEF SubmitClaims

LEMMA RecoverClaimsKeeps ==
    ASSUME HostAssumption, HostInv, NEW h, RecoverClaims(h)
    PROVE  HostInv'
BY GrantKeeps DEF RecoverClaims

LEMMA GivesUpIs ==
    ASSUME HostAssumption, HostInv, NEW w \in Workers, GivesUp(w)
    PROVE  /\ Others(w) /\ Turns(w) /\ workers'[w].queue = <<>> /\ workers'[w].out = "none"
<1>1. PICK y : y \in {Gone(w), Unborn} /\ workers' = [workers EXCEPT ![w] = y]
  BY DEF GivesUp
<1>2. IsRecord(y) /\ y.queue = <<>> /\ y.out = "none" /\ y.pc \in {"gone", "unborn"}
  BY <1>1, UnbornIs, GoneIs
<1>3. Others(w) /\ workers'[w] = y
  BY <1>1, <1>2, RecordsAre DEF Others
<1>4. Turns(w)
  BY <1>2, <1>3 DEF Turns, Writing, GivesUp
<1> QED
  BY <1>2, <1>3, <1>4

LEMMA OpenKeeps ==
    ASSUME HostAssumption, HostInv, NEW w \in Workers, OpenClaimedWriter(w)
    PROVE  HostInv'
<1>1. CASE locker = 0
  <2>1. /\ Others(w) /\ workers'[w].queue = workers[w].queue /\ workers'[w].out = workers[w].out
        /\ locker' = w
    BY <1>1, RecordsAre DEF OpenClaimedWriter, IsRecord, Fields, Others
  <2> QED
    BY <1>1, <2>1, MoveKeeps DEF OpenClaimedWriter, Turns
<1>2. CASE locker # 0
  <2>1. GivesUp(w) /\ UNCHANGED <<log, coord, resident, cmds>>
    BY <1>2 DEF OpenClaimedWriter
  <2> QED
    BY <2>1, GivesUpIs, MoveKeeps
<1> QED
  BY <1>1, <1>2

LEMMA LoadsFreshKeeps ==
    ASSUME HostAssumption, HostInv, NEW w \in Workers, LoadsFresh(w)
    PROVE  HostInv'
<1>1. /\ Others(w) /\ workers'[w].queue = workers[w].queue /\ workers'[w].out = workers[w].out
      /\ workers[w].pc = "opened" /\ UNCHANGED <<log, locker, coord, resident, cmds>>
  BY RecordsAre DEF LoadsFresh, IsRecord, Fields, Others
<1> QED
  BY <1>1, MoveKeeps DEF Turns, Writing

LEMMA LoadsKeeps ==
    ASSUME HostAssumption, HostInv, NEW w \in Workers, Loads(w)
    PROVE  HostInv'
<1>1. workers[w].pc = "opened" /\ UNCHANGED <<coord, resident, cmds>>
  BY DEF Loads
<1>2. CASE GivesUp(w) /\ UNCHANGED log
  BY <1>1, <1>2, GivesUpIs, MoveKeeps
<1>3. CASE /\ log' = log \/ log' = Append(log, Entry("cancel", w))
           /\ workers' = [workers EXCEPT ![w].pc = "loaded", ![w].rev = Len(log')]
           /\ UNCHANGED <<locker, claim>>
  <2>1. PICK rev : rev = Len(log')
    OBVIOUS
  <2>2. workers' = [workers EXCEPT ![w].pc = "loaded", ![w].rev = rev]
    BY <1>3, <2>1
  <2>3. /\ Others(w) /\ workers'[w].queue = workers[w].queue /\ workers'[w].out = workers[w].out
    <3>1. PICK x, y : x = workers[w] /\ y = [x EXCEPT !.pc = "loaded", !.rev = rev]
      OBVIOUS
    <3>2. IsRecord(y) /\ y.queue = x.queue /\ y.out = x.out
      BY <3>1, RecordsAre DEF IsRecord, Fields
    <3>3. workers' = [workers EXCEPT ![w] = y]
      BY <2>2, <3>1, RecordsAre DEF IsRecord, Fields
    <3> QED
      BY <3>1, <3>2, <3>3, BecomesIs
  <2>4. Entry("cancel", w) \in Entries /\ Silent(log, Entry("cancel", w))
    BY EntryIs DEF Kinds, Sources, Workers, HostAssumption
  <2>5. Adds(log, log')
    BY <1>3, <2>4 DEF Adds
  <2>6. Turns(w)
    BY <1>1, <1>3 DEF Turns, Writing
  <2>7. workers'[w].out = "unknown" => Lost(log')
    BY <2>3, <2>5, AddsKeeps DEF HostInv, ToldOK, ShapeOK, Keeps
  <2> QED
    BY <1>1, <2>3, <2>5, <2>6, <2>7, AloneKeeps DEF Alone, HostInv, ToldOK, ShapeOK
<1> QED
  BY <1>2, <1>3 DEF Loads

LEMMA InstallsKeeps ==
    ASSUME HostAssumption, HostInv, NEW w \in Workers, Installs(w)
    PROVE  HostInv'
<1>1. workers[w].pc = "loaded" /\ UNCHANGED <<log, coord, cmds>>
  BY DEF Installs
<1>2. CASE GivesUp(w) /\ UNCHANGED resident
  BY <1>1, <1>2, GivesUpIs, MoveKeeps
<1>3. CASE /\ workers' = [workers EXCEPT ![w].pc = "top"] /\ UNCHANGED <<locker, claim>>
           /\ resident' = [resident EXCEPT ![workers[w].host] = w]
  <2>1. /\ Others(w) /\ workers'[w].queue = workers[w].queue /\ workers'[w].out = workers[w].out
    BY <1>3, RecordsAre DEF IsRecord, Fields, Others
  <2>2. resident' \in [Hosts -> 0 .. MaxWorkers]
    <3>1. PICK h : h = workers[w].host
      OBVIOUS
    <3>2. resident' = [resident EXCEPT ![h] = w] /\ w \in 0 .. MaxWorkers
      BY <1>3, <3>1 DEF Workers, HostAssumption
    <3>3. resident \in [Hosts -> 0 .. MaxWorkers]
      BY DEF HostInv, ShapeOK
    <3> QED
      BY <3>2, <3>3
  <2>3. Turns(w)
    BY <1>1, <1>3 DEF Turns, Writing
  <2> QED
    BY <1>1, <2>1, <2>2, <2>3, AloneKeeps DEF Alone, Adds, HostInv, ToldOK
<1> QED
  BY <1>2, <1>3 DEF Installs
-----------------------------------------------------------------------------
(* The pass of a worker and what surrounds it.                             *)

LEMMA MovesKeeps ==
    ASSUME HostAssumption, HostInv, NEW w \in Workers, NEW pc, Moves(w, pc), workers[w].pc \in Writing
    PROVE  HostInv'
<1>1. PICK x, y : x = workers[w] /\ y = [x EXCEPT !.pc = pc, !.out = "none"]
  OBVIOUS
<1>2. IsRecord(y) /\ y.queue = x.queue /\ y.out = "none"
  BY <1>1, RecordsAre DEF IsRecord, Fields
<1>3. workers' = [workers EXCEPT ![w] = y]
  BY <1>1, RecordsAre DEF Moves, IsRecord, Fields
<1>4. Others(w) /\ workers'[w] = y
  BY <1>2, <1>3, BecomesIs
<1>5. UNCHANGED <<log, locker, coord, resident, cmds>>
  BY DEF Moves
<1> QED
  BY <1>1, <1>2, <1>4, <1>5, MoveKeeps DEF Turns

LEMMA BeginsKeeps ==
    ASSUME HostAssumption, HostInv, NEW w \in Workers, Begins(w)
    PROVE  HostInv'
<1>1. workers[w].pc \in Writing
  BY DEF Begins, Writing
<1>2. CASE workers[w].stop
  BY <1>1, <1>2, MovesKeeps DEF Begins
<1>3. CASE ~workers[w].stop
  <2>1. PICK x, y : x = workers[w] /\ y = [x EXCEPT !.pc = "pass", !.helper = TRUE, !.boundary = FALSE]
    OBVIOUS
  <2>2. IsRecord(y) /\ y.queue = x.queue /\ y.out = x.out
    BY <2>1, RecordsAre DEF IsRecord, Fields
  <2>3. /\ workers' = [workers EXCEPT ![w].pc = "pass", ![w].helper = TRUE, ![w].boundary = FALSE]
        /\ UNCHANGED <<log, locker, coord, resident, cmds>>
    BY <1>3 DEF Begins
  <2>4. workers' = [workers EXCEPT ![w] = y]
    BY <2>1, <2>3, RecordsAre DEF IsRecord, Fields
  <2>5. Others(w) /\ workers'[w] = y
    BY <2>2, <2>4, BecomesIs
  <2> QED
    BY <1>1, <2>1, <2>2, <2>3, <2>5, MoveKeeps DEF Turns
<1> QED
  BY <1>2, <1>3

(* The steps that leave a worker where it is in its pass.                  *)
LEMMA StaysKeeps ==
    ASSUME HostAssumption, HostInv, NEW w \in Workers, NEW y, IsRecord(y), y.pc = workers[w].pc,
           y.queue = workers[w].queue, y.out = workers[w].out, workers' = [workers EXCEPT ![w] = y],
           UNCHANGED <<log, locker, coord, resident, cmds>>
    PROVE  HostInv'
BY ZenonT(30), BecomesIs, MoveKeeps DEF Turns

LEMMA HelperKeeps ==
    ASSUME HostAssumption, HostInv, NEW w \in Workers, Helper(w)
    PROVE  HostInv'
<1>1. PICK x, y : /\ x = workers[w]
                  /\ y = [x EXCEPT !.helper = FALSE, !.boundary = TRUE, !.wake = @ /\ x.stop]
  OBVIOUS
<1>2. IsRecord(y) /\ y.pc = x.pc /\ y.queue = x.queue /\ y.out = x.out
  BY ZenonT(30), <1>1, RecordsAre DEF IsRecord, Fields
<1>3. workers' = [workers EXCEPT ![w] = y]
  BY <1>1, RecordsAre DEF Helper, IsRecord, Fields
<1> QED
  BY <1>1, <1>2, <1>3, StaysKeeps DEF Helper

LEMMA LateHelperKeeps ==
    ASSUME HostAssumption, HostInv, NEW w \in Workers, LateHelper(w)
    PROVE  HostInv'
<1>1. PICK x : x = workers[w]
  OBVIOUS
<1>2. PICK y : /\ y = [x EXCEPT !.late = FALSE] \/ y = [x EXCEPT !.late = FALSE, !.wake = FALSE]
               /\ workers' = [workers EXCEPT ![w] = y]
  <2>1. CASE workers' = [workers EXCEPT ![w].late = FALSE]
    <3>1. PICK y : y = [x EXCEPT !.late = FALSE]
      OBVIOUS
    <3>2. workers' = [workers EXCEPT ![w] = y]
      BY <1>1, <2>1, <3>1, RecordsAre DEF IsRecord, Fields
    <3> QED
      BY <3>1, <3>2
  <2>2. CASE workers' = [workers EXCEPT ![w].late = FALSE, ![w].wake = FALSE]
    <3>1. PICK y : y = [x EXCEPT !.late = FALSE, !.wake = FALSE]
      OBVIOUS
    <3>2. workers' = [workers EXCEPT ![w] = y]
      BY <1>1, <2>2, <3>1, RecordsAre DEF IsRecord, Fields
    <3> QED
      BY <3>1, <3>2
  <2> QED
    BY <2>1, <2>2 DEF LateHelper
<1>3. IsRecord(y) /\ y.pc = x.pc /\ y.queue = x.queue /\ y.out = x.out
  BY <1>1, <1>2, RecordsAre DEF IsRecord, Fields
<1> QED
  BY <1>1, <1>2, <1>3, StaysKeeps DEF LateHelper

LEMMA HeartbeatKeeps ==
    ASSUME HostAssumption, HostInv, NEW w \in Workers, Heartbeat(w)
    PROVE  HostInv'
<1>1. PICK x, y : x = workers[w] /\ y = [x EXCEPT !.stop = TRUE, !.wake = TRUE]
  OBVIOUS
<1>2. IsRecord(y) /\ y.pc = x.pc /\ y.queue = x.queue /\ y.out = x.out
  BY ZenonT(30), <1>1, RecordsAre DEF IsRecord, Fields
<1>3. workers' = [workers EXCEPT ![w] = y]
  BY <1>1 DEF Heartbeat, Stopped
<1> QED
  BY <1>1, <1>2, <1>3, StaysKeeps DEF Heartbeat

(* A pass returns, and whatever it was that it told its worker.            *)
LEMMA ReturnsIs ==
    ASSUME HostInv, NEW w \in Workers, NEW out, Returns(w, out)
    PROVE  Others(w) /\ workers'[w].queue = workers[w].queue /\ workers'[w].out = out
<1>1. PICK late : workers' = [workers EXCEPT ![w].pc = "ended", ![w].out = out, ![w].helper = FALSE,
                                             ![w].boundary = FALSE, ![w].late = late]
  BY DEF Returns
<1>2. PICK x, y : /\ x = workers[w]
                  /\ y = [x EXCEPT !.pc = "ended", !.out = out, !.helper = FALSE,
                                   !.boundary = FALSE, !.late = late]
  OBVIOUS
<1>3. IsRecord(y) /\ y.queue = x.queue /\ y.out = out
  BY <1>2, RecordsAre DEF IsRecord, Fields
<1>4. workers' = [workers EXCEPT ![w] = y]
  BY <1>1, <1>2, RecordsAre DEF IsRecord, Fields
<1> QED
  BY <1>2, <1>3, <1>4, BecomesIs

LEMMA FailsKeeps ==
    ASSUME HostAssumption, HostInv, NEW w \in Workers, NEW out, Fails(w, out), out = "unknown" => Lost(log),
           workers[w].pc \in Writing, UNCHANGED <<locker, coord, resident, cmds>>
    PROVE  HostInv'
<1>1. Others(w) /\ workers'[w].queue = workers[w].queue /\ workers'[w].out = out
  BY ReturnsIs DEF Fails
<1> QED
  BY <1>1, MoveKeeps DEF Fails, Turns

LEMMA PassEndsKeeps ==
    ASSUME HostAssumption, HostInv, NEW w \in Workers, Stops(w) \/ Terminates(w) \/ Idles(w)
    PROVE  HostInv'
<1>1. PICK out \in {"woken", "terminal", "idle"} : InPass(w) /\ Fails(w, out)
  BY DEF Stops, Terminates, Idles
<1> QED
  BY <1>1, FailsKeeps DEF InPass, Writing

LEMMA CheckpointsKeeps ==
    ASSUME HostAssumption, HostInv, NEW w \in Workers, Checkpoints(w)
    PROVE  HostInv'
<1>1. workers[w].pc \in Writing /\ UNCHANGED <<locker, coord, resident, cmds>>
  BY DEF Checkpoints, Writing
<1>2. CASE workers' = [workers EXCEPT ![w].pc = "pass"] /\ UNCHANGED log
  <2>1. /\ Others(w) /\ workers'[w].queue = workers[w].queue /\ workers'[w].out = workers[w].out
    BY <1>2, RecordsAre DEF IsRecord, Fields, Others
  <2> QED
    BY <1>1, <1>2, <2>1, MoveKeeps DEF Turns
<1>3. CASE Fails(w, "error")
  BY <1>1, <1>3, FailsKeeps
<1> QED
  BY <1>2, <1>3 DEF Checkpoints

(* A worker adds to the log and goes on with what it knows of it.          *)
LEMMA WritesKeeps ==
    ASSUME HostAssumption, HostInv, NEW w \in Workers, NEW pc, Adds(log, log'),
           workers' = [workers EXCEPT ![w].pc = pc, ![w].rev = Len(log')],
           workers[w].pc \in Writing, UNCHANGED <<locker, coord, resident, cmds>>
    PROVE  HostInv'
<1>1. PICK rev : rev = Len(log')
  OBVIOUS
<1>2. PICK x, y : x = workers[w] /\ y = [x EXCEPT !.pc = pc, !.rev = rev]
  OBVIOUS
<1>3. IsRecord(y) /\ y.queue = x.queue /\ y.out = x.out
  BY <1>2, RecordsAre DEF IsRecord, Fields
<1>4. workers' = [workers EXCEPT ![w].pc = pc, ![w].rev = rev]
  BY <1>1
<1>5. workers' = [workers EXCEPT ![w] = y]
  BY <1>2, <1>4, RecordsAre DEF IsRecord, Fields
<1>6. Others(w) /\ workers'[w].queue = workers[w].queue /\ workers'[w].out = workers[w].out
  BY <1>2, <1>3, <1>5, BecomesIs
<1>7. workers'[w].out = "unknown" => Lost(log')
  BY <1>6, AddsKeeps DEF HostInv, ToldOK, ShapeOK, Keeps
<1> QED
  BY <1>6, <1>7, AloneKeeps DEF Alone, Turns, HostInv, ToldOK, ShapeOK

LEMMA CarriesKeeps ==
    ASSUME HostAssumption, HostInv, NEW w \in Workers, NEW type \in {"none", "ask", "end"},
           Carries(w, IF type = "none" THEN <<>> ELSE <<Entry(type, w)>>),
           workers[w].pc \in Writing, UNCHANGED <<locker, coord, resident, cmds>>
    PROVE  HostInv'
<1>1. CASE ~Accepts(w)
  BY <1>1, FailsKeeps DEF Carries
<1>2. CASE Accepts(w)
  <2>1. PICK step : step = Entry("step", w) /\ step \in Entries /\ \A s : Silent(s, step)
    <3>1. "step" \in Kinds /\ w \in 0 .. MaxWorkers
      BY DEF Kinds, Workers, HostAssumption
    <3>2. Entry("step", w) \in Entries /\ \A s : Silent(s, Entry("step", w))
      BY <3>1, EntryIs
    <3> QED
      BY <3>2, Zenon
  <2>2. log \in Seq(Entries)
    BY DEF HostInv, ShapeOK
  <2>3. CASE type = "none"
    <3>1. log' = log \o <<>> \o <<step>>
      BY <1>2, <2>1, <2>3 DEF Carries
    <3>2. log' = Append(log, step)
      BY <2>1, <2>2, <3>1, ConcatEmptySeq, AppendIsConcat
    <3>3. Adds(log, log')
      BY <2>1, <3>2 DEF Adds
    <3> QED
      BY <1>2, <3>3, WritesKeeps DEF Carries
  <2>4. CASE type # "none"
    <3>1. PICK e : e = Entry(type, w) /\ e \in Entries /\ \A s : Silent(s, e)
      BY <2>4, EntryIs DEF Kinds, Sources, Workers, HostAssumption
    <3>2. log' = log \o <<e>> \o <<step>>
      BY <1>2, <2>1, <2>4, <3>1 DEF Carries
    <3>3. Append(log, e) = log \o <<e>> /\ Append(log, e) \in Seq(Entries)
      BY <2>2, <3>1, AppendIsConcat, AppendProperties
    <3>4. log' = Append(Append(log, e), step)
      BY <2>1, <3>2, <3>3, AppendIsConcat
    <3>5. Adds(log, log')
      BY <2>1, <3>1, <3>4 DEF Adds
    <3> QED
      BY <1>2, <3>5, WritesKeeps DEF Carries
  <2> QED
    BY <2>3, <2>4
<1> QED
  BY <1>1, <1>2

LEMMA PlainKeeps ==
    ASSUME HostAssumption, HostInv, NEW w \in Workers, Plain(w)
    PROVE  HostInv'
<1>1. Carries(w, IF "none" = "none" THEN <<>> ELSE <<Entry("none", w)>>)
  BY DEF Plain
<1>2. workers[w].pc \in Writing /\ UNCHANGED <<locker, coord, resident, cmds>>
  BY DEF Plain, Works, InPass, Writing
<1> QED
  BY <1>1, <1>2, CarriesKeeps

LEMMA CallReturnsKeeps ==
    ASSUME HostAssumption, HostInv, NEW w \in Workers, CallReturns(w)
    PROVE  HostInv'
<1>1. PICK type \in {"ask", "end"} : Carries(w, <<Entry(type, w)>>)
  BY DEF CallReturns
<1>2. workers[w].pc \in Writing /\ UNCHANGED <<locker, coord, resident, cmds>>
  BY DEF CallReturns, Writing
<1>3. Carries(w, IF type = "none" THEN <<>> ELSE <<Entry(type, w)>>)
  BY <1>1
<1> QED
  BY <1>2, <1>3, CarriesKeeps

LEMMA UnknownKeeps ==
    ASSUME HostAssumption, HostInv, NEW w \in Workers, Unknown(w)
    PROVE  HostInv'
<1>1. workers[w].pc \in Writing /\ UNCHANGED <<locker, coord, resident, cmds>>
  BY DEF Unknown, Works, InPass, Writing
<1>2. CASE Since("lost")
  <2>1. Lost(log)
    BY <1>2 DEF Since, Of, Lost, Ats
  <2> QED
    BY <1>1, <1>2, <2>1, FailsKeeps DEF Unknown
<1>3. CASE ~Since("lost") /\ ~Accepts(w)
  BY <1>1, <1>3, FailsKeeps DEF Unknown
<1>4. CASE ~Since("lost") /\ Accepts(w)
  <2>1. log' = Append(log, Entry("lost", w)) /\ Returns(w, "unknown")
    BY <1>4 DEF Unknown
  <2>2. /\ Entry("lost", w) \in Entries /\ Silent(log, Entry("lost", w))
        /\ Entry("lost", w).type = "lost"
    BY EntryIs DEF Kinds, Workers, HostAssumption
  <2>3. log \in Seq(Entries)
    BY DEF HostInv, ShapeOK
  <2>4. Adds(log, log') /\ Lost(log')
    BY <2>1, <2>2, <2>3, LostKept DEF Adds
  <2>5. Others(w) /\ workers'[w].queue = workers[w].queue
    BY <2>1, ReturnsIs
  <2> QED
    BY <1>1, <2>4, <2>5, AloneKeeps DEF Alone, Turns, HostInv, ToldOK, ShapeOK
<1> QED
  BY <1>2, <1>3, <1>4
(* What the loop reads in the log is what the counts say of it.            *)
LEMMA ReadsAre ==
    ASSUME HostInv
    PROVE  /\ \A n : Rank(n) = Count(log, n, Sources)
           /\ Steps = Count(log, Len(log), {"step"})
           /\ Decided = Upto(log, Len(log), Sources)
           /\ Asked <=> Count(log, Len(log), {"ask"}) > Count(log, Len(log), {"answer"})
<1>1. \A type : Of(type) = Ats(log, type)
  BY DEF Of, Ats
<1>2. \A type : Cardinality(Of(type)) = Count(log, Len(log), {type})
  BY <1>1, CountAll DEF HostInv, ShapeOK
<1> QED
  BY <1>2 DEF Rank, SourcesTo, Count, Upto, Steps, Decided, Asked

(* A call is dispatched after the step of the one before it, for a source  *)
(* of its own.                                                             *)
LEMMA DispatchFits ==
    ASSUME HostAssumption, HostInv, NEW w \in Workers,
           Unread, Next1 \in {"start", "answer"}, ~Dispatched
    PROVE  Entry("work", w) \in Entries /\ Silent(log, Entry("work", w))
<1>1. Entry("work", w) \in Entries /\ Entry("work", w).type = "work" /\ Entry("work", w).cmd = "none"
  BY EntryIs DEF Kinds, Workers, HostAssumption
<1>2. log \in Seq(Entries) /\ Len(log) \in Nat /\ DOMAIN log = 1 .. Len(log)
  BY LenProperties DEF HostInv, ShapeOK
<1>3. ASSUME NEW i \in Ats(log, "work")
      PROVE  \E j \in Ats(log, "step") : i < j
  <2>1. PICK j \in Ats(log, "step") : ~(j < i)
    BY DEF Dispatched, Since, Of, Ats
  <2>2. i # j /\ i \in Nat /\ j \in Nat
    BY <1>2 DEF Ats
  <2>3. i < j
    BY <2>1, <2>2
  <2> QED
    BY <2>3
<1>4. Callers(log, Len(log)) # {}
  <2>1. PICK k : k = Count(log, Len(log), {"step"}) + 1
    OBVIOUS
  <2>2. PICK n \in Nat : n = Count(log, Len(log), Sources)
    BY <1>2, CountType
  <2>3. Count(log, Len(log), {"step"}) \in Nat
    BY <1>2, CountType
  <2>4. n > Count(log, Len(log), {"step"})
    BY <2>2, ReadsAre DEF Unread
  <2>5. k \in Nat /\ k # 0 /\ k <= n
    BY <2>1, <2>3, <2>4
  <2>6. \E i \in Upto(log, Len(log), Sources) : Count(log, i, Sources) = k
    BY <1>2, <2>2, <2>5, CountReaches
  <2>7. PICK i : i = CHOOSE j \in Decided : Rank(j) = Steps + 1
    OBVIOUS
  <2>8. i \in Upto(log, Len(log), Sources) /\ Count(log, i, Sources) = k
    BY <2>1, <2>6, <2>7, ReadsAre
  <2>9. log[i].type \in {"start", "answer"}
    BY <2>7 DEF Next1
  <2> QED
    BY <1>2, <2>1, <2>8, <2>9 DEF Callers, Upto
<1> QED
  BY <1>1, <1>3, <1>4 DEF Silent, Fits

LEMMA DispatchesKeeps ==
    ASSUME HostAssumption, HostInv, NEW w \in Workers, Dispatches(w)
    PROVE  HostInv'
<1>1. workers[w].pc \in Writing /\ UNCHANGED <<locker, coord, resident, cmds>>
  BY DEF Dispatches, Works, InPass, Writing
<1>2. CASE ~Accepts(w)
  BY <1>1, <1>2, FailsKeeps DEF Dispatches
<1>3. CASE Accepts(w)
  <2>1. Entry("work", w) \in Entries /\ Silent(log, Entry("work", w))
    BY DispatchFits DEF Dispatches, Works
  <2>2. Adds(log, log')
    BY <1>3, <2>1 DEF Dispatches, Adds
  <2> QED
    BY <1>1, <1>3, <2>2, WritesKeeps DEF Dispatches
<1> QED
  BY <1>2, <1>3

(* The status is that of the first end: what comes after the cursor comes  *)
(* after it.                                                               *)
LEMMA StatusAgrees ==
    ASSUME HostInv
    PROVE  Agrees(Status, log)
<1>1. log \in Seq(Entries) /\ Len(log) \in Nat /\ DOMAIN log = 1 .. Len(log)
  BY LenProperties DEF HostInv, ShapeOK
<1>2. \A type : Of(type) = Ats(log, type)
  BY DEF Of, Ats
<1>3. EndsTaken \subseteq Nat /\ EndsTaken \subseteq Ats(log, "cancel") \cup Ats(log, "end")
  BY <1>1, <1>2 DEF EndsTaken, Ats
<1>4. ASSUME NEW i \in EndsTaken, \A j \in EndsTaken : i <= j,
             NEW j \in Ats(log, "end") \cup Ats(log, "cancel")
      PROVE  i <= j
  <2>1. CASE j \in EndsTaken
    BY <1>4, <2>1
  <2>2. CASE j \notin EndsTaken
    <3>1. i \in Nat /\ j \in Nat /\ Steps \in Nat
      BY <1>1, <1>3, CountType, ReadsAre DEF Ats
    <3>2. Rank(i) <= Steps /\ ~(Rank(j) <= Steps)
      BY <1>2, <2>2 DEF EndsTaken
    <3>3. j <= i => Rank(j) <= Rank(i)
      BY <3>1, CountGrows, ReadsAre
    <3>4. Rank(i) \in Nat /\ Rank(j) \in Nat
      BY <3>1, CountType, ReadsAre
    <3> QED
      BY <3>1, <3>2, <3>3, <3>4
  <2> QED
    BY <2>1, <2>2
<1>5. ASSUME Status = "cancelled"
      PROVE  First(log, "cancel")
  <2>1. PICK i \in EndsTaken \cap Of("cancel") : \A j \in EndsTaken : i <= j
    BY <1>5 DEF Status
  <2> QED
    BY <1>2, <1>4, <2>1 DEF First
<1>6. ASSUME Status = "succeeded"
      PROVE  First(log, "end")
  <2>1. EndsTaken # {}
    BY <1>6 DEF Status
  <2>2. PICK i \in EndsTaken : \A j \in EndsTaken : i <= j
    BY <1>3, <2>1, LeastOf
  <2>3. i \notin Of("cancel")
    BY <1>6, <2>1, <2>2 DEF Status
  <2>4. i \in Ats(log, "end")
    BY <1>2, <1>3, <2>3
  <2> QED
    BY <1>4, <2>2, <2>4 DEF First
<1>7. Status # "unknown"
  BY DEF Status
<1> QED
  BY <1>5, <1>6, <1>7 DEF Agrees

LEMMA CompletesKeeps ==
    ASSUME HostAssumption, HostInv, NEW w \in Workers, Completes(w)
    PROVE  HostInv'
<1>1. workers[w].pc = "ended" /\ UNCHANGED <<log, locker, resident, cmds>>
  BY DEF Completes
<1>2. /\ Others(w) /\ workers'[w].queue = workers[w].queue /\ workers'[w].out = workers[w].out
  BY ZenonT(30), RecordsAre DEF Completes, IsRecord, Fields, Others
<1>3. coord' = coord \/ (coord' = "unknown" /\ workers[w].out = "unknown") \/ coord' = Status
  BY DEF Completes
<1>4. Agrees(coord', log)
  BY <1>3, StatusAgrees DEF HostInv, ToldOK, Agrees
<1>5. Turns(w) /\ Adds(log, log')
  BY <1>1 DEF Turns, Writing, Adds
<1> QED
  BY <1>1, <1>2, <1>4, <1>5, AloneKeeps DEF Alone, HostInv, ToldOK, ShapeOK

LEMMA GoesOnKeeps ==
    ASSUME HostAssumption, HostInv, NEW w \in Workers, GoesOn(w)
    PROVE  HostInv'
<1>1. \E pc : Moves(w, pc)
  BY DEF GoesOn
<1>2. workers[w].pc \in Writing
  BY DEF GoesOn, Writing
<1> QED
  BY <1>1, <1>2, MovesKeeps

LEMMA WakesKeeps ==
    ASSUME HostAssumption, HostInv, NEW w \in Workers, Wakes(w)
    PROVE  HostInv'
<1>1. workers[w].pc \in Writing
  BY DEF Wakes, Writing
<1>2. CASE Moves(w, "closing")
  BY <1>1, <1>2, MovesKeeps
<1>3. CASE /\ workers' = [workers EXCEPT ![w].pc = "top", ![w].wake = FALSE]
           /\ UNCHANGED <<log, locker, coord, resident, cmds>>
  <2>1. PICK x, y : x = workers[w] /\ y = [x EXCEPT !.pc = "top", !.wake = FALSE]
    OBVIOUS
  <2>2. IsRecord(y) /\ y.queue = x.queue /\ y.out = x.out
    BY <2>1, RecordsAre DEF IsRecord, Fields
  <2>3. workers' = [workers EXCEPT ![w] = y]
    BY <1>3, <2>1, RecordsAre DEF IsRecord, Fields
  <2> QED
    BY ZenonT(30), <1>1, <1>3, <2>1, <2>2, <2>3, BecomesIs, MoveKeeps DEF Turns
<1> QED
  BY <1>2, <1>3 DEF Wakes

LEMMA ClosesWriterKeeps ==
    ASSUME HostAssumption, HostInv, NEW w \in Workers, ClosesWriter(w)
    PROVE  HostInv'
<1>1. locker = w /\ locker' = 0 /\ UNCHANGED <<log, coord, resident, cmds>>
  BY DEF ClosesWriter, HostInv, Held, Writing
<1>2. PICK x, y : x = Gone(w) /\ y = [x EXCEPT !.pc = "closed"]
  OBVIOUS
<1>3. IsRecord(x) /\ x.queue = <<>> /\ x.out = "none"
  BY <1>2, GoneIs
<1>4. IsRecord(y) /\ y.queue = <<>> /\ y.out = "none" /\ y.pc = "closed"
  BY <1>2, <1>3 DEF IsRecord, Fields
<1>5. workers' = [workers EXCEPT ![w] = y]
  BY <1>2 DEF ClosesWriter
<1>6. Others(w) /\ workers'[w] = y
  BY <1>4, <1>5, BecomesIs
<1> QED
  BY <1>1, <1>4, <1>6, MoveKeeps DEF Turns, Writing

LEMMA LeavesKeeps ==
    ASSUME HostAssumption, HostInv, NEW w \in Workers, Leaves(w)
    PROVE  HostInv'
<1>1. workers[w].pc = "closed" /\ UNCHANGED <<log, locker, coord, cmds>>
  BY DEF Leaves
<1>2. PICK x : x = Gone(w) /\ IsRecord(x) /\ x.queue = <<>> /\ x.out = "none" /\ x.pc = "gone"
  BY GoneIs, Zenon
<1>3. Others(w) /\ workers'[w] = x
  BY <1>2, BecomesIs DEF Leaves
<1>4. resident' \in [Hosts -> 0 .. MaxWorkers]
  <2>1. PICK h : h = workers[w].host
    OBVIOUS
  <2>2. resident' = [resident EXCEPT ![h] = 0] \/ resident' = resident
    BY <2>1 DEF Leaves
  <2>3. resident \in [Hosts -> 0 .. MaxWorkers] /\ 0 \in 0 .. MaxWorkers
    BY DEF HostInv, ShapeOK, HostAssumption
  <2> QED
    BY <2>2, <2>3
<1>5. Turns(w) /\ Adds(log, log') /\ Agrees(coord', log)
  BY <1>1, <1>2, <1>3 DEF Turns, Writing, Adds, HostInv, ToldOK
<1> QED
  BY <1>1, <1>2, <1>3, <1>4, <1>5, AloneKeeps DEF Alone
-----------------------------------------------------------------------------
(* The commands: given to a worker, judged by it, heard by the caller.     *)

LEMMA CommandIsEntry ==
    ASSUME NEW type \in Kinds, NEW w \in 0 .. MaxWorkers, NEW c \in Commands
    PROVE  \E r : r = [type |-> type, by |-> w, cmd |-> c] /\ r \in Entries /\ r.cmd = c /\ r.type = type
<1>1. PICK r : r = [type |-> type, by |-> w, cmd |-> c]
  OBVIOUS
<1>2. PICK names : names = Commands \cup {"none"}
  OBVIOUS
<1>3. c \in names
  BY <1>2
<1>4. r \in [type : Kinds, by : 0 .. MaxWorkers, cmd : names] /\ r.cmd = c /\ r.type = type
  BY <1>1, <1>3
<1> QED
  BY <1>1, <1>2, <1>4, Zenon DEF Entries

(* The entry a command brings is one the log may take.                     *)
LEMMA WantedFits ==
    ASSUME HostAssumption, HostInv, NEW w \in Workers, NEW c \in Commands, Unjudged(c), Wanted(c) # "none",
           NEW e, e = [Entry(Wanted(c), w) EXCEPT !.cmd = c]
    PROVE  e \in Entries /\ e.cmd = c /\ Fits(log, e)
<1>1. Wanted(c) \in {"cancel", "answer"} /\ (Wanted(c) = "answer" => Asked)
  BY DEF Wanted
<1>2. PICK type, d : type = Wanted(c) /\ d = Entry(type, w)
  OBVIOUS
<1>3. type \in Kinds /\ w \in 0 .. MaxWorkers
  BY <1>1, <1>2 DEF Kinds, Sources, Workers, HostAssumption
<1>4. e = [type |-> type, by |-> w, cmd |-> c]
  BY <1>2 DEF Entry
<1>5. e \in Entries /\ e.cmd = c /\ e.type = type
  <2>1. PICK r : r = [type |-> type, by |-> w, cmd |-> c] /\ r \in Entries /\ r.cmd = c /\ r.type = type
    BY <1>3, CommandIsEntry
  <2> QED
    BY <1>4, <2>1, Zenon
<1>6. type = "answer" => Count(log, Len(log), {"answer"}) < Count(log, Len(log), {"ask"})
  <2>1. log \in Seq(Entries) /\ Len(log) \in Nat
    BY LenProperties DEF HostInv, ShapeOK
  <2> QED
    BY <1>1, <1>2, <2>1, ReadsAre, CountType
<1> QED
  BY <1>1, <1>2, <1>5, <1>6 DEF Fits, Unjudged

LEMMA DrainsKeeps ==
    ASSUME HostAssumption, HostInv, NEW w \in Workers, Drains(w)
    PROVE  HostInv'
<1>1. PICK q : q = workers[w].queue
  OBVIOUS
<1>2. PICK c : c = Head(q)
  OBVIOUS
<1>3. /\ q \in Seq(Commands) /\ q # <<>> /\ c \in Commands /\ Tail(q) \in Seq(Commands)
      /\ 1 \in DOMAIN q /\ q[1] = c
      /\ \A i \in DOMAIN Tail(q) : i \in Nat /\ i # 0 /\ i + 1 \in DOMAIN q /\ Tail(q)[i] = q[i + 1]
  <2>1. q \in Seq(Commands) /\ q # <<>>
    BY <1>1 DEF Drains, HostInv, ShapeOK, IsWorker
  <2>2. /\ Head(q) \in Commands /\ Tail(q) \in Seq(Commands) /\ Len(Tail(q)) = Len(q) - 1
        /\ \A i \in 1 .. Len(Tail(q)) : Tail(q)[i] = q[i + 1]
    BY <2>1, HeadTailProperties
  <2>3. Len(q) \in Nat /\ Len(q) # 0 /\ DOMAIN q = 1 .. Len(q) /\ DOMAIN Tail(q) = 1 .. Len(Tail(q))
    BY <2>1, <2>2, LenProperties, EmptySeq
  <2>4. Head(q) = q[1]
    BY <2>1
  <2> QED
    BY <1>2, <2>1, <2>2, <2>3, <2>4
<1>4. Unjudged(c)
  BY <1>1, <1>3 DEF HostInv, MailOK, Boxed
<1>5. PICK e : e = [Entry(Wanted(c), w) EXCEPT !.cmd = c]
  OBVIOUS
<1> DEFINE ok == Wanted(c) # "none" /\ Claimed(w)
<1>6. PICK reply : /\ reply = IF ok THEN "ok" ELSE "refused"
                   /\ log' = IF ok THEN Append(log, e) ELSE log
                   /\ cmds' = [cmds EXCEPT ![c].reply = reply]
  <2>1. PICK reply : reply = IF ok THEN "ok" ELSE "refused"
    OBVIOUS
  <2>2. /\ log' = IF ok THEN Append(log, e) ELSE log
        /\ cmds' = [cmds EXCEPT ![c].reply = IF ok THEN "ok" ELSE "refused"]
    BY <1>1, <1>2, <1>5 DEF Drains
  <2>3. cmds' = [cmds EXCEPT ![c].reply = reply]
    BY <2>1, <2>2
  <2> QED
    BY <2>1, <2>2, <2>3
<1>7. ok => e \in Entries /\ e.cmd = c /\ Fits(log, e)
  BY <1>3, <1>4, <1>5, WantedFits
<1> HIDE DEF ok
<1>8. log \in Seq(Entries) /\ LogOK(log)
  BY DEF HostInv, ShapeOK
<1>9. /\ log' \in Seq(Entries) /\ LogOK(log')
      /\ \A d : InLog(log', d) <=> InLog(log, d) \/ (ok /\ d = c)
      /\ First(log, "end") => First(log', "end")
      /\ First(log, "cancel") => First(log', "cancel")
      /\ Lost(log) => Lost(log')
  <2>1. CASE ok
    BY <1>6, <1>7, <1>8, <2>1, AppendIs, LogAppend, InLogAppend, FirstKept, LostKept
  <2>2. CASE ~ok
    BY <1>6, <1>8, <2>2
  <2> QED
    BY <2>1, <2>2
<1>10. workers' = [workers EXCEPT ![w].queue = Tail(q)] /\ UNCHANGED <<locker, coord, resident>>
  BY <1>1 DEF Drains
<1>11. PICK y : y = [workers[w] EXCEPT !.queue = Tail(q)]
  OBVIOUS
<1>12. IsRecord(y) /\ y.queue = Tail(q) /\ y.pc = workers[w].pc /\ y.out = workers[w].out
  BY <1>11, RecordsAre DEF IsRecord, Fields
<1>13. Others(w) /\ workers'[w] = y
  <2>1. workers' = [workers EXCEPT ![w] = y]
    BY <1>10, <1>11
  <2> QED
    BY <1>12, <2>1, BecomesIs
<1>14. /\ \A d \in Commands : IsCommand(cmds'[d]) /\ cmds'[d].pc = cmds[d].pc
       /\ cmds' = [d \in Commands |-> cmds'[d]] /\ cmds'[c].reply = reply
       /\ \A d \in Commands : d # c => cmds'[d].reply = cmds[d].reply
  <2>1. cmds = [d \in Commands |-> cmds[d]] /\ \A d \in Commands : IsCommand(cmds[d])
    BY DEF HostInv, ShapeOK
  <2>2. PICK x, z : x = cmds[c] /\ z = [x EXCEPT !.reply = reply]
    OBVIOUS
  <2>3. IsCommand(z) /\ z.pc = x.pc /\ z.reply = reply
    <3>1. reply \in {"none", "ok", "refused"}
      BY <1>6
    <3> QED
      BY <1>3, <2>1, <2>2, <3>1 DEF IsCommand, CmdFields
  <2>4. cmds' = [cmds EXCEPT ![c] = z]
    BY <1>6, <2>2
  <2> QED
    BY <1>3, <2>1, <2>2, <2>3, <2>4
<1>15. ShapeOK'
  <2>1. \A v \in Workers : IsWorker(workers'[v])
    BY <1>3, <1>12, <1>13 DEF HostInv, ShapeOK, Others, IsWorker
  <2>2. workers' = [v \in Workers |-> workers'[v]]
    BY <1>13 DEF Others
  <2> QED
    BY <1>9, <1>10, <1>14, <2>1, <2>2 DEF HostInv, ShapeOK, IsWorker, IsRecord, IsCommand, Workers, Commands
<1>16. Held'
  BY <1>10, <1>12, <1>13, HeldKept DEF Turns, HostInv
<1>17. ToldOK'
  <2>1. Agrees(coord', log')
    BY <1>9, <1>10 DEF HostInv, ToldOK, Agrees
  <2>2. ASSUME NEW v \in Workers, workers'[v].out = "unknown" PROVE Lost(log')
    BY <1>9, <1>12, <1>13, <2>2 DEF HostInv, ToldOK, Others
  <2> QED
    BY <2>1, <2>2 DEF ToldOK, Workers
<1>18. ASSUME NEW v \in Workers, NEW i \in DOMAIN workers'[v].queue
       PROVE  /\ v = w => /\ i \in Nat /\ i # 0 /\ i + 1 \in DOMAIN workers[v].queue
                          /\ workers'[v].queue[i] = workers[v].queue[i + 1]
              /\ v # w => i \in DOMAIN workers[v].queue /\ workers'[v].queue[i] = workers[v].queue[i]
  BY <1>1, <1>3, <1>12, <1>13, <1>18 DEF Others
<1>19. Once'
  <2> SUFFICES ASSUME NEW u \in Workers, NEW v \in Workers,
                      NEW i \in DOMAIN workers'[u].queue, NEW j \in DOMAIN workers'[v].queue,
                      workers'[u].queue[i] = workers'[v].queue[j]
               PROVE  u = v /\ i = j
    BY DEF Once, Workers
  <2>1. Once
    BY DEF HostInv, MailOK
  <2>2. CASE u = w /\ v = w
    <3>1. /\ i + 1 \in DOMAIN workers[w].queue /\ j + 1 \in DOMAIN workers[w].queue /\ i \in Nat /\ j \in Nat
          /\ workers[w].queue[i + 1] = workers[w].queue[j + 1]
      BY <1>18, <2>2
    <3>2. i + 1 = j + 1
      BY <2>1, <3>1 DEF Once
    <3> QED
      BY <2>2, <3>1, <3>2
  <2>3. CASE u = w /\ v # w
    BY <1>18, <2>1, <2>3 DEF Once
  <2>4. CASE u # w /\ v = w
    BY <1>18, <2>1, <2>4 DEF Once
  <2>5. CASE u # w /\ v # w
    BY <1>18, <2>1, <2>5 DEF Once
  <2> QED
    BY <2>2, <2>3, <2>4, <2>5
<1>20. Boxed'
  <2> SUFFICES ASSUME NEW v \in Workers, NEW i \in DOMAIN workers'[v].queue,
                      NEW d, d = workers'[v].queue[i]
               PROVE  Unjudged(d)'
    BY DEF Boxed, Workers
  <2>1. PICK k : /\ k \in DOMAIN workers[v].queue /\ workers[v].queue[k] = d
                 /\ v = w => k # 1
    <3>1. CASE v = w
      <4>1. PICK k : k = i + 1
        OBVIOUS
      <4>2. k # 1
        BY <1>18, <3>1, <4>1
      <4> QED
        BY <1>18, <3>1, <4>1, <4>2
    <3>2. CASE v # w
      BY <1>18, <3>2
    <3> QED
      BY <3>1, <3>2
  <2>2. d # c
    BY <1>1, <1>3, <2>1 DEF HostInv, MailOK, Once
  <2>3. Unjudged(d) /\ d \in Commands
    BY <2>1, ElementOfSeq DEF HostInv, MailOK, Boxed, ShapeOK, IsWorker
  <2> QED
    BY <1>9, <1>14, <2>2, <2>3 DEF Unjudged
<1>21. Reported'
  <2>1. ASSUME NEW d \in Commands
        PROVE  /\ cmds'[d].reply = "ok" \/ cmds'[d].pc = "ok" => InLog(log', d)
               /\ cmds'[d].pc \in {"new", "intent"} => cmds'[d].reply = "none" /\ ~InLog(log', d)
    <3>1. CASE d = c
      <4>1. reply = "ok" => ok
        BY <1>6
      <4>2. cmds'[d].pc # "ok" /\ cmds'[d].pc \notin {"new", "intent"}
        BY <1>4, <1>14, <3>1 DEF HostInv, MailOK, Reported, Unjudged
      <4> QED
        BY <1>9, <1>14, <3>1, <4>1, <4>2
    <3>2. CASE d # c
      BY <1>9, <1>14, <3>2 DEF HostInv, MailOK, Reported
    <3> QED
      BY <3>1, <3>2
  <2> QED
    BY <2>1 DEF Reported, Commands
<1> QED
  BY <1>9, <1>15, <1>16, <1>17, <1>19, <1>20, <1>21 DEF HostInv, MailOK
(* A step of a caller that gives nobody a command.                         *)
LEMMA CallerKeeps ==
    ASSUME HostAssumption, HostInv, NEW c \in Commands, NEW x, IsCommand(x), cmds' = [cmds EXCEPT ![c] = x],
           x.reply = cmds[c].reply, x.pc = "ok" => cmds[c].reply = "ok",
           x.pc \in {"new", "intent"} => cmds[c].pc \in {"new", "intent"},
           UNCHANGED <<log, locker, coord, workers, resident>>
    PROVE  HostInv'
<1>1. /\ cmds = [d \in Commands |-> cmds[d]] /\ \A d \in Commands : IsCommand(cmds[d])
  BY DEF HostInv, ShapeOK
<1>2. /\ cmds' = [d \in Commands |-> cmds'[d]] /\ cmds'[c] = x
      /\ \A d \in Commands : d # c => cmds'[d] = cmds[d]
  BY <1>1
<1>3. \A d \in Commands : IsCommand(cmds'[d])
  BY <1>1, <1>2
<1>4. ShapeOK'
  BY <1>2, <1>3 DEF HostInv, ShapeOK, IsWorker, IsRecord, IsCommand, Workers, Commands
<1>5. MailOK'
  BY <1>2, MailKept
<1>6. Held' /\ ToldOK' /\ LogOK(log')
  BY DEF HostInv, Held, ToldOK, Workers
<1> QED
  BY <1>4, <1>5, <1>6 DEF HostInv

LEMMA IntendsKeeps ==
    ASSUME HostAssumption, HostInv, NEW c \in Commands, NEW h, Intends(c, h)
    PROVE  HostInv'
<1>1. PICK x, y : x = cmds[c] /\ y = [x EXCEPT !.pc = "intent", !.host = h]
  OBVIOUS
<1>2. IsCommand(x)
  BY <1>1 DEF HostInv, ShapeOK
<1>3. IsCommand(y) /\ y.reply = x.reply /\ y.pc = "intent"
  BY <1>1, <1>2 DEF IsCommand, CmdFields
<1>4. cmds' = [cmds EXCEPT ![c] = y]
  BY <1>1, <1>2 DEF Intends, HostInv, ShapeOK, IsCommand, CmdFields
<1> QED
  BY <1>1, <1>3, <1>4, CallerKeeps DEF Intends

LEMMA HearsKeeps ==
    ASSUME HostAssumption, HostInv, NEW c \in Commands, Hears(c)
    PROVE  HostInv'
<1>1. PICK x : x = cmds[c] /\ IsCommand(x)
  BY DEF HostInv, ShapeOK
<1>2. PICK pc : /\ pc \in {x.reply, "refused"} /\ cmds' = [cmds EXCEPT ![c].pc = pc]
  <2>1. CASE cmds' = [cmds EXCEPT ![c].pc = cmds[c].reply]
    BY <1>1, <2>1
  <2>2. CASE cmds' = [cmds EXCEPT ![c].pc = "refused"]
    BY <2>2
  <2> QED
    BY <2>1, <2>2 DEF Hears
<1>3. PICK y : y = [x EXCEPT !.pc = pc]
  OBVIOUS
<1>4. IsCommand(y) /\ y.reply = x.reply /\ y.pc = pc
  BY <1>1, <1>3 DEF IsCommand, CmdFields
<1>5. cmds' = [cmds EXCEPT ![c] = y]
  BY <1>1, <1>2, <1>3
<1>6. x.pc = "waiting" /\ UNCHANGED <<log, locker, coord, workers, resident>>
  BY <1>1 DEF Hears
<1>7. pc \notin {"new", "intent"}
  BY <1>1, <1>2 DEF IsCommand
<1> QED
  BY <1>1, <1>2, <1>4, <1>5, <1>6, <1>7, CallerKeeps

(* A mailbox with one more command, at position n.                         *)
Longer(q, old, c, n) ==
    /\ q \in Seq(Commands)
    /\ \A i \in DOMAIN q : IF i = n THEN q[i] = c ELSE i \in DOMAIN old /\ q[i] = old[i]

LEMMA QueueGrows ==
    ASSUME NEW old \in Seq(Commands), NEW c \in Commands, NEW q, q = Append(old, c)
    PROVE  \E n : Longer(q, old, c, n)
<1>1. PICK l \in Nat : l = Len(old)
  BY LenProperties
<1>2. PICK n \in Nat : n = l + 1
  OBVIOUS
<1>3. /\ q \in Seq(Commands) /\ Len(q) = n /\ q[n] = c
      /\ \A i \in 1 .. l : q[i] = old[i]
  BY <1>1, <1>2, AppendProperties
<1>4. DOMAIN q = 1 .. n /\ DOMAIN old = 1 .. l
  BY <1>1, <1>3, LenProperties
<1>5. \A i \in DOMAIN q : IF i = n THEN q[i] = c ELSE i \in DOMAIN old /\ q[i] = old[i]
  BY <1>2, <1>3, <1>4
<1> QED
  BY <1>3, <1>5 DEF Longer

LEMMA RoutesKeeps ==
    ASSUME HostAssumption, HostInv, NEW c \in Commands, NEW h \in Hosts, Routes(c, h)
    PROVE  HostInv'
<1>1. PICK w \in 0 .. MaxWorkers : w = resident[h]
  BY DEF HostInv, ShapeOK
<1>2. PICK x : x = cmds[c] /\ IsCommand(x) /\ x.pc \in {"new", "intent"} /\ x.reply = "none" /\ ~InLog(log, c)
  BY DEF Routes, HostInv, ShapeOK, MailOK, Reported
<1>3. UNCHANGED <<log, locker, coord, resident>>
  BY DEF Routes
<1>4. CASE w = 0
  <2>1. PICK pc \in {"recorded", "refused"} : cmds' = [cmds EXCEPT ![c].pc = pc]
    <3>1. PICK pc : pc = IF c \in Cancels THEN "recorded" ELSE "refused"
      OBVIOUS
    <3>2. cmds' = [cmds EXCEPT ![c].pc = IF c \in Cancels THEN "recorded" ELSE "refused"]
      BY <1>1, <1>4 DEF Routes
    <3>3. cmds' = [cmds EXCEPT ![c].pc = pc]
      BY <3>1, <3>2
    <3> QED
      BY <3>1, <3>3
  <2>2. PICK y : y = [x EXCEPT !.pc = pc]
    OBVIOUS
  <2>3. IsCommand(y) /\ y.reply = x.reply /\ y.pc = pc
    BY <1>2, <2>2 DEF IsCommand, CmdFields
  <2>4. cmds' = [cmds EXCEPT ![c] = y]
    BY <1>2, <2>1, <2>2
  <2>5. UNCHANGED workers
    BY <1>1, <1>4 DEF Routes
  <2> QED
    BY <1>2, <1>3, <2>1, <2>3, <2>4, <2>5, CallerKeeps
<1>5. CASE w # 0
  <2>1. /\ cmds' = [cmds EXCEPT ![c].pc = "waiting", ![c].host = h, ![c].worker = w]
        /\ workers' = [workers EXCEPT ![w].queue = Append(@, c), ![w].wake = TRUE]
    BY <1>1, <1>5 DEF Routes
  <2>2. PICK y : y = [x EXCEPT !.pc = "waiting", !.host = h, !.worker = w]
    OBVIOUS
  <2>3. IsCommand(y) /\ y.reply = "none" /\ y.pc = "waiting"
    BY <1>2, <2>2 DEF IsCommand, CmdFields
  <2>4. cmds' = [cmds EXCEPT ![c] = y]
    BY <1>2, <2>1, <2>2 DEF HostInv, ShapeOK, IsCommand, CmdFields
  <2>5. /\ cmds = [d \in Commands |-> cmds[d]] /\ \A d \in Commands : IsCommand(cmds[d])
    BY DEF HostInv, ShapeOK
  <2>6. /\ cmds' = [d \in Commands |-> cmds'[d]] /\ cmds'[c] = y
        /\ \A d \in Commands : IsCommand(cmds'[d]) /\ (d # c => cmds'[d] = cmds[d])
    BY <2>3, <2>4, <2>5
  <2>7. w \in Workers
    BY <1>5 DEF Workers, HostAssumption
  <2>8. PICK old, q : old = workers[w].queue /\ q = Append(old, c)
    OBVIOUS
  <2>9. old \in Seq(Commands)
    BY <2>7, <2>8 DEF HostInv, ShapeOK, IsWorker
  <2>10. PICK n : Longer(q, old, c, n)
    BY <2>8, <2>9, QueueGrows
  <2>11. /\ old = workers[w].queue /\ q = Append(old, c) /\ q \in Seq(Commands)
        /\ \A i \in DOMAIN q : IF i = n THEN q[i] = c ELSE i \in DOMAIN old /\ q[i] = old[i]
    BY <2>8, <2>10 DEF Longer
  <2>12. PICK r, z : r = workers[w] /\ z = [r EXCEPT !.queue = q, !.wake = TRUE]
    OBVIOUS
  <2>13. IsRecord(z) /\ z.queue = q /\ z.pc = r.pc /\ z.out = r.out
    BY <2>7, <2>12, RecordsAre DEF IsRecord, Fields
  <2>14. workers' = [workers EXCEPT ![w] = z]
    BY <2>1, <2>7, <2>11, <2>12, RecordsAre DEF IsRecord, Fields
  <2>15. Others(w) /\ workers'[w] = z
    BY <2>7, <2>13, <2>14, BecomesIs
  <2>16. ShapeOK'
    <3>1. \A v \in Workers : IsWorker(workers'[v])
      BY <2>11, <2>13, <2>15 DEF HostInv, ShapeOK, Others, IsWorker
    <3>2. workers' = [v \in Workers |-> workers'[v]]
      BY <2>15 DEF Others
    <3> QED
      BY <1>3, <2>6, <3>1, <3>2 DEF HostInv, ShapeOK, IsWorker, IsRecord, IsCommand, Workers, Commands
  <2>17. Held'
    BY <1>3, <2>7, <2>12, <2>13, <2>15, HeldKept DEF HostInv, Turns
  <2>18. ToldOK'
    <3>1. ASSUME NEW v \in Workers, workers'[v].out = "unknown" PROVE Lost(log')
      <4>1. workers[v].out = "unknown"
        BY <2>7, <2>12, <2>13, <2>15, <3>1 DEF Others
      <4> QED
        BY <1>3, <4>1 DEF HostInv, ToldOK
    <3> QED
      BY <1>3, <3>1 DEF HostInv, ToldOK, Workers
  <2>19. \A v \in Workers : \A i \in DOMAIN workers[v].queue : workers[v].queue[i] # c
    BY <1>2 DEF HostInv, MailOK, Boxed, Unjudged
  <2>20. ASSUME NEW v \in Workers, NEW i \in DOMAIN workers'[v].queue
         PROVE  IF v = w /\ i = n THEN workers'[v].queue[i] = c
                ELSE i \in DOMAIN workers[v].queue /\ workers'[v].queue[i] = workers[v].queue[i]
    <3>1. CASE v = w
      BY <2>11, <2>13, <2>15, <2>20, <3>1
    <3>2. CASE v # w
      BY <2>15, <2>20, <3>2 DEF Others
    <3> QED
      BY <3>1, <3>2
  <2>21. Once'
    <3> SUFFICES ASSUME NEW u \in Workers, NEW v \in Workers,
                        NEW i \in DOMAIN workers'[u].queue, NEW j \in DOMAIN workers'[v].queue,
                        workers'[u].queue[i] = workers'[v].queue[j]
                 PROVE  u = v /\ i = j
      BY DEF Once, Workers
    <3>1. CASE u = w /\ i = n
      BY <2>19, <2>20, <3>1
    <3>2. CASE v = w /\ j = n
      BY <2>19, <2>20, <3>2
    <3>3. CASE ~(u = w /\ i = n) /\ ~(v = w /\ j = n)
      BY <2>20, <3>3 DEF HostInv, MailOK, Once
    <3> QED
      BY <3>1, <3>2, <3>3
  <2>22. Boxed'
    <3> SUFFICES ASSUME NEW v \in Workers, NEW i \in DOMAIN workers'[v].queue,
                        NEW d, d = workers'[v].queue[i]
                 PROVE  Unjudged(d)'
      BY DEF Boxed, Workers
    <3>1. CASE d = c
      BY <1>2, <1>3, <2>3, <2>6, <3>1 DEF Unjudged
    <3>2. CASE d # c
      <4>1. i \in DOMAIN workers[v].queue /\ d = workers[v].queue[i]
        BY <2>20, <3>2
      <4>2. Unjudged(d) /\ d \in Commands
        BY <4>1, ElementOfSeq DEF HostInv, MailOK, Boxed, ShapeOK, IsWorker
      <4> QED
        BY <1>3, <2>6, <3>2, <4>2 DEF Unjudged
    <3> QED
      BY <3>1, <3>2
  <2>23. Reported'
    BY <1>3, <2>3, <2>6 DEF HostInv, MailOK, Reported, Commands
  <2> QED
    BY <1>3, <2>16, <2>17, <2>18, <2>21, <2>22, <2>23 DEF HostInv, MailOK
<1> QED
  BY <1>4, <1>5
-----------------------------------------------------------------------------
(* Leases that run out, hosts that close, crash and start again.           *)

LEMMA WorldKeeps ==
    ASSUME HostAssumption, HostInv, Lapses \/ \E h \in Hosts : Restarts(h)
    PROVE  HostInv'
<1>1. UNCHANGED <<log, locker, coord, workers, resident, cmds>>
  BY DEF Lapses, Restarts
<1> QED
  BY <1>1, UntouchedKeeps DEF Adds, HostInv, ToldOK

(* A step that empties or keeps each mailbox, and puts workers out of the  *)
(* writer only with the writer.                                            *)
LEMMA SweepKeeps ==
    ASSUME HostAssumption, HostInv, UNCHANGED <<log, coord>>,
           workers' = [w \in Workers |-> workers'[w]],
           \A w \in Workers : /\ IsRecord(workers'[w])
                              /\ workers'[w].queue \in {workers[w].queue, <<>>}
                              /\ workers'[w].out = "unknown" => workers[w].out = "unknown"
                              /\ workers'[w].pc \in Writing => workers[w].pc \in Writing /\ locker' = locker,
           locker' \in {0, locker}, resident' \in [Hosts -> 0 .. MaxWorkers],
           cmds' = [c \in Commands |-> cmds'[c]],
           \A c \in Commands : /\ IsCommand(cmds'[c]) /\ cmds'[c].reply = cmds[c].reply
                               /\ cmds'[c].pc = "ok" => cmds[c].pc = "ok"
                               /\ cmds'[c].pc \in {"new", "intent"} => cmds[c].pc \in {"new", "intent"}
    PROVE  HostInv'
<1>1. \A w \in Workers : workers'[w].queue \in Seq(Commands)
  <2> SUFFICES ASSUME NEW w \in Workers PROVE workers'[w].queue \in Seq(Commands)
    OBVIOUS
  <2>1. workers[w].queue \in Seq(Commands) /\ <<>> \in Seq(Commands)
    BY DEF HostInv, ShapeOK, IsWorker
  <2>2. workers'[w].queue \in {workers[w].queue, <<>>}
    OBVIOUS
  <2> QED
    BY <2>1, <2>2
<1>2. ShapeOK'
  <2>1. locker' \in 0 .. MaxWorkers /\ log' \in Seq(Entries)
    BY DEF HostInv, ShapeOK, HostAssumption
  <2>2. \A w \in Workers : IsWorker(workers'[w])
    BY <1>1 DEF IsWorker
  <2> QED
    BY <2>1, <2>2 DEF ShapeOK, IsWorker, IsRecord, IsCommand, Workers, Commands
<1>3. Held'
  BY DEF HostInv, Held, Workers
<1>4. ToldOK' /\ LogOK(log')
  BY DEF HostInv, ToldOK, Workers
<1>5. MailOK'
  BY MailKept
<1> QED
  BY <1>2, <1>3, <1>4, <1>5 DEF HostInv

LEMMA CloseKeeps ==
    ASSUME HostAssumption, HostInv, NEW h \in Hosts, Close(h)
    PROVE  HostInv'
<1>1. UNCHANGED <<log, coord, locker, resident, cmds>>
  BY DEF Close
<1>2. workers' = [w \in Workers |-> IF resident[h] = w THEN Stopped(w) ELSE workers[w]]
  BY DEF Close
<1>3. workers' = [w \in Workers |-> workers'[w]]
  BY <1>2
<1>4. ASSUME NEW w \in Workers
      PROVE  /\ IsRecord(workers'[w]) /\ workers'[w].queue = workers[w].queue
             /\ workers'[w].out = workers[w].out /\ workers'[w].pc = workers[w].pc
  <2>1. PICK x, y : x = workers[w] /\ y = [x EXCEPT !.stop = TRUE, !.wake = TRUE]
    OBVIOUS
  <2>2. IsRecord(x)
    BY <2>1, RecordsAre
  <2>3. IsRecord(y) /\ y.queue = x.queue /\ y.out = x.out /\ y.pc = x.pc
    BY <2>1, <2>2 DEF IsRecord, Fields
  <2>4. workers'[w] \in {x, y}
    BY <1>2, <2>1 DEF Stopped
  <2> QED
    BY <2>1, <2>2, <2>3, <2>4
<1>5. /\ resident' \in [Hosts -> 0 .. MaxWorkers]
      /\ cmds' = [c \in Commands |-> cmds'[c]] /\ \A c \in Commands : IsCommand(cmds'[c])
  BY <1>1 DEF HostInv, ShapeOK
<1>6. \A w \in Workers : /\ IsRecord(workers'[w])
                         /\ workers'[w].queue \in {workers[w].queue, <<>>}
                         /\ workers'[w].out = "unknown" => workers[w].out = "unknown"
                         /\ workers'[w].pc \in Writing => workers[w].pc \in Writing /\ locker' = locker
  BY <1>1, <1>4
<1> QED
  BY <1>1, <1>3, <1>5, <1>6, SweepKeeps

LEMMA CrashKeeps ==
    ASSUME HostAssumption, HostInv, NEW h \in Hosts, Crash(h)
    PROVE  HostInv'
<1>1. PICK lost : lost = {w \in Workers : workers[w].host = h /\ Alive(w)}
  OBVIOUS
<1>2. /\ workers' = [w \in Workers |-> IF w \in lost THEN Gone(w) ELSE workers[w]]
      /\ locker' = IF locker \in lost THEN 0 ELSE locker
      /\ UNCHANGED <<log, coord>>
  BY <1>1 DEF Crash
<1>3. workers' = [w \in Workers |-> workers'[w]]
  BY <1>2
<1>4. ASSUME NEW w \in Workers
      PROVE  /\ IsRecord(workers'[w])
             /\ workers'[w].queue \in {workers[w].queue, <<>>}
             /\ workers'[w].out = "unknown" => workers[w].out = "unknown"
             /\ workers'[w].pc \in Writing => workers[w].pc \in Writing /\ locker' = locker
  <2>1. CASE w \in lost
    <3>1. PICK x : x = Gone(w) /\ IsRecord(x) /\ x.queue = <<>> /\ x.out = "none" /\ x.pc = "gone"
      BY GoneIs, Zenon
    <3>2. workers'[w] = x
      BY <1>2, <2>1, <3>1
    <3> QED
      BY <3>1, <3>2 DEF Writing
  <2>2. CASE w \notin lost
    <3>1. workers'[w] = workers[w]
      BY <1>2, <2>2
    <3>2. workers[w].pc \in Writing => locker = w
      BY DEF HostInv, Held
    <3> QED
      BY <1>2, <2>2, <3>1, <3>2, RecordsAre
  <2> QED
    BY <2>1, <2>2
<1>5. resident' \in [Hosts -> 0 .. MaxWorkers]
  <2>1. 0 \in 0 .. MaxWorkers
    BY DEF HostAssumption
  <2> QED
    BY <2>1 DEF Crash, HostInv, ShapeOK
<1>6. cmds' = [c \in Commands |-> IF cmds[c].host = h /\ cmds[c].pc \in {"intent", "waiting"}
                                  THEN [cmds[c] EXCEPT !.pc = "gaveup"] ELSE cmds[c]]
  BY DEF Crash
<1>7. cmds' = [c \in Commands |-> cmds'[c]]
  BY <1>6
<1>8. ASSUME NEW c \in Commands
      PROVE  /\ IsCommand(cmds'[c]) /\ cmds'[c].reply = cmds[c].reply
             /\ cmds'[c].pc = "ok" => cmds[c].pc = "ok"
             /\ cmds'[c].pc \in {"new", "intent"} => cmds[c].pc \in {"new", "intent"}
  <2>1. PICK x, y : x = cmds[c] /\ y = [x EXCEPT !.pc = "gaveup"]
    OBVIOUS
  <2>2. IsCommand(x)
    BY <2>1 DEF HostInv, ShapeOK
  <2>3. IsCommand(y) /\ y.reply = x.reply /\ y.pc = "gaveup"
    BY <2>1, <2>2 DEF IsCommand, CmdFields
  <2>4. cmds'[c] \in {x, y}
    BY <1>6, <2>1
  <2> QED
    BY <2>1, <2>2, <2>3, <2>4
<1> QED
  BY <1>2, <1>3, <1>4, <1>5, <1>7, <1>8, SweepKeeps

-----------------------------------------------------------------------------
LEMMA HostInitial == ASSUME HostAssumption, HostInit PROVE HostInv
<1>1. log = <<>> /\ log \in Seq(Entries) /\ Len(log) = 0 /\ DOMAIN log = {}
  BY DEF HostInit
<1>2. LogOK(log)
  <2>1. Count(log, 0, {"answer"}) = 0 /\ Count(log, 0, {"ask"}) = 0
    BY CountZero
  <2> QED
    BY <1>1, <2>1 DEF LogOK, Spaced, Owned, Answered, NoneTwice, Ats
<1>3. \A w \in Workers : workers[w] = Unborn
  BY DEF HostInit
<1>4. \A w \in Workers : /\ IsWorker(workers[w]) /\ workers[w].queue = <<>>
                         /\ workers[w].out = "none" /\ workers[w].pc = "unborn"
  <2>1. <<>> \in Seq(Commands)
    OBVIOUS
  <2>2. PICK x : x = Unborn
    OBVIOUS
  <2>3. IsRecord(x) /\ x.queue = <<>> /\ x.out = "none" /\ x.pc = "unborn"
    BY <2>2, UnbornIs
  <2> QED
    BY <1>3, <2>1, <2>2, <2>3 DEF IsWorker
<1>5. \A c \in Commands : IsCommand(cmds[c]) /\ cmds[c].reply = "none" /\ cmds[c].pc = "new"
  BY DEF HostInit, IsCommand, CmdFields
<1>6. ShapeOK
  <2>1. workers = [w \in Workers |-> workers[w]] /\ cmds = [c \in Commands |-> cmds[c]]
    BY DEF HostInit
  <2>2. locker \in 0 .. MaxWorkers /\ resident \in [Hosts -> 0 .. MaxWorkers]
    BY DEF HostInit, HostAssumption
  <2> QED
    BY <1>1, <1>4, <1>5, <2>1, <2>2 DEF ShapeOK
<1>7. Held
  BY <1>4 DEF Held, Writing
<1>8. ToldOK
  BY <1>4 DEF ToldOK, Agrees, HostInit
<1>9. MailOK
  BY <1>1, <1>4, <1>5 DEF MailOK, Once, Boxed, Reported, InLog
<1> QED
  BY <1>2, <1>6, <1>7, <1>8, <1>9 DEF HostInv

LEMMA WorkerKeeps ==
    ASSUME HostAssumption, HostInv, NEW w \in Workers, WorkerNext(w)
    PROVE  HostInv'
<1>1. CASE OpenClaimedWriter(w) \/ LoadsFresh(w) \/ Loads(w) \/ Installs(w)
  BY <1>1, OpenKeeps, LoadsFreshKeeps, LoadsKeeps, InstallsKeeps
<1>2. CASE Drains(w) \/ Begins(w) \/ Helper(w) \/ LateHelper(w) \/ Heartbeat(w)
  BY <1>2, DrainsKeeps, BeginsKeeps, HelperKeeps, LateHelperKeeps, HeartbeatKeeps
<1>3. CASE Stops(w) \/ Terminates(w) \/ Idles(w) \/ Plain(w) \/ Unknown(w) \/ Dispatches(w)
  BY <1>3, PassEndsKeeps, PlainKeeps, UnknownKeeps, DispatchesKeeps
<1>4. CASE CallReturns(w) \/ Checkpoints(w) \/ Completes(w) \/ GoesOn(w)
  BY <1>4, CallReturnsKeeps, CheckpointsKeeps, CompletesKeeps, GoesOnKeeps
<1>5. CASE Wakes(w) \/ ClosesWriter(w) \/ Leaves(w)
  BY <1>5, WakesKeeps, ClosesWriterKeeps, LeavesKeeps
<1> QED
  BY <1>1, <1>2, <1>3, <1>4, <1>5 DEF WorkerNext

LEMMA HostStep ==
    ASSUME HostAssumption, HostInv, [HostNext]_hostVars
    PROVE  HostInv'
<1>1. CASE \E w \in Workers : WorkerNext(w)
  BY <1>1, WorkerKeeps
<1>2. CASE \E h \in Hosts : Submit(h) \/ SubmitClaims(h) \/ RecoverClaims(h)
  BY <1>2, SubmitKeeps, SubmitClaimsKeeps, RecoverClaimsKeeps
<1>3. CASE \E h \in Hosts : Close(h) \/ Crash(h)
  BY <1>3, CloseKeeps, CrashKeeps
<1>4. CASE Lapses \/ \E h \in Hosts : Restarts(h)
  BY <1>4, WorldKeeps
<1>5. CASE \E c \in Commands, h \in Hosts : Intends(c, h) \/ Routes(c, h)
  BY <1>5, IntendsKeeps, RoutesKeeps
<1>6. CASE \E c \in Commands : Hears(c)
  BY <1>6, HearsKeeps
<1>7. CASE UNCHANGED hostVars
  BY <1>7, UntouchedKeeps DEF hostVars, Adds, HostInv, ToldOK
<1> QED
  BY <1>1, <1>2, <1>3, <1>4, <1>5, <1>6, <1>7 DEF HostNext

(* The invariant of the hosts: the writer decides who acts, whatever       *)
(* became of the leases (storage_worker.go).                               *)
THEOREM HostsAreOrderly == HostSpec => []HostInv
<1>1. HostInit => HostInv
  BY HostInitial, HostAssumption
<1>2. HostInv /\ [HostNext]_hostVars => HostInv'
  BY HostStep, HostAssumption
<1> QED
  BY <1>1, <1>2, PTL DEF HostSpec

(* No two workers have a call of the job in flight and no call is          *)
(* dispatched twice, however many hosts serve it and whichever of their    *)
(* leases run out: OneCallInFlight.                                        *)
THEOREM CallsDoNotOverlap == HostSpec => []OneCallInFlight
<1>1. ASSUME HostInv PROVE OneCallInFlight
  <2>1. Cardinality({w \in Workers : workers[w].pc = "call"}) <= 1
    <3>1. PICK S : S = {w \in Workers : workers[w].pc = "call"}
      OBVIOUS
    <3>2. S \in SUBSET {locker}
      BY <1>1, <3>1 DEF HostInv, Held, Writing
    <3>3. IsFiniteSet({locker}) /\ Cardinality({locker}) = 1
      BY FS_Singleton
    <3>4. Cardinality(S) <= Cardinality({locker})
      BY <3>2, <3>3, FS_Subset
    <3>5. Cardinality(S) <= 1
      BY <3>3, <3>4
    <3> QED
      BY <3>1, <3>5
  <2>2. Cardinality(Ats(log, "work")) <= Cardinality(Ats(log, "start") \cup Ats(log, "answer"))
    BY <1>1, CallsHaveSources DEF HostInv, ShapeOK
  <2> QED
    BY <2>1, <2>2 DEF OneCallInFlight, At, Ats
<1> QED
  BY <1>1, HostsAreOrderly, PTL

(* A decision reported as taken is in the log, none is there twice, and no *)
(* question is answered twice: DecisionsLandOnce.                          *)
THEOREM DecisionsAreKept == HostSpec => []DecisionsLandOnce
<1>1. ASSUME HostInv PROVE DecisionsLandOnce
  <2>1. /\ \A c \in Commands : cmds[c].pc = "ok" => \E i \in DOMAIN log : log[i].cmd = c
        /\ \A i, j \in DOMAIN log : log[i].cmd = log[j].cmd /\ i # j => log[i].cmd = "none"
    BY <1>1 DEF HostInv, MailOK, Reported, InLog, LogOK, NoneTwice
  <2>2. Cardinality(Ats(log, "answer")) <= Cardinality(Ats(log, "ask"))
    <3>1. Count(log, Len(log), {"answer"}) <= Count(log, Len(log), {"ask"}) /\ log \in Seq(Entries)
      BY <1>1 DEF HostInv, LogOK, Answered, ShapeOK
    <3> QED
      BY <3>1, CountAll
  <2> QED
    BY <2>1, <2>2 DEF DecisionsLandOnce, At, Ats
<1> QED
  BY <1>1, HostsAreOrderly, PTL

(* What the store says of an ended job is what its log says: StoreAgrees.  *)
THEOREM StoreTellsTheTruth == HostSpec => []StoreAgrees
<1>1. ASSUME HostInv PROVE StoreAgrees
  BY <1>1 DEF HostInv, ToldOK, Agrees, StoreAgrees, First, Lost, At, Ats
<1> QED
  BY <1>1, HostsAreOrderly, PTL
=============================================================================
