---------------------------- MODULE RunLoopProofs ----------------------------
(***************************************************************************)
(* Proofs about the reducer and the run loop, for any roster, stages,      *)
(* watchers, limits and people.                                            *)
(***************************************************************************)
EXTENDS RunLoopProperties, FiniteSetTheorems, SequenceTheorems, WellFoundedInduction, TLAPS

-----------------------------------------------------------------------------
(* Sequences: what Kept and FlattenSeq return.  Both are recursive, so the *)
(* lemmas go by induction, from the least natural number that fails.       *)

LEMMA LeastOf ==
    ASSUME NEW S, S \subseteq Nat, S # {}
    PROVE  \E i \in S : \A j \in S : i <= j
<1> DEFINE Before == OpToRel(<, Nat)
<1>1. Before = {ss \in Nat \X Nat : ss[1] < ss[2]}
  BY Zenon DEF OpToRel
<1>2. IsWellFoundedOn(Before, Nat)
  BY NatLessThanWellFounded
<1> HIDE DEF Before
<1>3. PICK least \in S : \A k \in S : ~(<<k, least>> \in Before)
  BY <1>2, WFMin
<1>4. ASSUME NEW k \in S PROVE least <= k
  <2>1. k \in Nat /\ least \in Nat /\ <<k, least>> \in Nat \X Nat
    BY <1>3
  <2>2. ~(k < least)
    BY <1>1, <1>3, <2>1
  <2> QED
    BY <2>1, <2>2
<1> QED
  BY <1>3, <1>4

(* Induction up to n, for a set P of numbers.                              *)
LEMMA UpTo ==
    ASSUME NEW n \in Nat, NEW P, 0 \in P, \A i \in 1 .. n : i - 1 \in P => i \in P
    PROVE  \A i \in 0 .. n : i \in P
<1> SUFFICES ASSUME NEW b \in 0 .. n, b \notin P PROVE FALSE
  OBVIOUS
<1> DEFINE Bad == {i \in 0 .. n : i \notin P}
<1>1. Bad \subseteq Nat /\ Bad # {}
  OBVIOUS
<1>2. PICK i \in Bad : \A j \in Bad : i <= j
  BY <1>1, LeastOf
<1>3. i \in 1 .. n /\ i - 1 \in 0 .. n /\ ~(i <= i - 1)
  BY <1>2
<1>4. i - 1 \in P
  BY <1>2, <1>3
<1> QED
  BY <1>2, <1>3, <1>4

(* A sequence of values each got from the one before.                      *)
Recurses(f, V, v, n, G) ==
    f \in [0 .. n -> V] /\ f[0] = v /\ \A i \in 1 .. n : f[i] = G[i][f[i - 1]]

LEMMA Recursion ==
    ASSUME NEW V, NEW v \in V, NEW n \in Nat, NEW G \in [1 .. n -> [V -> V]]
    PROVE  \E f : Recurses(f, V, v, n, G)
<1> DEFINE P == {k \in 0 .. n : \E f : Recurses(f, V, v, k, G)}
<1>1. 0 \in P
  <2> DEFINE f == [i \in 0 .. 0 |-> v]
  <2>1. Recurses(f, V, v, 0, G)
    BY DEF Recurses
  <2> HIDE DEF f
  <2> QED
    BY <2>1
<1>2. ASSUME NEW k \in 1 .. n, k - 1 \in P PROVE k \in P
  <2>1. PICK f : Recurses(f, V, v, k - 1, G)
    BY <1>2
  <2> DEFINE g == [i \in 0 .. k |-> IF i = k THEN G[k][f[k - 1]] ELSE f[i]]
  <2>2. g \in [0 .. k -> V] /\ g[0] = v
    <3>1. f[k - 1] \in V /\ \A i \in 0 .. k : i # k => f[i] \in V
      BY <2>1 DEF Recurses
    <3> QED
      BY <2>1, <3>1 DEF Recurses
  <2>3. ASSUME NEW i \in 1 .. k PROVE g[i] = G[i][g[i - 1]]
    <3>1. i - 1 \in 0 .. k /\ i \in 0 .. k /\ i - 1 # k /\ g[i - 1] = f[i - 1]
      OBVIOUS
    <3>2. CASE i = k
      BY <3>1, <3>2
    <3>3. CASE i # k
      <4>1. i \in 1 .. k - 1
        BY <3>3
      <4> QED
        BY <2>1, <3>1, <3>3, <4>1 DEF Recurses
    <3> QED
      BY <3>2, <3>3
  <2>4. Recurses(g, V, v, k, G)
    BY <2>2, <2>3 DEF Recurses
  <2> QED
    BY <2>4
<1>3. n \in P
  <2> HIDE DEF P
  <2>1. \A k \in 0 .. n : k \in P
    BY <1>1, <1>2, UpTo
  <2> QED
    BY <2>1
<1> QED
  BY <1>3

(* t lists the elements of s at the positions in Q, each position once.    *)
Places(t, s, Q, p) ==
    /\ p \in [1 .. Len(t) -> Q]
    /\ \A i \in 1 .. Len(t) : t[i] = s[p[i]]
    /\ \A i, j \in 1 .. Len(t) : p[i] = p[j] => i = j
    /\ \A q \in Q : \E i \in 1 .. Len(t) : p[i] = q

Keeping(f, s, P) ==
    f = [n \in 0 .. Len(s) |->
            IF n = 0 THEN <<>> ELSE IF n \in P THEN Append(f[n - 1], s[n]) ELSE f[n - 1]]

KeepsSoFar(f, S, s, P) ==
    /\ f \in [0 .. Len(s) -> Seq(S)]
    /\ f[0] = <<>>
    /\ \A n \in 1 .. Len(s) : f[n] = IF n \in P THEN Append(f[n - 1], s[n]) ELSE f[n - 1]

LEMMA KeptIsRecursive ==
    ASSUME NEW S, NEW s \in Seq(S), NEW P
    PROVE  \E f : KeepsSoFar(f, S, s, P) /\ Kept(s, P) = f[Len(s)]
<1> DEFINE N == Len(s)
           V == Seq(S)
           G == [i \in 1 .. N |-> [v \in V |-> IF i \in P THEN Append(v, s[i]) ELSE v]]
<1>1. N \in Nat /\ \A i \in 1 .. N : s[i] \in S
  OBVIOUS
<1>2. G \in [1 .. N -> [V -> V]]
  BY <1>1
<1>3. <<>> \in V
  OBVIOUS
<1>4. PICK g : Recurses(g, V, <<>>, N, G)
  <2> HIDE DEF G, V, N
  <2> QED
    BY <1>1, <1>2, <1>3, Recursion
<1>5. ASSUME NEW i \in 1 .. N PROVE i - 1 \in 0 .. N /\ g[i - 1] \in V /\ i # 0 /\ i \in 0 .. N
  <2> HIDE DEF G, V, N
  <2> QED
    BY <1>1, <1>4 DEF Recurses
<1>6. Keeping(g, s, P)
  <2> DEFINE h == [n \in 0 .. Len(s) |->
            IF n = 0 THEN <<>> ELSE IF n \in P THEN Append(g[n - 1], s[n]) ELSE g[n - 1]]
  <2>1. ASSUME NEW i \in 0 .. N PROVE g[i] = h[i]
    <3>1. CASE i = 0
      BY <1>4, <3>1 DEF Recurses
    <3>2. CASE i # 0
      <4>1. i \in 1 .. N
        BY <1>1, <3>2
      <4> QED
        BY <1>4, <1>5, <4>1 DEF Recurses
    <3> QED
      BY <3>1, <3>2
  <2> QED
    BY <1>4, <2>1 DEF Keeping, Recurses
<1>7. Kept(s, P) = (CHOOSE f : Keeping(f, s, P))[N]
  BY DEF Kept, Keeping
<1>8. PICK f : f = CHOOSE h : Keeping(h, s, P)
  OBVIOUS
<1>9. Keeping(f, s, P)
  BY <1>6, <1>8
<1>10. f[0] = <<>> /\ DOMAIN f = 0 .. N
  BY <1>1, <1>9 DEF Keeping
<1>11. ASSUME NEW n \in 1 .. N PROVE f[n] = IF n \in P THEN Append(f[n - 1], s[n]) ELSE f[n - 1]
  BY <1>5, <1>9, <1>11 DEF Keeping
<1> DEFINE Q == {k \in 0 .. N : f[k] \in V}
<1>12. 0 \in Q
  BY <1>1, <1>10
<1>13. ASSUME NEW n \in 1 .. N, n - 1 \in Q PROVE n \in Q
  <2>1. Append(f[n - 1], s[n]) \in V
    BY <1>1, <1>13
  <2> HIDE DEF V, N
  <2> QED
    BY <1>5, <1>11, <1>13, <2>1
<1>14. \A n \in 0 .. N : n \in Q
  <2> HIDE DEF Q, N
  <2> QED
    BY <1>1, <1>12, <1>13, UpTo
<1>15. f \in [0 .. N -> V]
  BY <1>9, <1>14 DEF Keeping
<1>16. KeepsSoFar(f, S, s, P)
  BY <1>10, <1>11, <1>15 DEF KeepsSoFar
<1> QED
  BY <1>7, <1>8, <1>16

LEMMA KeptPlaces ==
    ASSUME NEW S, NEW s \in Seq(S), NEW P, P \subseteq 1 .. Len(s)
    PROVE  Kept(s, P) \in Seq(S) /\ \E p : Places(Kept(s, P), s, P, p)
<1> DEFINE N == Len(s)
<1>1. PICK f : KeepsSoFar(f, S, s, P) /\ Kept(s, P) = f[N]
  BY KeptIsRecursive
<1>2. N \in Nat /\ \A i \in P : i \in Nat /\ 1 <= i /\ i <= N
  OBVIOUS
<1> DEFINE Until(n) == {i \in P : i <= n}
           Q == {n \in 0 .. N : \E p : Places(f[n], s, Until(n), p)}
<1>3. 0 \in Q
  <2> DEFINE p == [i \in 1 .. 0 |-> 0]
  <2>1. f[0] = <<>> /\ Until(0) = {}
    <3>1. \A i \in P : ~(i <= 0)
      BY <1>2
    <3>2. Until(0) = {}
      BY <3>1
    <3> QED
      BY <1>1, <3>2 DEF KeepsSoFar
  <2>2. Places(<<>>, s, {}, p)
    BY DEF Places
  <2>3. Places(f[0], s, Until(0), p)
    BY <2>1, <2>2
  <2> HIDE DEF p, Until
  <2> QED
    BY <1>2, <2>3
<1>4. ASSUME NEW n \in 1 .. N, n - 1 \in Q PROVE n \in Q
  <2> DEFINE before == f[n - 1]
             old == Until(n - 1)
             new == Until(n)
  <2>1. /\ n - 1 \in 0 .. N /\ n \in 0 .. N /\ n # 0 /\ n \in Nat /\ before \in Seq(S)
        /\ s[n] \in S
        /\ f[n] = IF n \in P THEN Append(before, s[n]) ELSE before
    BY <1>1 DEF KeepsSoFar
  <2>2. PICK p : Places(before, s, old, p)
    BY <1>4
  <2>3. CASE n \notin P
    <3>1. f[n] = before
      BY <2>1, <2>3
    <3>2. new = old
      <4>1. \A i \in P : i <= n <=> i <= n - 1
        BY <1>2, <2>1, <2>3
      <4> QED
        BY <4>1
    <3>3. Places(f[n], s, Until(n), p)
      BY <2>2, <3>1, <3>2
    <3> HIDE DEF Until
    <3> QED
      BY <2>1, <3>3
  <2>4. CASE n \in P
    <3> DEFINE t == Append(before, s[n])
               L == Len(before)
               q == [i \in 1 .. L + 1 |-> IF i = L + 1 THEN n ELSE p[i]]
    <3>0. f[n] = t
      BY <2>1, <2>4
    <3>1. new = old \cup {n} /\ n \notin old
      <4>1. \A i \in P : i <= n <=> i <= n - 1 \/ i = n
        BY <1>2, <2>1, <2>4
      <4>2. n <= n /\ ~(n <= n - 1)
        BY <2>1
      <4> QED
        BY <2>4, <4>1, <4>2
    <3>2. L \in Nat /\ Len(t) = L + 1 /\ t[L + 1] = s[n] /\ \A i \in 1 .. L : t[i] = before[i]
      BY <2>1
    <3>3. \A i \in 1 .. L + 1 : i = L + 1 \/ i \in 1 .. L
      BY <3>2
    <3>4. /\ \A i \in 1 .. L : q[i] = p[i] /\ p[i] \in old
          /\ q[L + 1] = n /\ L + 1 \in 1 .. L + 1 /\ \A i \in 1 .. L : i \in 1 .. L + 1 /\ i # L + 1
      <4> HIDE DEF old, before, L
      <4>1. L + 1 \in 1 .. L + 1 /\ \A i \in 1 .. L : i \in 1 .. L + 1 /\ i # L + 1
        BY <3>2
      <4>2. \A i \in 1 .. L : p[i] \in old
        BY <2>2 DEF Places, L
      <4> QED
        BY <4>1, <4>2
    <3> HIDE DEF q, t, L, old, new, before
    <3>5. q \in [1 .. L + 1 -> new]
      BY <3>1, <3>3, <3>4 DEF q
    <3>6. \A i \in 1 .. L + 1 : t[i] = s[q[i]]
      BY <2>2, <3>2, <3>3, <3>4 DEF Places, L
    <3>7. ASSUME NEW i \in 1 .. L + 1, NEW j \in 1 .. L + 1, q[i] = q[j] PROVE i = j
      BY <2>2, <3>1, <3>3, <3>4, <3>7 DEF Places, L
    <3>8. ASSUME NEW x \in new PROVE \E i \in 1 .. L + 1 : q[i] = x
      <4>1. CASE x = n
        BY <3>4, <4>1
      <4>2. CASE x # n
        <5>1. PICK i \in 1 .. L : p[i] = x
          BY <2>2, <3>1, <4>2 DEF Places, L
        <5> QED
          BY <3>4, <5>1
      <4> QED
        BY <4>1, <4>2
    <3>9. Places(t, s, new, q)
      BY <3>2, <3>5, <3>6, <3>7, <3>8 DEF Places
    <3>10. Places(f[n], s, Until(n), q)
      BY <3>0, <3>9 DEF new
    <3> HIDE DEF Until
    <3> QED
      BY <2>1, <3>10
  <2> QED
    BY <2>3, <2>4
<1>5. N \in Q
  <2> HIDE DEF Q, N
  <2>1. \A k \in 0 .. N : k \in Q
    BY <1>2, <1>3, <1>4, UpTo
  <2> QED
    BY <1>2, <2>1
<1>6. Until(N) = P
  BY <1>2
<1>7. \E p : Places(f[N], s, P, p)
  BY <1>5, <1>6
<1> QED
  BY <1>1, <1>2, <1>7 DEF KeepsSoFar

LEMMA JoinedPlaces ==
    ASSUME NEW S, NEW t \in Seq(S), NEW u \in Seq(S), NEW s, NEW Q, NEW R, NEW p, NEW q,
           Places(t, s, Q, p), Places(u, s, R, q), Q \cap R = {}
    PROVE  \E r : Places(t \o u, s, Q \cup R, r)
<1> DEFINE L == Len(t)
           M == Len(u)
           r == [i \in 1 .. L + M |-> IF i \in 1 .. L THEN p[i] ELSE q[i - L]]
<1>1. /\ L \in Nat /\ M \in Nat /\ Len(t \o u) = L + M
      /\ \A i \in 1 .. L : (t \o u)[i] = t[i]
      /\ \A i \in 1 .. M : (t \o u)[L + i] = u[i]
  OBVIOUS
<1>2. /\ \A i \in 1 .. L : p[i] \in Q /\ t[i] = s[p[i]]
      /\ \A i \in 1 .. M : q[i] \in R /\ u[i] = s[q[i]]
  BY DEF Places
<1> HIDE DEF L, M
<1>3. ASSUME NEW i \in 1 .. L + M, i \notin 1 .. L
      PROVE  i - L \in 1 .. M /\ L + (i - L) = i
  BY <1>1, <1>3
<1>4. \A i \in 1 .. M : L + i \in 1 .. L + M /\ L + i \notin 1 .. L /\ (L + i) - L = i
  BY <1>1
<1>5. \A i \in 1 .. L : i \in 1 .. L + M
  BY <1>1
<1>6. /\ \A i \in 1 .. L : r[i] = p[i]
      /\ \A i \in 1 .. L + M : i \notin 1 .. L => r[i] = q[i - L]
  BY <1>5
<1>7. ASSUME NEW i \in 1 .. L + M PROVE r[i] \in Q \cup R /\ (t \o u)[i] = s[r[i]]
  <2> HIDE DEF r
  <2>1. CASE i \in 1 .. L
    BY <1>1, <1>2, <1>6, <2>1
  <2>2. CASE i \notin 1 .. L
    <3>1. /\ i - L \in 1 .. M /\ L + (i - L) = i /\ r[i] = q[i - L]
      BY <1>3, <1>6, <2>2
    <3>2. (t \o u)[L + (i - L)] = u[i - L] /\ u[i - L] = s[q[i - L]] /\ q[i - L] \in R
      BY <1>1, <1>2, <3>1
    <3> QED
      BY <3>1, <3>2
  <2> QED
    BY <2>1, <2>2
<1>8. r \in [1 .. L + M -> Q \cup R]
  <2>1. \A i \in 1 .. L + M : r[i] \in Q \cup R
    BY <1>7
  <2> QED
    BY <2>1
<1> HIDE DEF r
<1>9. ASSUME NEW i \in 1 .. L + M, NEW j \in 1 .. L + M, r[i] = r[j] PROVE i = j
  <2>0. /\ \A k, l \in 1 .. L : p[k] = p[l] => k = l
        /\ \A k, l \in 1 .. M : q[k] = q[l] => k = l
    BY DEF Places, L, M
  <2>1. CASE i \in 1 .. L /\ j \in 1 .. L
    BY <1>6, <1>9, <2>0, <2>1
  <2>2. CASE i \notin 1 .. L /\ j \notin 1 .. L
    <3>1. q[i - L] = q[j - L] /\ i - L \in 1 .. M /\ j - L \in 1 .. M
      BY <1>3, <1>6, <1>9, <2>2
    <3>2. i - L = j - L
      BY <2>0, <3>1
    <3> QED
      BY <1>3, <2>2, <3>2
  <2>3. CASE i \in 1 .. L /\ j \notin 1 .. L
    <3>1. r[i] \in Q
      BY <1>2, <1>6, <2>3
    <3>2. j - L \in 1 .. M /\ r[j] = q[j - L]
      BY <1>3, <1>6, <2>3
    <3> QED
      BY <1>2, <1>9, <3>1, <3>2
  <2>4. CASE i \notin 1 .. L /\ j \in 1 .. L
    <3>1. r[j] \in Q
      BY <1>2, <1>6, <2>4
    <3>2. i - L \in 1 .. M /\ r[i] = q[i - L]
      BY <1>3, <1>6, <2>4
    <3> QED
      BY <1>2, <1>9, <3>1, <3>2
  <2> QED
    BY <2>1, <2>2, <2>3, <2>4
<1>10. ASSUME NEW x \in Q \cup R PROVE \E i \in 1 .. L + M : r[i] = x
  <2>1. CASE x \in Q
    <3>1. PICK i \in 1 .. L : p[i] = x
      BY <2>1 DEF Places, L
    <3> QED
      BY <1>5, <1>6, <3>1
  <2>2. CASE x \in R
    <3>1. PICK i \in 1 .. M : q[i] = x
      BY <2>2 DEF Places, M
    <3> QED
      BY <1>4, <1>6, <3>1
  <2> QED
    BY <2>1, <2>2
<1>11. Places(t \o u, s, Q \cup R, r)
  BY <1>1, <1>7, <1>8, <1>9, <1>10 DEF Places
<1> QED
  BY <1>11

(* The order of the effects changes none of them.                          *)
LEMMA OrderedPlaces ==
    ASSUME NEW S, NEW fx \in Seq(S)
    PROVE  OrderEffects(fx) \in Seq(S) /\ \E p : Places(OrderEffects(fx), fx, 1 .. Len(fx), p)
<1> DEFINE control == {i \in DOMAIN fx : Control(fx[i])}
           t == Kept(fx, control)
           u == Kept(fx, DOMAIN fx \ control)
<1>1. DOMAIN fx = 1 .. Len(fx)
  OBVIOUS
<1>2. t \in Seq(S) /\ \E p : Places(t, fx, control, p)
  <2>1. control \subseteq 1 .. Len(fx)
    BY <1>1
  <2> HIDE DEF control
  <2> QED
    BY <2>1, KeptPlaces
<1>3. u \in Seq(S) /\ \E p : Places(u, fx, DOMAIN fx \ control, p)
  <2>1. DOMAIN fx \ control \subseteq 1 .. Len(fx)
    BY <1>1
  <2> HIDE DEF control
  <2> QED
    BY <2>1, KeptPlaces
<1>4. PICK p, q : Places(t, fx, control, p) /\ Places(u, fx, DOMAIN fx \ control, q)
  BY <1>2, <1>3
<1>5. control \cap (DOMAIN fx \ control) = {} /\ control \cup (DOMAIN fx \ control) = 1 .. Len(fx)
  BY <1>1
<1>6. OrderEffects(fx) = t \o u
  BY DEF OrderEffects
<1> HIDE DEF t, u, control
<1>7. \E r : Places(t \o u, fx, control \cup (DOMAIN fx \ control), r)
  BY <1>2, <1>3, <1>4, <1>5, JoinedPlaces
<1>8. t \o u \in Seq(S)
  BY <1>2, <1>3
<1> QED
  BY <1>5, <1>6, <1>7, <1>8, Zenon

(* flat is the concatenation of the sequences of ss, the i-th of which     *)
(* begins behind position at[i].                                           *)
Flattens(flat, ss, at) ==
    /\ at[1] = 0
    /\ \A i \in 1 .. Len(ss) : at[i + 1] = at[i] + Len(ss[i])
    /\ Len(flat) = at[Len(ss) + 1]
    /\ \A i \in 1 .. Len(ss) : \A j \in 1 .. Len(ss[i]) : flat[at[i] + j] = ss[i][j]

Flattening(f, ss) ==
    f = [i \in 1 .. Len(ss) |-> IF i = 1 THEN ss[i] ELSE f[i - 1] \o ss[i]]

FlatSoFar(f, S, ss) ==
    /\ f \in [0 .. Len(ss) -> Seq(S)]
    /\ f[0] = <<>>
    /\ \A i \in 1 .. Len(ss) : f[i] = f[i - 1] \o ss[i]

LEMMA FlatIsRecursive ==
    ASSUME NEW S, NEW ss \in Seq(Seq(S))
    PROVE  \E f : FlatSoFar(f, S, ss) /\ FlattenSeq(ss) = f[Len(ss)]
<1> DEFINE N == Len(ss)
           V == Seq(S)
           G == [i \in 1 .. N |-> [v \in V |-> v \o ss[i]]]
<1>1. N \in Nat /\ \A i \in 1 .. N : ss[i] \in V
  OBVIOUS
<1>2. G \in [1 .. N -> [V -> V]] /\ <<>> \in V
  BY <1>1
<1>3. PICK g : Recurses(g, V, <<>>, N, G)
  <2> HIDE DEF G, V, N
  <2> QED
    BY <1>1, <1>2, Recursion
<1>4. /\ \A i \in 0 .. N : g[i] \in V
      /\ g[0] = <<>>
      /\ \A i \in 1 .. N : g[i] = G[i][g[i - 1]]
  BY <1>3 DEF Recurses
<1>5. ASSUME NEW i \in 1 .. N PROVE i - 1 \in 0 .. N /\ g[i - 1] \in V /\ g[i] = g[i - 1] \o ss[i]
  <2>1. i - 1 \in 0 .. N
    BY <1>1
  <2>2. g[i - 1] \in V
    BY <1>4, <2>1
  <2>3. g[i] = G[i][g[i - 1]]
    BY <1>4
  <2> QED
    BY <2>1, <2>2, <2>3
<1>6. FlatSoFar(g, S, ss)
  BY <1>3, <1>4, <1>5 DEF Recurses, FlatSoFar
<1>7. CASE N = 0
  <2>1. FlattenSeq(ss) = ss /\ ss = <<>>
    BY <1>7 DEF FlattenSeq
  <2> QED
    BY <1>4, <1>6, <1>7, <2>1
<1>8. CASE N # 0
  <2> DEFINE Is(f) == f = [i \in 1 .. N |-> IF i = 1 THEN ss[i] ELSE f[i - 1] \o ss[i]]
             h == [i \in 1 .. N |-> g[i]]
  <2>1. FlattenSeq(ss) = (CHOOSE f : Is(f))[N]
    BY <1>8 DEF FlattenSeq
  <2>2. ASSUME NEW i \in 1 .. N PROVE h[i] = IF i = 1 THEN ss[i] ELSE h[i - 1] \o ss[i]
    <3>1. CASE i = 1
      <4>1. g[1] = <<>> \o ss[1] /\ ss[1] \in V
        <5>1. g[i] = g[i - 1] \o ss[i] /\ ss[i] \in V
          BY <1>1, <1>5
        <5>2. i - 1 = 0
          BY <3>1
        <5> QED
          BY <1>4, <3>1, <5>1, <5>2
      <4>2. <<>> \o ss[1] = ss[1]
        BY <4>1
      <4> QED
        BY <3>1, <4>1, <4>2
    <3>2. CASE i # 1
      <4>1. i - 1 \in 1 .. N
        BY <1>1, <3>2
      <4> QED
        BY <1>5, <3>2, <4>1
    <3> QED
      BY <3>1, <3>2
  <2>3. Is(h)
    BY <2>2
  <2>4. PICK f : f = CHOOSE k : Is(k)
    OBVIOUS
  <2>5. Is(f)
    <3> HIDE DEF h, Is
    <3> QED
      BY <2>3, <2>4
  <2>6. ASSUME NEW i \in 1 .. N PROVE f[i] = IF i = 1 THEN ss[i] ELSE f[i - 1] \o ss[i]
    BY <2>5
  <2> DEFINE Q == {i \in 0 .. N : i # 0 => f[i] = g[i]}
  <2>7. 0 \in Q
    BY <1>1
  <2>8. ASSUME NEW i \in 1 .. N, i - 1 \in Q PROVE i \in Q
    <3>1. i \in 0 .. N
      BY <1>1
    <3>2. CASE i = 1
      BY <2>2, <2>6, <3>1, <3>2
    <3>3. CASE i # 1
      <4>1. f[i - 1] = g[i - 1]
        BY <1>1, <2>8, <3>3
      <4> QED
        BY <1>5, <2>6, <3>1, <3>3, <4>1
    <3> QED
      BY <3>2, <3>3
  <2>9. \A i \in 0 .. N : i \in Q
    <3> HIDE DEF Q, N
    <3> QED
      BY <1>1, <2>7, <2>8, UpTo
  <2>10. f[N] = g[N]
    BY <1>1, <1>8, <2>9
  <2> QED
    <3> HIDE DEF Is, N
    <3> QED
      BY <1>6, <2>1, <2>4, <2>10 DEF N
<1> QED
  BY <1>7, <1>8

LEMMA FlatPositions ==
    ASSUME NEW S, NEW ss \in Seq(Seq(S))
    PROVE  FlattenSeq(ss) \in Seq(S) /\ \E at \in [1 .. Len(ss) + 1 -> Nat] : Flattens(FlattenSeq(ss), ss, at)
<1> DEFINE N == Len(ss)
<1>1. PICK f : FlatSoFar(f, S, ss) /\ FlattenSeq(ss) = f[N]
  BY FlatIsRecursive
<1>2. /\ N \in Nat /\ f[0] = <<>>
      /\ \A i \in 0 .. N : f[i] \in Seq(S)
      /\ \A i \in 1 .. N : f[i] = f[i - 1] \o ss[i] /\ ss[i] \in Seq(S)
  <2>1. N \in Nat /\ \A i \in 1 .. N : ss[i] \in Seq(S)
    OBVIOUS
  <2> QED
    BY <1>1, <2>1 DEF FlatSoFar
<1> DEFINE at == [i \in 1 .. N + 1 |-> Len(f[i - 1])]
<1> HIDE DEF N
<1>3. \A i \in 1 .. N + 1 : i - 1 \in 0 .. N
  BY <1>2
<1>4. at \in [1 .. N + 1 -> Nat]
  <2>1. \A i \in 1 .. N + 1 : f[i - 1] \in Seq(S)
    BY <1>2, <1>3
  <2>2. \A i \in 1 .. N + 1 : Len(f[i - 1]) \in Nat
    BY <2>1
  <2> QED
    BY <2>2
<1>5. \A i \in 1 .. N : i \in 1 .. N + 1 /\ i + 1 \in 1 .. N + 1 /\ (i + 1) - 1 = i /\ i \in 0 .. N /\ i - 1 \in 0 .. N
  BY <1>2
<1>6. 1 \in 1 .. N + 1 /\ N + 1 \in 1 .. N + 1 /\ (N + 1) - 1 = N /\ 1 - 1 = 0 /\ N \in 0 .. N
  BY <1>2
<1>7. at[1] = 0 /\ at[N + 1] = Len(f[N])
  BY <1>2, <1>6
<1>8. ASSUME NEW i \in 1 .. N
      PROVE  /\ at[i] = Len(f[i - 1]) /\ at[i + 1] = Len(f[i])
             /\ f[i - 1] \in Seq(S) /\ ss[i] \in Seq(S) /\ f[i] = f[i - 1] \o ss[i]
  BY <1>2, <1>5
<1>9. ASSUME NEW i \in 1 .. N PROVE at[i + 1] = at[i] + Len(ss[i])
  <2> HIDE DEF at
  <2>1. Len(f[i - 1] \o ss[i]) = Len(f[i - 1]) + Len(ss[i])
    BY <1>8
  <2> QED
    BY <1>8, <2>1
<1> DEFINE Agree(n) == \A i \in 1 .. n : \A j \in 1 .. Len(ss[i]) : f[n][at[i] + j] = ss[i][j] /\ at[i] + j \in 1 .. Len(f[n])
           Q == {n \in 0 .. N : Agree(n)}
<1> HIDE DEF at
<1>10. 0 \in Q
  BY <1>2
<1>11. ASSUME NEW n \in 1 .. N, n - 1 \in Q PROVE n \in Q
  <2>1. /\ n \in Nat /\ n - 1 \in Nat /\ n \in 0 .. N
        /\ \A i \in 1 .. n : i = n \/ i \in 1 .. n - 1
    BY <1>2
  <2> DEFINE b == f[n - 1]
  <2>2. /\ at[n] = Len(b) /\ b \in Seq(S) /\ ss[n] \in Seq(S) /\ f[n] = b \o ss[n]
    BY <1>8
  <2>3. Agree(n - 1)
    BY <1>11
  <2> HIDE DEF b
  <2>4. /\ Len(b) \in Nat /\ Len(ss[n]) \in Nat /\ Len(f[n]) = Len(b) + Len(ss[n])
        /\ \A k \in 1 .. Len(b) : f[n][k] = b[k] /\ k \in 1 .. Len(f[n])
        /\ \A k \in 1 .. Len(ss[n]) : f[n][Len(b) + k] = ss[n][k] /\ Len(b) + k \in 1 .. Len(f[n])
    BY <2>2
  <2>5. ASSUME NEW i \in 1 .. n, NEW j \in 1 .. Len(ss[i])
        PROVE  f[n][at[i] + j] = ss[i][j] /\ at[i] + j \in 1 .. Len(f[n])
    <3>1. CASE i = n
      BY <2>2, <2>4, <3>1
    <3>2. CASE i \in 1 .. n - 1
      <4>1. b[at[i] + j] = ss[i][j] /\ at[i] + j \in 1 .. Len(b)
        BY <2>3, <3>2 DEF b
      <4> QED
        BY <2>4, <4>1
    <3> QED
      BY <2>1, <3>1, <3>2
  <2> QED
    BY <2>1, <2>5
<1>12. \A n \in 0 .. N : n \in Q
  <2> HIDE DEF Q
  <2> QED
    BY <1>2, <1>10, <1>11, UpTo
<1>13. Agree(N)
  BY <1>6, <1>12
<1>14. Flattens(f[N], ss, at)
  BY <1>7, <1>9, <1>13 DEF Flattens, N
<1>15. f[N] \in Seq(S)
  BY <1>2, <1>6
<1> QED
  BY <1>1, <1>4, <1>14, <1>15 DEF N

(* Every element of flat is one of one of the sequences of ss, and each of *)
(* those is there, in a place of its own and next to its neighbours.       *)
Laid(flat, ss, at) ==
    /\ \A i \in 1 .. Len(ss) : at[i] \in Nat
    /\ \A k \in 1 .. Len(flat) : \E i \in 1 .. Len(ss) : \E j \in 1 .. Len(ss[i]) : k = at[i] + j
    /\ \A i \in 1 .. Len(ss) : \A j \in 1 .. Len(ss[i]) :
          at[i] + j \in 1 .. Len(flat) /\ flat[at[i] + j] = ss[i][j]
    /\ \A i, l \in 1 .. Len(ss) : \A j \in 1 .. Len(ss[i]), k \in 1 .. Len(ss[l]) :
          at[i] + j = at[l] + k => i = l /\ j = k

LEMMA FlatIsLaid ==
    ASSUME NEW S, NEW ss \in Seq(Seq(S))
    PROVE  FlattenSeq(ss) \in Seq(S) /\ \E at : Laid(FlattenSeq(ss), ss, at)
<1> DEFINE N == Len(ss)
           flat == FlattenSeq(ss)
           L(i) == Len(ss[i])
<1>1. flat \in Seq(S) /\ \E at \in [1 .. N + 1 -> Nat] : Flattens(flat, ss, at)
  BY FlatPositions
<1>2. PICK at \in [1 .. N + 1 -> Nat] : Flattens(flat, ss, at)
  BY <1>1
<1>3. N \in Nat /\ \A i \in 1 .. N : ss[i] \in Seq(S)
  OBVIOUS
<1>4. \A i \in 1 .. N : L(i) \in Nat
  BY <1>3
<1>5. /\ at[1] = 0 /\ Len(flat) = at[N + 1]
      /\ \A i \in 1 .. N : at[i + 1] = at[i] + L(i)
      /\ \A i \in 1 .. N : \A j \in 1 .. L(i) : flat[at[i] + j] = ss[i][j]
  BY <1>2 DEF Flattens
<1> HIDE DEF N, flat, L
<1>6. \A i \in 1 .. N + 1 : at[i] \in Nat
  BY <1>2
<1>7. \A i \in 1 .. N : i \in 1 .. N + 1 /\ i + 1 \in 1 .. N + 1 /\ at[i] \in Nat /\ at[i + 1] \in Nat
  BY <1>3, <1>6
<1> DEFINE After(n) == \A i \in 1 .. n : at[i] + L(i) <= at[n + 1]
           P == {n \in 0 .. N : After(n)}
<1>8. \A n \in 0 .. N : n \in P
  <2>1. 0 \in P
    BY <1>3
  <2>2. ASSUME NEW n \in 1 .. N, n - 1 \in P PROVE n \in P
    <3>1. /\ n \in 0 .. N /\ (n - 1) + 1 = n /\ n \in Nat
          /\ \A i \in 1 .. n : i = n \/ (i \in 1 .. n - 1 /\ i \in 1 .. N)
      BY <1>3
    <3>2. at[n + 1] = at[n] + L(n) /\ at[n] \in Nat /\ L(n) \in Nat
      BY <1>4, <1>5, <1>7
    <3>3. ASSUME NEW i \in 1 .. n PROVE at[i] + L(i) <= at[n + 1]
      <4>1. CASE i = n
        BY <3>2, <4>1
      <4>2. CASE i \in 1 .. n - 1 /\ i \in 1 .. N
        <5>1. at[i] + L(i) <= at[n]
          BY <2>2, <3>1, <4>2
        <5>2. at[i] \in Nat /\ L(i) \in Nat
          BY <1>4, <1>7, <4>2
        <5> QED
          BY <3>2, <5>1, <5>2
      <4> QED
        BY <3>1, <4>1, <4>2
    <3> QED
      BY <3>1, <3>3
  <2> HIDE DEF P
  <2> QED
    BY <1>3, <2>1, <2>2, UpTo
<1>9. ASSUME NEW i \in 1 .. N, NEW l \in 1 .. N, i < l PROVE at[i] + L(i) <= at[l]
  <2>1. l - 1 \in 0 .. N /\ i \in 1 .. l - 1 /\ (l - 1) + 1 = l
    BY <1>3, <1>9
  <2> QED
    BY <1>8, <2>1
<1> DEFINE Covered(n) == \A k \in 1 .. at[n + 1] : \E i \in 1 .. n : \E j \in 1 .. L(i) : k = at[i] + j
           Q == {n \in 0 .. N : Covered(n)}
<1>10. \A n \in 0 .. N : n \in Q
  <2>1. 0 \in Q
    BY <1>3, <1>5
  <2>2. ASSUME NEW n \in 1 .. N, n - 1 \in Q PROVE n \in Q
    <3>1. /\ n \in 0 .. N /\ (n - 1) + 1 = n /\ n \in Nat /\ n \in 1 .. n
          /\ \A i \in 1 .. n - 1 : i \in 1 .. n
      BY <1>3
    <3>2. at[n + 1] = at[n] + L(n) /\ at[n] \in Nat /\ L(n) \in Nat
      BY <1>4, <1>5, <1>7
    <3>3. ASSUME NEW k \in 1 .. at[n + 1] PROVE \E i \in 1 .. n : \E j \in 1 .. L(i) : k = at[i] + j
      <4>1. CASE k \in 1 .. at[n]
        <5>1. PICK i \in 1 .. n - 1 : \E j \in 1 .. L(i) : k = at[i] + j
          BY <2>2, <3>1, <4>1
        <5> QED
          BY <3>1, <5>1
      <4>2. CASE k \notin 1 .. at[n]
        <5>1. k - at[n] \in 1 .. L(n) /\ k = at[n] + (k - at[n])
          BY <3>2, <4>2
        <5> QED
          BY <3>1, <5>1
      <4> QED
        BY <4>1, <4>2
    <3> QED
      BY <3>1, <3>3
  <2> HIDE DEF Q
  <2> QED
    BY <1>3, <2>1, <2>2, UpTo
<1>11. \A k \in 1 .. Len(flat) : \E i \in 1 .. N : \E j \in 1 .. L(i) : k = at[i] + j
  <2>1. N \in 0 .. N
    BY <1>3
  <2>2. N \in Q
    <3> HIDE DEF Q
    <3> QED
      BY <1>10, <2>1
  <2>3. Covered(N)
    BY <2>2
  <2> HIDE DEF Q
  <2> QED
    BY <1>5, <2>3
<1>12. ASSUME NEW i \in 1 .. N, NEW j \in 1 .. L(i)
       PROVE  at[i] + j \in 1 .. Len(flat) /\ flat[at[i] + j] = ss[i][j]
  <2>1. at[i] + L(i) <= at[N + 1]
    <3>1. N \in 0 .. N
      BY <1>3
    <3>2. After(N)
      BY <1>8, <3>1
    <3> QED
      BY <3>2
  <2>2. N + 1 \in 1 .. N + 1
    BY <1>3
  <2>3. at[i] \in Nat /\ at[N + 1] \in Nat /\ L(i) \in Nat
    BY <1>4, <1>6, <1>7, <2>2
  <2>4. at[i] + j \in 1 .. at[N + 1]
    BY <2>1, <2>3
  <2> QED
    BY <1>5, <2>4
<1>13. ASSUME NEW i \in 1 .. N, NEW l \in 1 .. N, NEW j \in 1 .. L(i), NEW k \in 1 .. L(l),
              at[i] + j = at[l] + k
       PROVE  i = l /\ j = k
  <2>1. at[i] \in Nat /\ at[l] \in Nat /\ L(i) \in Nat /\ L(l) \in Nat
    BY <1>4, <1>7
  <2>2. ~(i < l)
    BY <1>9, <1>13, <2>1
  <2>3. ~(l < i)
    BY <1>9, <1>13, <2>1
  <2>4. i = l
    BY <1>3, <2>2, <2>3
  <2> QED
    BY <1>13, <2>1, <2>4
<1>14. Laid(flat, ss, at)
  BY <1>7, <1>11, <1>12, <1>13 DEF Laid, N, L
<1> QED
  BY <1>1, <1>14 DEF flat

-----------------------------------------------------------------------------
(* The data.                                                               *)

HumanTypes == {"run.prompt", "run.paused", "run.unpaused", "run.cancelled", "inbox.replied"}
TurnTypes  == {"agent.activated", "tool.call", "llm.response", "stage.submitted", "agent.turn_done",
               "agent.failed"}
ToolTypes  == {"tool.call_completed", "tool.call_denied"}
MadeTypes  == {"run.expired", "run.result", "run.quiescent", "stage.entered", "stage.advanced",
               "stage.timeout", "budget.exceeded"}
EventTypes == {"run.started", "inbox.created", "timer.tick"}
                  \cup HumanTypes \cup TurnTypes \cup ToolTypes \cup MadeTypes

StageNumbers == 1 .. Len(Stages)
Depths       == 0 .. MaxDepth

(* What the reducer relies on in an event of each type.                    *)
EventOK(e) ==
    /\ e.type \in TurnTypes \cup ToolTypes => e.actor \in Names
    /\ e.type \in {"stage.entered", "stage.advanced", "timer.tick"} => e.n \in StageNumbers
    /\ e.type = "run.prompt" => e.to = Nobody
    /\ e.type \in {"agent.activated", "agent.failed", "timer.tick", "inbox.created"} \cup MadeTypes
          <=> e.source = "runtime"

Events ==
    {e \in [type : EventTypes, actor : Names \cup {Nobody}, source : {"human", "runtime", "agent"},
            depth : Depths, id : Ids, n : Nat, to : CallKinds \cup {"ask", Nobody}] : EventOK(e)}

Statuses     == {"new", "running", "blocked", "paused"} \cup Terminal
MemberStates == {"inactive", "idle", "thinking", "tool", "waiting", "submitted", "failed"}

MemberRecords ==
    [state : MemberStates, open : BOOLEAN, submitted : BOOLEAN, pending : SUBSET Ids, on : Nat]

Items == [kind : {"budget", "stage_timeout", "tool_approval"}, agent : Names \cup {Nobody}, listed : BOOLEAN, replied : BOOLEAN]

Runs ==
    [status : Statuses, stage : StageNumbers \cup {0}, resolved : BOOLEAN, timer : StageNumbers \cup {0},
     members : [Names -> MemberRecords], inbox : Seq(Items), quiescent : BOOLEAN,
     spent : Nat, budget : Nat, overBudget : BOOLEAN, turns : Nat]

Made == {e \in Events : e.type \in MadeTypes}

Effects ==
    [op : {"emit"}, event : Made] \cup [op : {"set_timer", "cancel_timer"}, stage : StageNumbers]
    \cup [op : {"ask"}, id : Nat \ {0}, agent : Names \cup {Nobody}, depth : Depths]
    \cup [op : {"call"}, agent : Names, depth : Depths]
    \cup [op : {"spawn"}, agent : Names, causes : SUBSET Ids, stage : StageNumbers \cup {0}, depth : Depths]

LEMMA RosterFacts ==
    /\ Members \in Seq(Names) /\ DOMAIN Members = 1 .. Len(Members)
    /\ \A i, j \in DOMAIN Members : Members[i] = Members[j] => i = j
    /\ \A m \in Names : \E i \in DOMAIN Members : Members[i] = m
    /\ Nobody \notin Names /\ SteerTarget \in Names \cup {"*"}
    /\ Coordinator \in Names \cup {Nobody}
<1>1. /\ Members \in Seq(STRING) /\ IsInjective(Members)
      /\ Nobody \notin Names /\ Coordinator \in Names \cup {Nobody}
      /\ SteerTarget \in Names \cup {"*"}
  BY RosterAssumption
<1>2. Names = {Members[i] : i \in DOMAIN Members}
  BY DEF Names, ToSet
<1>3. Len(Members) \in Nat /\ DOMAIN Members = 1 .. Len(Members)
  BY <1>1
<1>4. Members \in Seq(Names)
  <2>1. \A i \in 1 .. Len(Members) : Members[i] \in Names
    BY <1>2, <1>3
  <2> HIDE DEF Names
  <2> QED
    BY <1>1, <2>1
<1>5. \A i, j \in DOMAIN Members : Members[i] = Members[j] => i = j
  BY <1>1 DEF IsInjective
<1>6. \A m \in Names : \E i \in DOMAIN Members : Members[i] = m
  BY <1>2
<1> QED
  BY <1>1, <1>3, <1>4, <1>5, <1>6

LEMMA LimitFacts == Budget \in Nat /\ MaxTurns \in Nat /\ MaxDepth \in Nat
BY BlueprintAssumption

LEMMA StageFacts ==
    /\ Len(Stages) \in Nat /\ DOMAIN Stages = StageNumbers
    /\ \A s \in StageNumbers : Stages[s].in \subseteq Names /\ Stages[s].timed \in BOOLEAN
<1> DEFINE S == [advance : {"any", "all", "quorum", "coordinator"}, quorum : Nat, timed : BOOLEAN,
                 onTimeout : {"fail", "advance", "escalate"}, in : SUBSET Names]
<1>1. Stages \in Seq(S)
  BY BlueprintAssumption
<1>2. \A x \in S : x.in \subseteq Names /\ x.timed \in BOOLEAN
  OBVIOUS
<1> HIDE DEF S
<1>3. Len(Stages) \in Nat /\ DOMAIN Stages = 1 .. Len(Stages) /\ \A s \in 1 .. Len(Stages) : Stages[s] \in S
  BY <1>1
<1> QED
  BY <1>2, <1>3 DEF StageNumbers

LEMMA WatcherFacts ==
    /\ Len(Watchers) \in Nat /\ DOMAIN Watchers = 1 .. Len(Watchers)
    /\ \A w \in DOMAIN Watchers : Watchers[w].agent \in Names /\ Watchers[w].tool \in BOOLEAN
<1> DEFINE S == [on : SUBSET STRING, agent : Names, tool : BOOLEAN, self : BOOLEAN]
<1>1. Watchers \in Seq(S)
  BY BlueprintAssumption
<1>2. \A x \in S : x.agent \in Names /\ x.tool \in BOOLEAN
  OBVIOUS
<1> HIDE DEF S
<1>3. /\ Len(Watchers) \in Nat /\ DOMAIN Watchers = 1 .. Len(Watchers)
      /\ \A w \in 1 .. Len(Watchers) : Watchers[w] \in S
  BY <1>1
<1> QED
  BY <1>2, <1>3

LEMMA DeeperType == ASSUME NEW e \in Events PROVE Deeper(e) \in Depths
BY LimitFacts DEF Events, Depths, Deeper

LEMMA MadeEvents ==
    ASSUME NEW e \in Events, NEW type \in MadeTypes, NEW n \in Nat,
           type \in {"stage.entered", "stage.advanced"} => n \in StageNumbers
    PROVE  Derived(e, type, n) \in Made /\ Emit(Derived(e, type, n)) \in Effects
<1>1. Deeper(e) \in Depths /\ 0 \in Ids
  BY DeeperType, ActorsAssumption DEF Ids
<1>2. Derived(e, type, n) \in Made
  BY <1>1 DEF Made, Events, EventOK, Derived, MadeTypes, EventTypes, TurnTypes, ToolTypes
<1> QED
  BY <1>2 DEF Emit, Effects

(* The turns a sequence of effects begins: one for each member of who.     *)
Spawns(fx, who) ==
    /\ \A i \in DOMAIN fx : fx[i].op = "spawn" => fx[i].agent \in who
    /\ \A m \in who : \E i \in DOMAIN fx : fx[i].op = "spawn" /\ fx[i].agent = m
    /\ \A i, j \in DOMAIN fx :
          fx[i].op = "spawn" /\ fx[j].op = "spawn" /\ fx[i].agent = fx[j].agent => i = j

LEMMA RosterOrder ==
    ASSUME NEW who, who \subseteq Names
    PROVE  /\ InOrder(who) \in Seq(who)
           /\ \A i, j \in DOMAIN InOrder(who) : InOrder(who)[i] = InOrder(who)[j] => i = j
           /\ \A m \in who : \E i \in DOMAIN InOrder(who) : InOrder(who)[i] = m
<1> DEFINE P == {i \in DOMAIN Members : Members[i] \in who}
           s == InOrder(who)
<1>1. /\ Members \in Seq(Names) /\ DOMAIN Members = 1 .. Len(Members)
      /\ \A i, j \in DOMAIN Members : Members[i] = Members[j] => i = j
      /\ \A m \in Names : \E i \in DOMAIN Members : Members[i] = m
  BY RosterFacts
<1>2. P \subseteq 1 .. Len(Members) /\ s = Kept(Members, P)
  BY <1>1 DEF InOrder
<1>3. PICK p : s \in Seq(Names) /\ Places(s, Members, P, p)
  <2> HIDE DEF P, s
  <2> QED
    BY <1>1, <1>2, KeptPlaces
<1>4. /\ \A i \in 1 .. Len(s) : p[i] \in P /\ s[i] = Members[p[i]]
      /\ \A i, j \in 1 .. Len(s) : p[i] = p[j] => i = j
      /\ \A q \in P : \E i \in 1 .. Len(s) : p[i] = q
  BY <1>3 DEF Places
<1>5. DOMAIN s = 1 .. Len(s) /\ \A i \in 1 .. Len(s) : s[i] \in who
  BY <1>3, <1>4
<1>6. s \in Seq(who)
  BY <1>3, <1>5
<1>7. ASSUME NEW i \in 1 .. Len(s), NEW j \in 1 .. Len(s), s[i] = s[j] PROVE i = j
  <2>1. p[i] \in DOMAIN Members /\ p[j] \in DOMAIN Members /\ Members[p[i]] = Members[p[j]]
    BY <1>4, <1>7
  <2>2. p[i] = p[j]
    BY <1>1, <2>1
  <2> QED
    BY <1>4, <2>2
<1>8. ASSUME NEW m \in who PROVE \E i \in 1 .. Len(s) : s[i] = m
  <2>1. PICK q \in DOMAIN Members : Members[q] = m
    BY <1>1
  <2>2. PICK i \in 1 .. Len(s) : p[i] = q
    BY <1>4, <2>1
  <2> QED
    BY <1>4, <2>1, <2>2
<1> HIDE DEF s
<1>9. /\ \A i, j \in DOMAIN s : s[i] = s[j] => i = j
      /\ \A m \in who : \E i \in DOMAIN s : s[i] = m
  BY <1>5, <1>7, <1>8
<1> QED
  BY <1>6, <1>9 DEF s

LEMMA OneTurnEach ==
    ASSUME NEW who, who \subseteq Names, NEW fx, DOMAIN fx = DOMAIN InOrder(who),
           \A i \in DOMAIN fx : fx[i].op = "spawn" /\ fx[i].agent = InOrder(who)[i]
    PROVE  Spawns(fx, who)
<1>1. /\ \A i \in DOMAIN fx : InOrder(who)[i] \in who
      /\ \A i, j \in DOMAIN fx : InOrder(who)[i] = InOrder(who)[j] => i = j
      /\ \A m \in who : \E i \in DOMAIN fx : InOrder(who)[i] = m
  <2>1. InOrder(who) \in Seq(who)
    BY RosterOrder
  <2>2. \A i \in DOMAIN InOrder(who) : InOrder(who)[i] \in who
    BY <2>1
  <2> QED
    BY <2>2, RosterOrder
<1> QED
  BY <1>1 DEF Spawns

(* A run that differs from r in its members only.                          *)
SameButMembers(r, s) == s \in Runs /\ s = [r EXCEPT !.members = s.members]

LEMMA MembersChange ==
    ASSUME NEW r \in Runs, NEW f \in [Names -> MemberRecords]
    PROVE  /\ SameButMembers(r, [r EXCEPT !.members = f])
           /\ [r EXCEPT !.members = f].members = f
BY DEF SameButMembers, Runs

LEMMA NothingSpawned ==
    ASSUME NEW fx, \A i \in DOMAIN fx : fx[i].op # "spawn"
    PROVE  Spawns(fx, {})
BY DEF Spawns

(* What happens to a member that takes a turn or parks its cause.          *)
Parking(x, e) == [x EXCEPT !.pending = @ \cup {e.id}]
Opening(x)    == [x EXCEPT !.open = TRUE]
Serving(x)    == [x EXCEPT !.pending = {}, !.open = TRUE]

LEMMA MemberMoves ==
    ASSUME NEW x \in MemberRecords, NEW e \in Events
    PROVE  /\ Parking(x, e) \in MemberRecords /\ Opening(x) \in MemberRecords /\ Serving(x) \in MemberRecords
           /\ Parking(x, e).state = x.state /\ Opening(x).state = x.state /\ Serving(x).state = x.state
           /\ Parking(x, e).open = x.open /\ Opening(x).open = TRUE /\ Serving(x).open = TRUE
           /\ Parking(x, e).submitted = x.submitted /\ Opening(x).submitted = x.submitted
           /\ Serving(x).submitted = x.submitted
           /\ Parking(x, e).on = x.on /\ Opening(x).on = x.on /\ Serving(x).on = x.on
           /\ Parking(x, e).pending = x.pending \cup {e.id} /\ Opening(x).pending = x.pending
           /\ Serving(x).pending = {}
BY DEF MemberRecords, Events, Parking, Opening, Serving

(* s is what r becomes when the members of who take a turn because of e,   *)
(* with effects that begin one for each.                                   *)
Turned(r, s, who, e) ==
    /\ SameButMembers(r, s.run)
    /\ s.fx \in Seq(Effects) /\ \A i \in DOMAIN s.fx : s.fx[i].op = "spawn"
    /\ Spawns(s.fx, IF Halted(r) THEN {} ELSE who)

Spawned(r, s, who, e) ==
    /\ Turned(r, s, who, e)
    /\ \A m \in Names :
          s.run.members[m] = IF m \notin who THEN r.members[m]
                             ELSE IF Halted(r) THEN Parking(r.members[m], e) ELSE Opening(r.members[m])

Drained(r, s, who, e) ==
    /\ Turned(r, s, who, e)
    /\ \A m \in Names :
          s.run.members[m] = IF m \notin who THEN r.members[m]
                             ELSE IF Halted(r) THEN Parking(r.members[m], e) ELSE Serving(r.members[m])

LEMMA SpawnFacts ==
    ASSUME NEW r \in Runs, NEW who, who \subseteq Names, NEW e \in Events
    PROVE  Spawned(r, Spawn(r, who, e), who, e)
<1>0. /\ e.id \in Ids /\ r.members \in [Names -> MemberRecords] /\ r.stage \in StageNumbers \cup {0}
      /\ Deeper(e) \in Depths
  BY DeeperType DEF Events, Runs
<1>1. CASE Halted(r)
  <2> DEFINE f == [m \in Names |->
                    IF m \in who THEN [r.members[m] EXCEPT !.pending = @ \cup {} \cup {e.id}]
                    ELSE r.members[m]]
  <2>1. Spawn(r, who, e) = Result([r EXCEPT !.members = f], <<>>)
    BY <1>1 DEF Spawn, SpawnCauses
  <2>2. f \in [Names -> MemberRecords]
    BY <1>0 DEF MemberRecords
  <2>3. \A m \in Names :
           f[m] = IF m \notin who THEN r.members[m] ELSE Parking(r.members[m], e)
    <3> TAKE m \in Names
    <3>1. r.members[m].pending \cup {} \cup {e.id} = r.members[m].pending \cup {e.id}
      OBVIOUS
    <3>2. f[m] = IF m \in who THEN [r.members[m] EXCEPT !.pending = @ \cup {} \cup {e.id}] ELSE r.members[m]
      OBVIOUS
    <3> HIDE DEF f
    <3>3. [r.members[m] EXCEPT !.pending = @ \cup {} \cup {e.id}] = Parking(r.members[m], e)
      BY <1>0, <3>1 DEF MemberRecords, Parking
    <3> QED
      BY <3>2, <3>3
  <2> HIDE DEF f
  <2>4. Spawn(r, who, e).run = [r EXCEPT !.members = f] /\ Spawn(r, who, e).fx = <<>>
    BY <2>1 DEF Result
  <2>5. Spawns(<<>>, {}) /\ <<>> \in Seq(Effects) /\ \A i \in DOMAIN <<>> : <<>>[i].op = "spawn"
    BY NothingSpawned
  <2> QED
    BY <1>1, <2>2, <2>3, <2>4, <2>5, MembersChange DEF Spawned, Turned
<1>2. CASE ~Halted(r)
  <2> DEFINE f == [m \in Names |->
                    IF m \in who THEN [r.members[m] EXCEPT !.open = TRUE] ELSE r.members[m]]
             order == InOrder(who)
             fx == [i \in DOMAIN order |-> SpawnTurn(order[i], {e.id} \cup {}, r, e)]
  <2>1. Spawn(r, who, e) = Result([r EXCEPT !.members = f], fx)
    BY <1>2 DEF Spawn, SpawnCauses, With
  <2>2. f \in [Names -> MemberRecords]
    BY <1>0 DEF MemberRecords
  <2>3. \A m \in Names :
           f[m] = IF m \notin who THEN r.members[m] ELSE Opening(r.members[m])
    BY DEF Opening
  <2>4. order \in Seq(who) /\ DOMAIN order = 1 .. Len(order) /\ Len(order) \in Nat
        /\ \A i \in DOMAIN order : order[i] \in Names
    <3>1. order \in Seq(who)
      BY RosterOrder
    <3> HIDE DEF order
    <3> QED
      BY <3>1
  <2>5. \A i \in DOMAIN order : fx[i] \in Effects /\ fx[i].op = "spawn" /\ fx[i].agent = order[i]
    <3> HIDE DEF order
    <3> QED
      BY <1>0, <2>4 DEF SpawnTurn, Effects
  <2>6. fx \in Seq(Effects)
    <3> HIDE DEF order
    <3>1. DOMAIN fx = 1 .. Len(order) /\ fx = [i \in 1 .. Len(order) |-> fx[i]]
      BY <2>4
    <3> HIDE DEF fx
    <3> QED
      BY <2>4, <2>5, <3>1
  <2>7. Spawns(fx, who)
    BY <2>5, OneTurnEach
  <2> HIDE DEF f, fx
  <2>8. Spawn(r, who, e).run = [r EXCEPT !.members = f] /\ Spawn(r, who, e).fx = fx
    BY <2>1 DEF Result
  <2>9. \A i \in DOMAIN fx : fx[i].op = "spawn"
    BY <2>5 DEF fx
  <2> QED
    BY <1>2, <2>2, <2>3, <2>6, <2>7, <2>8, <2>9, MembersChange DEF Spawned, Turned
<1> QED
  BY <1>1, <1>2

LEMMA DrainFacts ==
    ASSUME NEW r \in Runs, NEW who, who \subseteq Names, NEW e \in Events
    PROVE  Drained(r, Drain(r, who, e), who, e)
<1> DEFINE c == [m \in Names |-> IF m \in who THEN [r.members[m] EXCEPT !.pending = {}] ELSE r.members[m]]
           s == [r EXCEPT !.members = c]
<1>0. /\ e.id \in Ids /\ r.members \in [Names -> MemberRecords] /\ r.stage \in StageNumbers \cup {0}
      /\ Deeper(e) \in Depths
  BY DeeperType DEF Events, Runs
<1>1. c \in [Names -> MemberRecords]
  BY <1>0 DEF MemberRecords
<1>2. With(r, who, LAMBDA x : [x EXCEPT !.pending = {}]) = s
  BY DEF With
<1>3. s \in Runs /\ s.members = c /\ s.stage = r.stage /\ (Halted(s) <=> Halted(r))
      /\ \A f : [s EXCEPT !.members = f] = [r EXCEPT !.members = f]
  <2> HIDE DEF c
  <2> QED
    BY <1>1 DEF Runs, Halted
<1>4. \A m \in Names : m \in who =>
         /\ c[m] = [r.members[m] EXCEPT !.pending = {}] /\ c[m].pending = {}
         /\ r.members[m].pending \subseteq Ids /\ r.members[m] \in MemberRecords
  BY <1>0 DEF MemberRecords
<1> HIDE DEF s
<1>5. CASE Halted(r)
  <2> DEFINE f == [m \in Names |->
                    IF m \in who
                    THEN [s.members[m] EXCEPT !.pending = s.members[m].pending \cup r.members[m].pending \cup {e.id}]
                    ELSE s.members[m]]
  <2>1. Drain(r, who, e) = Result([s EXCEPT !.members = f], <<>>)
    BY <1>2, <1>3, <1>5 DEF Drain, SpawnCauses
  <2>2. \A m \in Names :
           f[m] = IF m \notin who THEN r.members[m] ELSE Parking(r.members[m], e)
    <3> TAKE m \in Names
    <3>1. CASE m \notin who
      BY <1>3, <3>1
    <3>2. CASE m \in who
      <4>1. f[m] = [c[m] EXCEPT !.pending = c[m].pending \cup r.members[m].pending \cup {e.id}]
        BY <1>3, <3>2
      <4>2. c[m].pending \cup r.members[m].pending \cup {e.id} = r.members[m].pending \cup {e.id}
        BY <1>4, <3>2
      <4>3. f[m] = [[r.members[m] EXCEPT !.pending = {}] EXCEPT !.pending = r.members[m].pending \cup {e.id}]
        BY <1>4, <3>2, <4>1, <4>2
      <4> HIDE DEF f
      <4>4. f[m] = Parking(r.members[m], e)
        BY <1>4, <3>2, <4>3 DEF MemberRecords, Parking
      <4> QED
        BY <3>2, <4>4
    <3> QED
      BY <3>1, <3>2
  <2>3. f \in [Names -> MemberRecords]
    <3>1. f = [m \in Names |-> f[m]]
      OBVIOUS
    <3> HIDE DEF f
    <3>2. ASSUME NEW m \in Names PROVE f[m] \in MemberRecords
      <4>1. r.members[m] \in MemberRecords
        BY <1>0
      <4>2. Parking(r.members[m], e) \in MemberRecords
        BY <4>1, MemberMoves
      <4> QED
        BY <2>2, <4>1, <4>2
    <3> QED
      BY <3>1, <3>2
  <2> HIDE DEF f
  <2>4. Drain(r, who, e).run = [r EXCEPT !.members = f] /\ Drain(r, who, e).fx = <<>>
    BY <1>3, <2>1 DEF Result
  <2>5. Spawns(<<>>, {}) /\ <<>> \in Seq(Effects) /\ \A i \in DOMAIN <<>> : <<>>[i].op = "spawn"
    BY NothingSpawned
  <2> QED
    BY <1>5, <2>2, <2>3, <2>4, <2>5, MembersChange DEF Drained, Turned
<1>6. CASE ~Halted(r)
  <2> DEFINE f == [m \in Names |->
                    IF m \in who THEN [s.members[m] EXCEPT !.open = TRUE] ELSE s.members[m]]
             order == InOrder(who)
             fx == [i \in DOMAIN order |-> SpawnTurn(order[i], {e.id} \cup r.members[order[i]].pending, s, e)]
  <2>1. Drain(r, who, e) = Result([s EXCEPT !.members = f], fx)
    BY <1>2, <1>3, <1>6 DEF Drain, SpawnCauses, With
  <2>2. \A m \in Names :
           f[m] = IF m \notin who THEN r.members[m] ELSE Serving(r.members[m])
    <3> TAKE m \in Names
    <3>1. CASE m \notin who
      BY <1>3, <3>1
    <3>2. CASE m \in who
      <4>1. f[m] = [[r.members[m] EXCEPT !.pending = {}] EXCEPT !.open = TRUE]
        BY <1>3, <1>4, <3>2
      <4> HIDE DEF f
      <4>2. f[m] = Serving(r.members[m])
        BY <1>4, <4>1 DEF MemberRecords, Serving
      <4> QED
        BY <3>2, <4>2
    <3> QED
      BY <3>1, <3>2
  <2>3. f \in [Names -> MemberRecords]
    <3>1. f = [m \in Names |-> f[m]]
      OBVIOUS
    <3> HIDE DEF f
    <3>2. ASSUME NEW m \in Names PROVE f[m] \in MemberRecords
      <4>1. r.members[m] \in MemberRecords
        BY <1>0
      <4>2. Serving(r.members[m]) \in MemberRecords
        BY <4>1, MemberMoves
      <4> QED
        BY <2>2, <4>1, <4>2
    <3> QED
      BY <3>1, <3>2
  <2>4. order \in Seq(who) /\ DOMAIN order = 1 .. Len(order) /\ Len(order) \in Nat
        /\ \A i \in DOMAIN order : order[i] \in Names
    <3>1. order \in Seq(who)
      BY RosterOrder
    <3> HIDE DEF order
    <3> QED
      BY <3>1
  <2>5. \A i \in DOMAIN order : fx[i] \in Effects /\ fx[i].op = "spawn" /\ fx[i].agent = order[i]
    <3> HIDE DEF order
    <3>1. \A i \in DOMAIN order : {e.id} \cup r.members[order[i]].pending \in SUBSET Ids
      BY <1>0, <2>4 DEF MemberRecords
    <3> QED
      BY <1>0, <1>3, <2>4, <3>1 DEF SpawnTurn, Effects
  <2>6. fx \in Seq(Effects)
    <3> HIDE DEF order
    <3>1. DOMAIN fx = 1 .. Len(order) /\ fx = [i \in 1 .. Len(order) |-> fx[i]]
      BY <2>4
    <3> HIDE DEF fx
    <3> QED
      BY <2>4, <2>5, <3>1
  <2>7. Spawns(fx, who)
    BY <2>5, OneTurnEach
  <2> HIDE DEF f, fx
  <2>8. Drain(r, who, e).run = [r EXCEPT !.members = f] /\ Drain(r, who, e).fx = fx
    BY <1>3, <2>1 DEF Result
  <2>9. \A i \in DOMAIN fx : fx[i].op = "spawn"
    BY <2>5 DEF fx
  <2>10. /\ SameButMembers(r, Drain(r, who, e).run)
         /\ \A m \in Names : Drain(r, who, e).run.members[m] = f[m]
    BY <2>3, <2>8, MembersChange
  <2>11. Spawns(Drain(r, who, e).fx, IF Halted(r) THEN {} ELSE who)
    BY <1>6, <2>7, <2>8
  <2> QED
    BY <1>6, <2>2, <2>6, <2>8, <2>9, <2>10, <2>11 DEF Drained, Turned
<1> QED
  BY <1>5, <1>6

(* What waking does: the members of A take a turn, or park the cause when  *)
(* the run is halted, those of B park it.                                  *)
Woken(r, w, A, B) ==
    /\ A \subseteq Names /\ B \subseteq Names
    /\ SameButMembers(r, w.run)
    /\ w.fx \in Seq(Effects) /\ \A i \in DOMAIN w.fx : w.fx[i].op \in {"spawn", "call"}
    /\ Spawns(w.fx, IF Halted(r) THEN {} ELSE A)
    /\ \A m \in A : Takes(r.members[m]) /\ r.members[m].state # "failed"
    /\ \A m \in B \ A : ~Takes(r.members[m])
    /\ \A m \in Names :
          LET x == r.members[m]
              y == w.run.members[m]
          IN /\ y.state = IF m \in A THEN "idle" ELSE x.state
             /\ y.open = IF m \in A /\ ~Halted(r) THEN TRUE ELSE x.open
             /\ y.submitted = x.submitted /\ y.on = x.on
             /\ m \notin B /\ (m \notin A \/ ~Halted(r)) => y.pending = x.pending

(* The watchers in a set of positions, in their order.                     *)
LEMMA WatcherOrder ==
    ASSUME NEW W, W \subseteq DOMAIN Watchers
    PROVE  LET order == Kept([i \in DOMAIN Watchers |-> i], W)
           IN /\ order \in Seq(W)
              /\ \A i, j \in DOMAIN order : order[i] = order[j] => i = j
              /\ \A q \in W : \E i \in DOMAIN order : order[i] = q
<1> DEFINE s == [i \in DOMAIN Watchers |-> i]
           order == Kept(s, W)
<1>1. /\ Len(Watchers) \in Nat /\ DOMAIN Watchers = 1 .. Len(Watchers)
      /\ W \subseteq 1 .. Len(Watchers)
  BY WatcherFacts
<1>2. s \in Seq(Nat) /\ Len(s) = Len(Watchers) /\ \A i \in 1 .. Len(s) : s[i] = i
  BY <1>1
<1> HIDE DEF s
<1>3. PICK p : order \in Seq(Nat) /\ Places(order, s, W, p)
  BY <1>1, <1>2, KeptPlaces
<1>4. /\ \A i \in 1 .. Len(order) : p[i] \in W /\ order[i] = s[p[i]]
      /\ \A i, j \in 1 .. Len(order) : p[i] = p[j] => i = j
      /\ \A q \in W : \E i \in 1 .. Len(order) : p[i] = q
      /\ DOMAIN order = 1 .. Len(order) /\ Len(order) \in Nat
  BY <1>3 DEF Places
<1> HIDE DEF order
<1>5. \A i \in 1 .. Len(order) : order[i] = p[i]
  BY <1>1, <1>2, <1>4
<1>6. order \in Seq(W)
  <2>1. \A i \in 1 .. Len(order) : order[i] \in W
    BY <1>4, <1>5
  <2> QED
    BY <1>3, <2>1
<1>7. /\ \A i, j \in DOMAIN order : order[i] = order[j] => i = j
      /\ \A q \in W : \E i \in DOMAIN order : order[i] = q
  BY <1>4, <1>5
<1> QED
  BY <1>6, <1>7 DEF order, s

(* The first watcher told of a member that takes a turn takes it.          *)
LEMMA TakingFacts ==
    ASSUME NEW r \in Runs, NEW told, told \subseteq DOMAIN Watchers
    PROVE  /\ \A v, w \in Taking(r, told) : Watchers[v].agent = Watchers[w].agent => v = w
           /\ \A w \in Taking(r, told) : Takes(r.members[Watchers[w].agent])
           /\ \A v \in told : Takes(r.members[Watchers[v].agent]) =>
                 Watchers[v].agent \in Agents(Taking(r, told))
<1>1. told \subseteq Nat
  BY WatcherFacts
<1>2. ASSUME NEW v \in Taking(r, told), NEW w \in Taking(r, told), Watchers[v].agent = Watchers[w].agent
      PROVE  v = w
  <2>1. v \in told /\ w \in told /\ v \in Nat /\ w \in Nat
    BY <1>1 DEF Taking
  <2>2. ~(v < w) /\ ~(w < v)
    BY <1>2, <2>1 DEF Taking
  <2> QED
    BY <2>1, <2>2
<1>3. ASSUME NEW v \in told, Takes(r.members[Watchers[v].agent])
      PROVE  Watchers[v].agent \in Agents(Taking(r, told))
  <2> DEFINE T == {u \in told : Watchers[u].agent = Watchers[v].agent}
  <2>1. T \subseteq Nat /\ T # {}
    BY <1>1
  <2>2. PICK u \in T : \A k \in T : u <= k
    BY <2>1, LeastOf
  <2>3. u \in told /\ Watchers[u].agent = Watchers[v].agent
    BY <2>2
  <2>4. ASSUME NEW k \in told, k < u PROVE Watchers[k].agent # Watchers[u].agent
    <3>1. k \in Nat /\ u \in Nat /\ ~(u <= k)
      BY <1>1, <2>3, <2>4
    <3> QED
      BY <2>2, <2>3, <3>1
  <2>5. u \in Taking(r, told)
    BY <1>3, <2>3, <2>4 DEF Taking
  <2> QED
    BY <2>3, <2>5 DEF Agents
<1>4. \A w \in Taking(r, told) : Takes(r.members[Watchers[w].agent])
  BY DEF Taking
<1> QED
  BY <1>2, <1>3, <1>4

LEMMA WakeFacts ==
    ASSUME NEW r \in Runs, NEW e \in Events
    PROVE  \E A, B : Woken(r, Wake(r, e), A, B)
<1> DEFINE hits == Hits(r, e)
           tools == {w \in hits : Watchers[w].tool}
           told == {w \in hits : ~Watchers[w].tool}
           now == Taking(r, told)
           later == told \ now
           A == Agents(now)
           B == Agents(later)
           f1 == [m \in Names |-> IF m \in A THEN [r.members[m] EXCEPT !.state = "idle"] ELSE r.members[m]]
           r1 == [r EXCEPT !.members = f1]
           s == Spawn(r1, A, e)
           f3 == [m \in Names |->
                    IF m \in B THEN [s.run.members[m] EXCEPT !.pending = @ \cup {e.id}] ELSE s.run.members[m]]
           acting == IF Halted(r) THEN tools ELSE tools \cup now
           order == Kept([i \in DOMAIN Watchers |-> i], acting)
           fx == [i \in DOMAIN order |-> Roused(tools, order[i], r, e)]
           w == Wake(r, e)
<1>1. /\ Len(Watchers) \in Nat /\ DOMAIN Watchers = 1 .. Len(Watchers)
      /\ \A v \in DOMAIN Watchers : Watchers[v].agent \in Names
  BY WatcherFacts
<1>2. /\ tools \subseteq DOMAIN Watchers /\ told \subseteq DOMAIN Watchers /\ now \subseteq told
      /\ later \subseteq told /\ tools \cap told = {} /\ acting \subseteq DOMAIN Watchers
      /\ \A v \in told : r.members[Watchers[v].agent].state # "failed"
  BY DEF Hits, Taking
<1>3. A \subseteq Names /\ B \subseteq Names
  BY <1>1, <1>2 DEF Agents
<1>4. /\ w.run = Park(s.run, B, e) /\ w.fx = fx
  BY DEF Wake, Notify, Rouse, With, Result, Idle
<1>5. /\ \A v, u \in now : Watchers[v].agent = Watchers[u].agent => v = u
      /\ \A v \in now : Takes(r.members[Watchers[v].agent])
      /\ \A v \in told : Takes(r.members[Watchers[v].agent]) => Watchers[v].agent \in A
  <2> HIDE DEF told
  <2> QED
    BY <1>2, TakingFacts
<1>6. /\ order \in Seq(acting)
      /\ \A i, j \in DOMAIN order : order[i] = order[j] => i = j
      /\ \A q \in acting : \E i \in DOMAIN order : order[i] = q
  <2> HIDE DEF acting
  <2> QED
    BY <1>2, WatcherOrder
<1>7. /\ \A m \in A : Takes(r.members[m]) /\ r.members[m].state # "failed"
      /\ \A m \in B \ A : ~Takes(r.members[m])
  <2> HIDE DEF now, told
  <2> QED
    BY <1>2, <1>5 DEF Agents
<1>8. e.id \in Ids /\ r.members \in [Names -> MemberRecords] /\ Deeper(e) \in Depths /\ r.stage \in StageNumbers \cup {0}
  BY DeeperType DEF Events, Runs
<1> HIDE DEF A, B
<1>9. f1 \in [Names -> MemberRecords]
  BY <1>8 DEF MemberRecords, MemberStates
<1>10. /\ \A m \in Names : f1[m] = IF m \in A THEN [r.members[m] EXCEPT !.state = "idle"] ELSE r.members[m]
  OBVIOUS
<1> HIDE DEF f1
<1>11. /\ r1 \in Runs /\ r1.members = f1 /\ (Halted(r1) <=> Halted(r))
       /\ \A f : [r1 EXCEPT !.members = f] = [r EXCEPT !.members = f]
  BY <1>9 DEF Runs, Halted
<1> HIDE DEF r1
<1>12. r1 \in Runs /\ A \subseteq Names
  BY <1>3, <1>11
<1>13. Spawned(r1, s, A, e)
  BY <1>12, SpawnFacts
<1> HIDE DEF s
<1>14. s.run \in Runs /\ s.run = [r EXCEPT !.members = s.run.members] /\ s.run.members \in [Names -> MemberRecords]
  BY <1>11, <1>13 DEF Spawned, Turned, SameButMembers, Runs
<1>15. f3 \in [Names -> MemberRecords]
  BY <1>8, <1>14 DEF MemberRecords
<1>16. \A m \in Names :
          f3[m] = IF m \in B THEN [s.run.members[m] EXCEPT !.pending = @ \cup {e.id}] ELSE s.run.members[m]
  OBVIOUS
<1>17. w.run = [s.run EXCEPT !.members = f3]
  BY <1>4 DEF Park, With
<1> HIDE DEF f3, w, fx
<1>18. w.run = [r EXCEPT !.members = f3]
  BY <1>14, <1>17 DEF Runs
<1>19. SameButMembers(r, w.run) /\ w.run.members = f3
  BY <1>15, <1>18, MembersChange
<1>20. ASSUME NEW m \in Names
       PROVE  LET x == r.members[m]
                  y == w.run.members[m]
              IN /\ y.state = IF m \in A THEN "idle" ELSE x.state
                 /\ y.open = IF m \in A /\ ~Halted(r) THEN TRUE ELSE x.open
                 /\ y.submitted = x.submitted /\ y.on = x.on
                 /\ m \notin B /\ (m \notin A \/ ~Halted(r)) => y.pending = x.pending
  <2> DEFINE x == r.members[m]
             y == w.run.members[m]
             z == s.run.members[m]
  <2>1. x \in MemberRecords /\ f1[m] \in MemberRecords /\ z \in MemberRecords
    BY <1>8, <1>9, <1>14
  <2>2. /\ f1[m].state = (IF m \in A THEN "idle" ELSE x.state) /\ f1[m].open = x.open
        /\ f1[m].submitted = x.submitted /\ f1[m].on = x.on /\ f1[m].pending = x.pending
    BY <1>10, <2>1 DEF MemberRecords
  <2>3. /\ z.state = f1[m].state /\ z.submitted = f1[m].submitted /\ z.on = f1[m].on
        /\ z.open = (IF m \in A /\ ~Halted(r) THEN TRUE ELSE f1[m].open)
        /\ m \notin A \/ ~Halted(r) => z.pending = f1[m].pending
    <3>1. z = IF m \notin A THEN f1[m] ELSE IF Halted(r) THEN Parking(f1[m], e) ELSE Opening(f1[m])
      BY <1>11, <1>13 DEF Spawned
    <3> HIDE DEF z
    <3>2. CASE m \notin A
      BY <3>1, <3>2
    <3>3. CASE m \in A /\ Halted(r)
      <4>1. z = Parking(f1[m], e)
        BY <3>1, <3>3
      <4> QED
        BY <2>1, <3>3, <4>1, MemberMoves
    <3>4. CASE m \in A /\ ~Halted(r)
      <4>1. z = Opening(f1[m])
        BY <3>1, <3>4
      <4> QED
        BY <2>1, <3>4, <4>1, MemberMoves
    <3> QED
      BY <3>2, <3>3, <3>4
  <2>4. /\ y.state = z.state /\ y.open = z.open /\ y.submitted = z.submitted /\ y.on = z.on
        /\ m \notin B => y.pending = z.pending
    BY <1>16, <1>19, <2>1 DEF MemberRecords
  <2> HIDE DEF x, y, z
  <2>5. /\ y.state = (IF m \in A THEN "idle" ELSE x.state)
        /\ y.open = (IF m \in A /\ ~Halted(r) THEN TRUE ELSE x.open)
        /\ y.submitted = x.submitted /\ y.on = x.on
        /\ m \notin B /\ (m \notin A \/ ~Halted(r)) => y.pending = x.pending
    BY <2>2, <2>3, <2>4
  <2> QED
    BY <2>5 DEF x, y
<1>21. /\ \A i \in DOMAIN order : order[i] \in acting /\ Watchers[order[i]].agent \in Names
       /\ DOMAIN order = 1 .. Len(order) /\ Len(order) \in Nat
  <2> HIDE DEF order, acting
  <2> QED
    BY <1>1, <1>2, <1>6
<1>22. DOMAIN fx = DOMAIN order
       /\ \A i \in DOMAIN order :
             /\ fx[i] \in Effects /\ fx[i].op \in {"spawn", "call"} /\ fx[i].agent = Watchers[order[i]].agent
             /\ fx[i].op = "spawn" <=> order[i] \notin tools
  <2> HIDE DEF order, tools
  <2>1. {e.id} \in SUBSET Ids
    BY <1>8
  <2> QED
    BY <1>8, <1>21, <2>1 DEF fx, Roused, CallTool, SpawnTurn, Effects
<1>23. fx \in Seq(Effects)
  <2> HIDE DEF order
  <2>1. fx = [i \in 1 .. Len(order) |-> fx[i]]
    BY <1>21 DEF fx
  <2> QED
    BY <1>21, <1>22, <2>1
<1>24. Spawns(fx, IF Halted(r) THEN {} ELSE A)
  <2>1. CASE Halted(r)
    <3>1. \A i \in DOMAIN fx : fx[i].op # "spawn"
      BY <1>21, <1>22, <2>1
    <3> QED
      BY <2>1, <3>1, NothingSpawned
  <2>2. CASE ~Halted(r)
    <3> HIDE DEF now, order, tools, told
    <3>1. /\ \A i \in DOMAIN fx : fx[i].op = "spawn" => order[i] \in now
          /\ \A q \in now : q \notin tools /\ \E i \in DOMAIN order : order[i] = q
      BY <1>2, <1>6, <1>21, <1>22, <2>2
    <3>2. ASSUME NEW m \in A PROVE \E i \in DOMAIN fx : fx[i].op = "spawn" /\ fx[i].agent = m
      <4>1. PICK q \in now : Watchers[q].agent = m
        BY DEF A, Agents
      <4>2. PICK i \in DOMAIN order : order[i] = q
        BY <3>1
      <4> QED
        BY <1>22, <3>1, <4>1, <4>2
    <3>3. \A i \in DOMAIN fx : fx[i].op = "spawn" => fx[i].agent \in A
      BY <1>22, <3>1 DEF A, Agents
    <3>4. \A i, j \in DOMAIN fx :
            fx[i].op = "spawn" /\ fx[j].op = "spawn" /\ fx[i].agent = fx[j].agent => i = j
      BY <1>5, <1>6, <1>22, <3>1
    <3>5. Spawns(fx, A)
      BY <3>2, <3>3, <3>4 DEF Spawns
    <3> QED
      BY <2>2, <3>5
  <2> QED
    BY <2>1, <2>2
<1>25. Woken(r, w, A, B)
  <2>1. w.fx = fx
    BY <1>4 DEF fx
  <2>2. w.fx \in Seq(Effects) /\ \A i \in DOMAIN w.fx : w.fx[i].op \in {"spawn", "call"}
    BY <1>22, <1>23, <2>1
  <2>3. Spawns(w.fx, IF Halted(r) THEN {} ELSE A)
    BY <1>24, <2>1
  <2> QED
    BY <1>3, <1>7, <1>19, <1>20, <2>2, <2>3 DEF Woken
<1> QED
  BY <1>25 DEF w

-----------------------------------------------------------------------------
(* What deciding one event does.                                           *)

Big  == {"stage.entered", "run.result"}
Ends == {"agent.turn_done", "agent.failed"}

Emitting(fx, types) == {i \in DOMAIN fx : fx[i].op = "emit" /\ fx[i].event.type \in types}
Begun(fx)           == {fx[i].agent : i \in {j \in DOMAIN fx : fx[j].op = "spawn"}}

(* The stages: an event leads on to one next stage at most, and only out   *)
(* of a stage that was not resolved.                                       *)
Staged(r, e, b) ==
    LET s == b.run
        leads == Emitting(b.fx, Big)
        steps == Emitting(b.fx, {"stage.advanced"})
    IN /\ \A i, j \in leads : i = j
       /\ leads # {} => \/ e.type = "run.started"
                        \/ r.stage # 0 /\ ~r.resolved /\ s.resolved
       /\ s.resolved /\ leads = {} => r.resolved
       /\ e.type \in {"run.started", "stage.entered"} => ~s.resolved
       /\ r.resolved /\ ~s.resolved => e.type \in {"run.started", "stage.entered"}
       /\ e.type = "run.started" => s.stage = 0
       /\ r.stage = 0 /\ s.stage # 0 => e.type \in {"stage.entered", "stage.advanced"}
       /\ s.stage = 0 => steps = {} /\ (r.stage = 0 \/ e.type = "run.started")
       /\ e.type = "run.result" => s.status \in Terminal
       /\ s.status = "new" => r.status = "new" /\ e.type # "run.started"

(* The stage timer.                                                        *)
Timed(r, e, b) ==
    LET s == b.run
    IN /\ \/ s.timer \in {0, r.timer}
          \/ \E i \in DOMAIN b.fx : b.fx[i].op = "set_timer" /\ b.fx[i].stage = s.timer
       /\ (\E i \in DOMAIN b.fx : b.fx[i].op = "cancel_timer") => s.timer = 0
       /\ e.type = "timer.tick" /\ e.n = r.timer => s.timer = 0

(* The member an event is of works on an open turn, and is done with it    *)
(* when it ends.                                                           *)
Sane(x, e, m) ==
    /\ x.state \in {"thinking", "tool"} => x.open
    /\ e.type \in {"tool.call", "stage.submitted"} /\ e.actor = m => x.open
    /\ e.type = "agent.turn_done" /\ e.actor = m => x.state \notin {"thinking", "tool"}

(* A reply to a member's question while the run is blocked on another one, *)
(* and the denial of a watcher's tool while its member waits: the two      *)
(* events after which the reducer forgets parked causes.                   *)
Disturbs(r, e) ==
    \/ /\ r.status = "blocked" /\ e.type = "inbox.replied"
       /\ \E m \in Names : r.members[m].on = e.n
    \/ /\ e.type = "tool.call_denied" /\ e.to # "ask"
       /\ r.members[e.actor].state \in {"waiting", "failed"}

(* Causes are pending only where something will ask for them.              *)
Served(x) == x.pending # {} => x.open \/ x.state \in {"waiting", "failed"}

(* A member, from x to y.                                                  *)
Moved(r, e, b, m) ==
    LET x == r.members[m]
        y == b.run.members[m]
        mine == e.actor = m
        turns == m \in Begun(b.fx)
    IN /\ y.open => x.open \/ turns \/ (e.type = "agent.activated" /\ mine)
       /\ x.open /\ ~y.open => e.type \in Ends /\ mine
       /\ e.type \in Ends /\ mine /\ y.open => turns
       /\ e.type = "agent.activated" /\ mine => y.open
       /\ turns => y.open
       /\ y.state = "thinking" =>
             \/ e.type = "agent.activated" /\ mine
             \/ x.state = "thinking" /\ ~(e.type \in {"llm.response", "tool.call"} /\ mine)
             \/ x.state = "tool" /\ e.type = "tool.call_completed" /\ mine
       /\ y.state = "tool" =>
             \/ e.type = "tool.call" /\ mine
             \/ x.state = "tool" /\ ~(e.type = "tool.call_denied" /\ mine)
       /\ Sane(x, e, m) /\ y.state \in {"thinking", "tool"} => y.open
       /\ /\ b.run.status = "running" /\ ~Disturbs(r, e) /\ Sane(x, e, m)
          /\ r.status = "running" => Served(x)
          => Served(y)

Handled(r, e, b) ==
    /\ b.run \in Runs /\ b.fx \in Seq(Effects)
    /\ Staged(r, e, b) /\ Timed(r, e, b)
    /\ \A m \in Names : Moved(r, e, b, m)

(* A member no handler touched.                                            *)
LEMMA Untouched ==
    ASSUME NEW r \in Runs, NEW e \in Events, NEW b, NEW m \in Names,
           b.run.members[m] = r.members[m], m \notin Begun(b.fx),
           b.run.status = "running" => r.status = "running",
           e.type \in TurnTypes \cup ToolTypes => e.actor # m
    PROVE  Moved(r, e, b, m)
<1> DEFINE x == r.members[m]
<1>1. e.actor = m => e.type \notin Ends \cup {"agent.activated", "llm.response", "tool.call", "tool.call_denied"}
  BY DEF TurnTypes, ToolTypes, Ends
<1>2. b.run.status = "running" /\ (r.status = "running" => Served(x)) => Served(x)
  OBVIOUS
<1>3. Sane(x, e, m) /\ x.state \in {"thinking", "tool"} => x.open
  BY DEF Sane
<1> QED
  BY <1>1, <1>2, <1>3 DEF Moved

LEMMA NoneBegun ==
    ASSUME NEW fx, \A i \in DOMAIN fx : fx[i].op # "spawn"
    PROVE  Begun(fx) = {}
BY DEF Begun

LEMMA BegunIs ==
    ASSUME NEW fx, NEW who, Spawns(fx, who)
    PROVE  Begun(fx) = who
<1>1. ASSUME NEW m \in who PROVE m \in Begun(fx)
  <2>1. PICK i \in DOMAIN fx : fx[i].op = "spawn" /\ fx[i].agent = m
    BY DEF Spawns
  <2> QED
    BY <2>1 DEF Begun
<1>2. ASSUME NEW m \in Begun(fx) PROVE m \in who
  <2>1. PICK i \in DOMAIN fx : fx[i].op = "spawn" /\ fx[i].agent = m
    BY DEF Begun
  <2> QED
    BY <2>1 DEF Spawns
<1> QED
  BY <1>1, <1>2

LEMMA RunFields ==
    ASSUME NEW r \in Runs
    PROVE  /\ r.members \in [Names -> MemberRecords] /\ r.stage \in StageNumbers \cup {0}
           /\ r.timer \in StageNumbers \cup {0} /\ r.inbox \in Seq(Items) /\ r.status \in Statuses
           /\ r.resolved \in BOOLEAN /\ r.quiescent \in BOOLEAN /\ r.overBudget \in BOOLEAN
           /\ r.spent \in Nat /\ r.budget \in Nat /\ r.turns \in Nat
           /\ DOMAIN r.members = Names
BY DEF Runs

(* Events without a turn that leave the members alone.                     *)
PlainTypes == {"run.paused", "run.cancelled", "run.expired", "run.result", "run.quiescent", "stage.advanced",
               "stage.timeout", "budget.exceeded", "inbox.created", "timer.tick"}

LEMMA PlainEvents ==
    ASSUME NEW r \in Runs, NEW e \in Events, e.type \in PlainTypes,
           NEW b, b.run \in Runs, b.run.members = r.members,
           b.fx \in Seq(Effects), \A i \in DOMAIN b.fx : b.fx[i].op # "spawn",
           b.run.status = "running" => r.status = "running"
    PROVE  \A m \in Names : Moved(r, e, b, m)
<1> SUFFICES ASSUME NEW m \in Names PROVE Moved(r, e, b, m)
  OBVIOUS
<1>1. m \notin Begun(b.fx)
  BY NoneBegun
<1>2. e.type \notin TurnTypes \cup ToolTypes
  BY DEF PlainTypes, TurnTypes, ToolTypes
<1> QED
  BY <1>1, <1>2, Untouched

(* The stages and the timer as they were, and nothing of either emitted.   *)
LEMMA StagesKept ==
    ASSUME NEW r \in Runs, NEW e \in Events, NEW b, b.run \in Runs,
           e.type \notin {"run.started", "stage.entered", "stage.advanced", "run.result"},
           b.run.stage = r.stage, b.run.resolved = r.resolved, b.run.timer \in {0, r.timer},
           b.run.status = "new" => r.status = "new",
           e.type = "timer.tick" /\ e.n = r.timer => b.run.timer = 0,
           \A i \in DOMAIN b.fx :
              /\ b.fx[i].op = "emit" => b.fx[i].event.type \notin Big \cup {"stage.advanced"}
              /\ b.fx[i].op = "cancel_timer" => b.run.timer = 0
    PROVE  Staged(r, e, b) /\ Timed(r, e, b)
<1>1. Emitting(b.fx, Big) = {} /\ Emitting(b.fx, {"stage.advanced"}) = {}
  BY DEF Emitting
<1>2. Staged(r, e, b)
  BY <1>1 DEF Staged
<1>3. Timed(r, e, b)
  BY DEF Timed
<1> QED
  BY <1>2, <1>3

LEMMA StatusChanges ==
    ASSUME NEW r \in Runs, NEW e \in Events, NEW status \in Statuses \ {"new", "running"},
           e.type \in {"run.paused", "run.cancelled", "run.expired", "run.result"},
           e.type = "run.result" => status = "succeeded"
    PROVE  Handled(r, e, Result([r EXCEPT !.status = status], <<>>))
<1> DEFINE s == [r EXCEPT !.status = status]
           b == Result(s, <<>>)
<1>1. /\ s \in Runs /\ s.members = r.members /\ s.stage = r.stage /\ s.resolved = r.resolved
      /\ s.timer = r.timer /\ s.status = status
  BY DEF Runs
<1>2. b.run = s /\ b.fx = <<>> /\ b.fx \in Seq(Effects) /\ DOMAIN b.fx = {}
  BY DEF Result
<1> HIDE DEF s, b
<1>3. \A m \in Names : Moved(r, e, b, m)
  BY <1>1, <1>2, PlainEvents DEF PlainTypes
<1>4. Staged(r, e, b)
  <2>1. Emitting(b.fx, Big) = {} /\ Emitting(b.fx, {"stage.advanced"}) = {}
    BY <1>2 DEF Emitting
  <2> QED
    BY <1>1, <1>2, <2>1 DEF Staged, Terminal
<1>5. Timed(r, e, b)
  BY <1>1, <1>2 DEF Timed
<1> QED
  BY <1>1, <1>2, <1>3, <1>4, <1>5 DEF Handled, b, s

LEMMA StageNamed ==
    ASSUME NEW r \in Runs, NEW e \in Events, e.type = "stage.advanced"
    PROVE  Handled(r, e, Result([r EXCEPT !.stage = e.n], <<>>))
<1> DEFINE s == [r EXCEPT !.stage = e.n]
           b == Result(s, <<>>)
<1>1. e.n \in StageNumbers /\ e.n # 0
  BY DEF Events, EventOK, StageNumbers
<1>2. /\ s \in Runs /\ s.members = r.members /\ s.stage = e.n /\ s.resolved = r.resolved
      /\ s.timer = r.timer /\ s.status = r.status
  BY <1>1 DEF Runs
<1>3. b.run = s /\ b.fx = <<>> /\ b.fx \in Seq(Effects) /\ DOMAIN b.fx = {}
  BY DEF Result
<1> HIDE DEF s, b
<1>4. \A m \in Names : Moved(r, e, b, m)
  BY <1>2, <1>3, PlainEvents DEF PlainTypes
<1>5. Staged(r, e, b)
  <2>1. Emitting(b.fx, Big) = {} /\ Emitting(b.fx, {"stage.advanced"}) = {}
    BY <1>3 DEF Emitting
  <2> QED
    BY <1>1, <1>2, <1>3, <2>1 DEF Staged
<1>6. Timed(r, e, b)
  BY <1>2, <1>3 DEF Timed
<1> QED
  BY <1>2, <1>3, <1>4, <1>5, <1>6 DEF Handled, b, s

LEMMA MarkedInbox ==
    ASSUME NEW r \in Runs, NEW n
    PROVE  /\ [r.inbox EXCEPT ![n].listed = TRUE] \in Seq(Items)
           /\ [r.inbox EXCEPT ![n].replied = TRUE] \in Seq(Items)
<1> DEFINE q == r.inbox
           t == [q EXCEPT ![n].listed = TRUE]
           u == [q EXCEPT ![n].replied = TRUE]
<1>1. q \in Seq(Items)
  BY RunFields
<1> HIDE DEF q
<1>2. /\ Len(q) \in Nat /\ DOMAIN q = 1 .. Len(q) /\ \A i \in DOMAIN q : q[i] \in Items
  BY <1>1
<1>5. t = [i \in 1 .. Len(q) |-> t[i]] /\ u = [i \in 1 .. Len(q) |-> u[i]]
  BY <1>2
<1>3. ASSUME NEW i \in 1 .. Len(q) PROVE t[i] \in Items /\ u[i] \in Items
  <2>1. q[i] \in Items
    BY <1>2
  <2>2. [q[i] EXCEPT !.listed = TRUE] \in Items /\ [q[i] EXCEPT !.replied = TRUE] \in Items
    BY <2>1 DEF Items
  <2>3. /\ t[i] = IF i = n THEN [q[i] EXCEPT !.listed = TRUE] ELSE q[i]
        /\ u[i] = IF i = n THEN [q[i] EXCEPT !.replied = TRUE] ELSE q[i]
    BY <1>2
  <2> QED
    BY <2>1, <2>2, <2>3
<1> HIDE DEF t, u
<1>4. t \in Seq(Items) /\ u \in Seq(Items)
  BY <1>2, <1>3, <1>5
<1> QED
  BY <1>4 DEF t, u, q

LEMMA InboxListed ==
    ASSUME NEW r \in Runs, NEW e \in Events, e.type = "inbox.created"
    PROVE  Handled(r, e, Result([r EXCEPT !.inbox[e.n].listed = TRUE], <<>>))
<1> DEFINE t == [r.inbox EXCEPT ![e.n].listed = TRUE]
           s == [r EXCEPT !.inbox = t]
           b == Result(s, <<>>)
<1>1. t \in Seq(Items)
  BY MarkedInbox
<1>2. [r EXCEPT !.inbox[e.n].listed = TRUE] = s
  BY DEF Runs
<1> HIDE DEF t
<1>3. /\ s \in Runs /\ s.members = r.members /\ s.stage = r.stage /\ s.resolved = r.resolved
      /\ s.timer = r.timer /\ s.status = r.status
  BY <1>1 DEF Runs
<1>4. b.run = s /\ b.fx = <<>> /\ b.fx \in Seq(Effects) /\ DOMAIN b.fx = {}
  BY DEF Result
<1> HIDE DEF s, b
<1>5. \A m \in Names : Moved(r, e, b, m)
  BY <1>3, <1>4, PlainEvents DEF PlainTypes
<1>6. Staged(r, e, b) /\ Timed(r, e, b)
  BY <1>3, <1>4, StagesKept
<1>7. Handled(r, e, b)
  BY <1>3, <1>4, <1>5, <1>6 DEF Handled
<1> QED
  BY <1>2, <1>7 DEF b

LEMMA NewRunType == NewRun \in Runs
<1>1. \A m \in Names : NewMember(m) \in MemberRecords
  BY ActorsAssumption DEF NewMember, MemberRecords, MemberStates
<1>2. <<>> \in Seq(Items)
  OBVIOUS
<1> QED
  BY <1>1, <1>2 DEF NewRun, Runs, Statuses

LEMMA RunStarts ==
    ASSUME NEW e \in Events, e.type = "run.started"
    PROVE  Handled(NewRun, e, Started(NewRun, e))
<1> DEFINE s == [NewRun EXCEPT !.status = "running", !.budget = Budget]
           fx == IF Stages = <<>> THEN <<>> ELSE <<Emit(Derived(e, "stage.entered", 1))>>
           b == Started(NewRun, e)
<1>1. /\ s \in Runs /\ s.members = NewRun.members /\ s.stage = 0 /\ s.resolved = FALSE
      /\ s.timer = 0 /\ s.status = "running"
  BY NewRunType, LimitFacts DEF Runs, Statuses, NewRun
<1>2. b.run = s /\ b.fx = fx
  BY DEF Started, Result
<1>3. Stages # <<>> => 1 \in StageNumbers
  BY StageFacts, BlueprintAssumption DEF StageNumbers
<1>4. Stages # <<>> =>
         LET f == Emit(Derived(e, "stage.entered", 1))
         IN f \in Effects /\ f.op = "emit" /\ f.event.type = "stage.entered"
  BY <1>3, MadeEvents DEF MadeTypes, Emit, Derived
<1>5. fx \in Seq(Effects) /\ \A i \in DOMAIN fx : i = 1 /\ fx[i].op = "emit" /\ fx[i].event.type = "stage.entered"
  BY <1>4
<1> HIDE DEF s, fx, b
<1>6. \A i \in DOMAIN b.fx : i = 1 /\ b.fx[i].op = "emit" /\ b.fx[i].event.type = "stage.entered"
  BY <1>2, <1>5
<1>7. Begun(b.fx) = {}
  BY <1>6, NoneBegun
<1>8. ASSUME NEW m \in Names PROVE Moved(NewRun, e, b, m)
  <2>1. /\ NewRun.members[m] = NewMember(m) /\ b.run.members[m] = NewMember(m)
        /\ NewMember(m).open = FALSE /\ NewMember(m).state \in {"inactive", "idle"} /\ NewMember(m).pending = {}
    BY <1>1, <1>2 DEF NewRun, NewMember
  <2> QED
    BY <1>7, <2>1 DEF Moved, Served, Ends
<1>9. Staged(NewRun, e, b)
  <2>1. \A i, j \in Emitting(b.fx, Big) : i = j
    BY <1>6 DEF Emitting
  <2>2. Emitting(b.fx, {"stage.advanced"}) = {}
    BY <1>6 DEF Emitting
  <2> QED
    BY <1>1, <1>2, <2>1, <2>2 DEF Staged, NewRun
<1>10. Timed(NewRun, e, b)
  BY <1>1, <1>2, <1>6 DEF Timed
<1> QED
  BY <1>1, <1>2, <1>5, <1>8, <1>9, <1>10 DEF Handled, b

LEMMA AskedInbox ==
    ASSUME NEW r \in Runs, NEW kind \in {"budget", "stage_timeout", "tool_approval"},
           NEW agent \in Names \cup {Nobody}, NEW listed \in BOOLEAN
    PROVE  LET s == Ask(r, kind, agent, listed)
           IN /\ s \in Runs /\ s.members = r.members /\ s.stage = r.stage /\ s.resolved = r.resolved
              /\ s.timer = r.timer /\ s.status = r.status /\ s.quiescent = r.quiescent
              /\ s.inbox = Append(r.inbox, [kind |-> kind, agent |-> agent, listed |-> listed, replied |-> FALSE])
              /\ NextInboxId(r) \in Nat \ {0}
<1> DEFINE item == [kind |-> kind, agent |-> agent, listed |-> listed, replied |-> FALSE]
<1>1. item \in Items
  BY DEF Items
<1> HIDE DEF item
<1>2. Append(r.inbox, item) \in Seq(Items) /\ Len(r.inbox) \in Nat
  BY <1>1, RunFields
<1>3. Ask(r, kind, agent, listed) = [r EXCEPT !.inbox = Append(r.inbox, item)]
  BY DEF Ask, item
<1>4. LET s == Ask(r, kind, agent, listed)
      IN /\ s \in Runs /\ s.members = r.members /\ s.stage = r.stage /\ s.resolved = r.resolved
         /\ s.timer = r.timer /\ s.status = r.status /\ s.quiescent = r.quiescent
         /\ s.inbox = Append(r.inbox, item)
  BY <1>2, <1>3 DEF Runs
<1> QED
  BY <1>2, <1>4 DEF item, NextInboxId

(* The question that blocks the run.                                       *)
LEMMA BlockFacts ==
    ASSUME NEW r \in Runs, NEW kind \in {"budget", "stage_timeout"}, NEW e \in Events
    PROVE  LET b == BlockAndAsk(r, kind, e)
           IN /\ b.run \in Runs /\ b.run.status = "blocked" /\ b.run.members = r.members
              /\ b.run.stage = r.stage /\ b.run.resolved = r.resolved /\ b.run.timer = r.timer
              /\ b.run.quiescent = r.quiescent
              /\ b.fx \in Seq(Effects) /\ \E f \in Effects : b.fx = <<f>> /\ f.op = "ask"
<1> DEFINE a == Ask(r, kind, Nobody, FALSE)
           s == [a EXCEPT !.status = "blocked"]
           f == AskHuman(NextInboxId(r), Nobody, e)
           b == BlockAndAsk(r, kind, e)
<1>1. /\ a \in Runs /\ a.members = r.members /\ a.stage = r.stage /\ a.resolved = r.resolved
      /\ a.timer = r.timer /\ a.quiescent = r.quiescent /\ NextInboxId(r) \in Nat \ {0}
  <2>1. /\ kind \in {"budget", "stage_timeout", "tool_approval"} /\ Nobody \in Names \cup {Nobody}
        /\ FALSE \in BOOLEAN
    OBVIOUS
  <2> QED
    BY <2>1, AskedInbox
<1> HIDE DEF a
<1>2. /\ s \in Runs /\ s.members = a.members /\ s.stage = a.stage /\ s.resolved = a.resolved
      /\ s.timer = a.timer /\ s.status = "blocked" /\ s.quiescent = a.quiescent
  BY <1>1 DEF Runs, Statuses
<1>3. f \in Effects /\ f.op = "ask"
  BY <1>1, DeeperType DEF AskHuman, Effects
<1>4. b.run = s /\ b.fx = <<f>>
  BY DEF BlockAndAsk, Result, a
<1> HIDE DEF s, f, b
<1>5. b.fx \in Seq(Effects)
  BY <1>3, <1>4
<1>6. \E g \in Effects : b.fx = <<g>> /\ g.op = "ask"
  BY <1>3, <1>4
<1>7. /\ b.run \in Runs /\ b.run.status = "blocked" /\ b.run.members = r.members
      /\ b.run.stage = r.stage /\ b.run.resolved = r.resolved /\ b.run.timer = r.timer
      /\ b.run.quiescent = r.quiescent
  BY <1>1, <1>2, <1>4
<1> QED
  BY <1>5, <1>6, <1>7 DEF b

LEMMA BudgetAsks ==
    ASSUME NEW r \in Runs, NEW e \in Events, e.type = "budget.exceeded"
    PROVE  Handled(r, e, BlockAndAsk(r, "budget", e))
<1> DEFINE b == BlockAndAsk(r, "budget", e)
<1>1. PICK f \in Effects : b.fx = <<f>> /\ f.op = "ask"
  BY BlockFacts
<1>2. /\ b.run \in Runs /\ b.run.status = "blocked" /\ b.run.members = r.members
      /\ b.run.stage = r.stage /\ b.run.resolved = r.resolved /\ b.run.timer = r.timer
      /\ b.fx \in Seq(Effects)
  BY BlockFacts
<1> HIDE DEF b
<1>3. \A i \in DOMAIN b.fx : b.fx[i].op = "ask"
  BY <1>1
<1>4. \A m \in Names : Moved(r, e, b, m)
  BY <1>2, <1>3, PlainEvents DEF PlainTypes
<1>5. Staged(r, e, b) /\ Timed(r, e, b)
  BY <1>2, <1>3, StagesKept
<1> QED
  BY <1>2, <1>4, <1>5 DEF Handled, b

LEMMA TimerTicks ==
    ASSUME NEW r \in Runs, NEW e \in Events, e.type = "timer.tick"
    PROVE  Handled(r, e, TimerTick(r, e))
<1> DEFINE b == TimerTick(r, e)
           s == [r EXCEPT !.timer = 0]
           f == Emit(Derived(e, "stage.timeout", r.stage))
<1>1. /\ s \in Runs /\ s.members = r.members /\ s.stage = r.stage /\ s.resolved = r.resolved
      /\ s.timer = 0 /\ s.status = r.status
  BY DEF Runs
<1>2. f \in Effects /\ f.op = "emit" /\ f.event.type = "stage.timeout"
  <2>1. r.stage \in Nat
    BY StageFacts DEF Runs, StageNumbers
  <2> QED
    BY <2>1, MadeEvents DEF MadeTypes, Emit, Derived
<1>3. e.n \in StageNumbers /\ e.n # 0 /\ <<>> \in Seq(Effects)
  BY DEF Events, EventOK, StageNumbers
<1>4. CASE r.timer = e.n
  <2>1. b.run = s /\ b.fx = <<f>>
    BY <1>3, <1>4 DEF TimerTick, Result
  <2> HIDE DEF b, f, s
  <2>2. b.fx \in Seq(Effects) /\ \A i \in DOMAIN b.fx : b.fx[i].op = "emit" /\ b.fx[i].event.type = "stage.timeout"
    BY <1>2, <2>1
  <2>3. \A m \in Names : Moved(r, e, b, m)
    BY <1>1, <2>1, <2>2, PlainEvents DEF PlainTypes
  <2>4. Staged(r, e, b) /\ Timed(r, e, b)
    BY <1>1, <2>1, <2>2, StagesKept DEF Big
  <2> QED
    BY <1>1, <2>1, <2>2, <2>3, <2>4 DEF Handled, b
<1>5. CASE r.timer # e.n
  <2>1. b.run = r /\ b.fx = <<>> /\ DOMAIN b.fx = {}
    BY <1>5 DEF TimerTick, Result
  <2> HIDE DEF b
  <2>2. \A m \in Names : Moved(r, e, b, m)
    BY <1>3, <2>1, PlainEvents DEF PlainTypes
  <2>3. Staged(r, e, b) /\ Timed(r, e, b)
    <3>1. b.run \in Runs /\ b.run.stage = r.stage /\ b.run.resolved = r.resolved /\ b.run.timer = r.timer
      BY <2>1
    <3> QED
      BY <1>5, <2>1, <3>1, StagesKept
  <2> QED
    BY <1>3, <2>1, <2>2, <2>3 DEF Handled, b
<1> QED
  BY <1>4, <1>5

(* Nothing but the timer goes off: what stage.timeout and run.quiescent    *)
(* leave to their watchers.                                                *)
LEMMA OffFacts ==
    ASSUME NEW r \in Runs, NEW e \in Events, e.type \in {"stage.timeout", "run.quiescent"},
           NEW s \in Runs, s.members = r.members, s.stage = r.stage, s.resolved = r.resolved,
           s.timer \in {0, r.timer}, s.status = r.status
    PROVE  Handled(r, e, Result(s, <<>>))
<1> DEFINE b == Result(s, <<>>)
<1>1. b.run = s /\ b.fx = <<>> /\ b.fx \in Seq(Effects) /\ DOMAIN b.fx = {}
  BY DEF Result
<1> HIDE DEF b
<1>2. \A m \in Names : Moved(r, e, b, m)
  BY <1>1, PlainEvents DEF PlainTypes
<1>3. Staged(r, e, b) /\ Timed(r, e, b)
  BY <1>1, StagesKept
<1> QED
  BY <1>1, <1>2, <1>3 DEF Handled, b

(* One effect leads on to the next stage, or to the result.                *)
LEMMA OnwardFacts ==
    ASSUME NEW r \in Runs, NEW e \in Events, r.stage # 0
    PROVE  /\ Onward(r, e) \in Seq(Effects) /\ \A i \in DOMAIN Onward(r, e) : Onward(r, e)[i].op = "emit"
           /\ \A i, j \in Emitting(Onward(r, e), Big) : i = j
           /\ Emitting(Onward(r, e), Big) # {}
<1> DEFINE fx == Onward(r, e)
           n == r.stage + 1
<1>1. r.stage \in Nat /\ r.stage \in 1 .. Len(Stages) /\ Len(Stages) \in Nat
  BY StageFacts DEF Runs, StageNumbers
<1>2. CASE r.stage = Len(Stages)
  <2> DEFINE f == Emit(Derived(e, "run.result", 0))
  <2>1. f \in Effects /\ f.op = "emit" /\ f.event.type = "run.result"
    BY MadeEvents DEF MadeTypes, Emit, Derived
  <2>2. fx = <<f>>
    BY <1>2 DEF Onward
  <2> HIDE DEF f, fx
  <2>3. fx \in Seq(Effects) /\ DOMAIN fx = {1} /\ fx[1] = f
    BY <2>1, <2>2
  <2>4. Emitting(fx, Big) = {1}
    BY <2>1, <2>3 DEF Emitting, Big
  <2> QED
    BY <2>1, <2>3, <2>4 DEF fx
<1>3. CASE r.stage # Len(Stages)
  <2> DEFINE f == Emit(Derived(e, "stage.advanced", n))
             g == Emit(Derived(e, "stage.entered", n))
  <2>1. n \in StageNumbers /\ n \in Nat
    BY <1>1, <1>3 DEF StageNumbers
  <2>2. /\ f \in Effects /\ f.op = "emit" /\ f.event.type = "stage.advanced"
        /\ g \in Effects /\ g.op = "emit" /\ g.event.type = "stage.entered"
    BY <2>1, MadeEvents DEF MadeTypes, Emit, Derived
  <2>3. fx = <<f, g>>
    BY <1>3 DEF Onward
  <2> HIDE DEF f, g, fx
  <2>4. fx \in Seq(Effects) /\ DOMAIN fx = {1, 2} /\ fx[1] = f /\ fx[2] = g
    BY <2>2, <2>3
  <2>5. Emitting(fx, Big) = {2}
    BY <2>2, <2>4 DEF Emitting, Big
  <2> QED
    BY <2>2, <2>4, <2>5 DEF fx
<1> QED
  BY <1>2, <1>3

(* What a sequence of effects emits, in one of two parts.                  *)
LEMMA JoinedEmits ==
    ASSUME NEW p \in Seq(Effects), NEW q \in Seq(Effects), NEW types, Emitting(p, types) = {}
    PROVE  /\ p \o q \in Seq(Effects)
           /\ (\A i, j \in Emitting(q, types) : i = j) => \A i, j \in Emitting(p \o q, types) : i = j
           /\ Emitting(p \o q, types) = {} <=> Emitting(q, types) = {}
<1> DEFINE s == p \o q
<1>1. /\ s \in Seq(Effects) /\ Len(p) \in Nat /\ Len(q) \in Nat /\ Len(s) = Len(p) + Len(q)
      /\ DOMAIN s = 1 .. Len(s) /\ DOMAIN p = 1 .. Len(p) /\ DOMAIN q = 1 .. Len(q)
      /\ \A i \in 1 .. Len(p) : s[i] = p[i]
      /\ \A i \in 1 .. Len(q) : s[Len(p) + i] = q[i]
  OBVIOUS
<1> HIDE DEF s
<1>2. ASSUME NEW i \in Emitting(s, types) PROVE i - Len(p) \in Emitting(q, types) /\ i \in Nat
  <2>1. i \in 1 .. Len(s) /\ s[i].op = "emit" /\ s[i].event.type \in types
    BY <1>1 DEF Emitting
  <2>2. i \notin 1 .. Len(p)
    BY <1>1, <2>1 DEF Emitting
  <2>3. i - Len(p) \in 1 .. Len(q) /\ Len(p) + (i - Len(p)) = i
    BY <1>1, <2>1, <2>2
  <2>4. s[i] = q[i - Len(p)]
    BY <1>1, <2>3
  <2> QED
    BY <1>1, <2>1, <2>3, <2>4 DEF Emitting
<1>3. ASSUME NEW i \in Emitting(q, types) PROVE Len(p) + i \in Emitting(s, types)
  <2>1. i \in 1 .. Len(q) /\ q[i].op = "emit" /\ q[i].event.type \in types
    BY <1>1 DEF Emitting
  <2>2. Len(p) + i \in 1 .. Len(s) /\ s[Len(p) + i] = q[i]
    BY <1>1, <2>1
  <2> QED
    BY <1>1, <2>1, <2>2 DEF Emitting
<1>4. ASSUME \A i, j \in Emitting(q, types) : i = j, NEW i \in Emitting(s, types), NEW j \in Emitting(s, types)
      PROVE  i = j
  <2>1. i - Len(p) = j - Len(p) /\ i \in Nat /\ j \in Nat
    BY <1>2, <1>4
  <2> QED
    BY <1>1, <2>1
<1> QED
  BY <1>1, <1>2, <1>3, <1>4 DEF s

(* A stage that resolves leads on.                                         *)
LEMMA ResolvingFacts ==
    ASSUME NEW r \in Runs, NEW e \in Events, e.type \in {"stage.submitted", "stage.timeout"},
           r.stage # 0, ~r.resolved,
           NEW s \in Runs, s.stage = r.stage, s.resolved, s.timer = 0, s.status = r.status,
           NEW p \in Seq(Effects), \A i \in DOMAIN p : p[i].op = "cancel_timer",
           NEW b, b.run = s, b.fx = p \o Onward(r, e)
    PROVE  /\ b.fx \in Seq(Effects) /\ \A i \in DOMAIN b.fx : b.fx[i].op # "spawn"
           /\ Staged(r, e, b) /\ Timed(r, e, b)
<1> DEFINE q == Onward(r, e)
<1>1. /\ q \in Seq(Effects) /\ \A i \in DOMAIN q : q[i].op = "emit"
      /\ \A i, j \in Emitting(q, Big) : i = j
      /\ Emitting(q, Big) # {}
  BY OnwardFacts
<1> HIDE DEF q
<1>2. Emitting(p, Big) = {}
  BY DEF Emitting
<1>3. /\ b.fx = p \o q /\ b.fx \in Seq(Effects)
      /\ \A i, j \in Emitting(b.fx, Big) : i = j
      /\ Emitting(b.fx, Big) # {}
  BY <1>1, <1>2, JoinedEmits DEF q
<1>4. ASSUME NEW i \in DOMAIN b.fx PROVE b.fx[i].op \in {"cancel_timer", "emit"}
  <2>1. /\ Len(p) \in Nat /\ Len(q) \in Nat /\ DOMAIN b.fx = 1 .. Len(p) + Len(q)
        /\ DOMAIN p = 1 .. Len(p) /\ DOMAIN q = 1 .. Len(q)
        /\ \A k \in 1 .. Len(p) : b.fx[k] = p[k]
        /\ \A k \in 1 .. Len(q) : b.fx[Len(p) + k] = q[k]
    BY <1>1, <1>3
  <2>2. CASE i \in 1 .. Len(p)
    BY <2>1, <2>2
  <2>3. CASE i \notin 1 .. Len(p)
    <3>1. i - Len(p) \in 1 .. Len(q) /\ Len(p) + (i - Len(p)) = i
      BY <2>1, <2>3
    <3>2. b.fx[i] = q[i - Len(p)]
      BY <2>1, <3>1
    <3> QED
      BY <1>1, <2>1, <3>1, <3>2
  <2> QED
    BY <2>2, <2>3
<1>5. Staged(r, e, b)
  BY <1>3 DEF Staged
<1>6. Timed(r, e, b)
  BY DEF Timed
<1> QED
  BY <1>3, <1>4, <1>5, <1>6

(* The timeout of a stage, unless it is left to the watchers.              *)
Escalates(r) == ~r.resolved /\ (r.stage = 0 \/ Stages[r.stage].onTimeout \notin {"fail", "advance"})

LEMMA TimedOut ==
    ASSUME NEW r \in Runs, NEW e \in Events, e.type = "stage.timeout", ~Escalates(r)
    PROVE  Handled(r, e, StageTimeout(r, e))
<1> DEFINE off == [r EXCEPT !.timer = 0]
           b == StageTimeout(r, e)
<1>1. /\ off \in Runs /\ off.members = r.members /\ off.stage = r.stage /\ off.resolved = r.resolved
      /\ off.timer = 0 /\ off.status = r.status /\ r.resolved \in BOOLEAN /\ <<>> \in Seq(Effects)
  BY DEF Runs
<1>2. CASE r.resolved
  <2>1. b = Result(off, <<>>)
    BY <1>2 DEF StageTimeout
  <2> QED
    BY <1>1, <2>1, OffFacts
<1>3. CASE ~r.resolved /\ Stages[r.stage].onTimeout = "fail" /\ r.stage # 0
  <2> DEFINE s == [off EXCEPT !.status = "failed"]
  <2>1. b = Result(s, <<>>)
    BY <1>3 DEF StageTimeout
  <2> HIDE DEF off, b
  <2>2. /\ s \in Runs /\ s.members = r.members /\ s.stage = r.stage /\ s.resolved = r.resolved
        /\ s.timer = 0 /\ s.status = "failed"
    BY <1>1 DEF Runs, Statuses, Terminal
  <2> HIDE DEF s
  <2>3. b.run = s /\ b.fx = <<>> /\ DOMAIN b.fx = {}
    BY <2>1 DEF Result
  <2>4. \A m \in Names : Moved(r, e, b, m)
    BY <1>1, <2>2, <2>3, PlainEvents DEF PlainTypes
  <2>5. Staged(r, e, b) /\ Timed(r, e, b)
    BY <2>2, <2>3, StagesKept
  <2> QED
    BY <1>1, <2>2, <2>3, <2>4, <2>5 DEF Handled, b
<1>4. CASE ~r.resolved /\ Stages[r.stage].onTimeout = "advance" /\ r.stage # 0
  <2> DEFINE s == [off EXCEPT !.resolved = TRUE]
  <2>1. b = Result(s, Onward(r, e))
    BY <1>4 DEF StageTimeout
  <2> HIDE DEF off, b
  <2>2. /\ s \in Runs /\ s.members = r.members /\ s.stage = r.stage /\ s.resolved = TRUE
        /\ s.timer = 0 /\ s.status = r.status
    BY <1>1 DEF Runs
  <2> HIDE DEF s
  <2>3. b.run = s /\ b.fx = Onward(r, e)
    BY <2>1 DEF Result
  <2>4. Onward(r, e) \in Seq(Effects)
    BY <1>4, OnwardFacts
  <2>5. b.fx = <<>> \o Onward(r, e) /\ DOMAIN <<>> = {}
    BY <2>3, <2>4
  <2>6. /\ b.fx \in Seq(Effects) /\ \A i \in DOMAIN b.fx : b.fx[i].op # "spawn"
        /\ Staged(r, e, b) /\ Timed(r, e, b)
    BY <1>1, <1>4, <2>2, <2>3, <2>5, ResolvingFacts
  <2>7. \A m \in Names : Moved(r, e, b, m)
    BY <2>2, <2>3, <2>6, PlainEvents DEF PlainTypes
  <2> QED
    BY <2>2, <2>3, <2>6, <2>7 DEF Handled, b
<1> QED
  BY <1>1, <1>2, <1>3, <1>4 DEF Escalates

(* The run in which member a has become y.                                 *)
Acted(r, a, y) == [r EXCEPT !.members = [m \in Names |-> IF m \in {a} THEN y ELSE r.members[m]]]

LEMMA ActedFacts ==
    ASSUME NEW r \in Runs, NEW a \in Names, NEW y \in MemberRecords
    PROVE  LET s == Acted(r, a, y)
           IN /\ s \in Runs /\ s.members[a] = y /\ \A m \in Names \ {a} : s.members[m] = r.members[m]
              /\ s.stage = r.stage /\ s.resolved = r.resolved /\ s.timer = r.timer /\ s.status = r.status
              /\ s.inbox = r.inbox /\ s.quiescent = r.quiescent /\ s.spent = r.spent /\ s.budget = r.budget
              /\ s.overBudget = r.overBudget /\ s.turns = r.turns
<1> DEFINE f == [m \in Names |-> IF m \in {a} THEN y ELSE r.members[m]]
<1>1. f \in [Names -> MemberRecords] /\ f[a] = y /\ \A m \in Names \ {a} : f[m] = r.members[m]
  BY RunFields
<1>2. Acted(r, a, y) = [r EXCEPT !.members = f]
  BY DEF Acted
<1> HIDE DEF f
<1> QED
  BY <1>1, <1>2 DEF Runs

(* An event of one member, which begins no turn.                           *)
LEMMA ActorEvents ==
    ASSUME NEW r \in Runs, NEW e \in Events, NEW b, e.actor \in Names,
           \A i \in DOMAIN b.fx : b.fx[i].op # "spawn",
           \A m \in Names \ {e.actor} : b.run.members[m] = r.members[m],
           b.run.status = "running" => r.status = "running",
           Moved(r, e, b, e.actor)
    PROVE  \A m \in Names : Moved(r, e, b, m)
<1> SUFFICES ASSUME NEW m \in Names, m # e.actor PROVE Moved(r, e, b, m)
  OBVIOUS
<1>1. m \notin Begun(b.fx)
  BY NoneBegun
<1> QED
  BY <1>1, Untouched

LEMMA ActorFacts ==
    ASSUME NEW r \in Runs, NEW e \in Events, e.type \in TurnTypes \cup ToolTypes
    PROVE  e.actor \in Names /\ r.members[e.actor] \in MemberRecords
BY RunFields DEF Events, EventOK

(* An event of one member that changes nothing but the member.             *)
LEMMA ActedAlone ==
    ASSUME NEW r \in Runs, NEW e \in Events, e.type \in TurnTypes \cup ToolTypes,
           NEW y \in MemberRecords,
           Moved(r, e, Result(Acted(r, e.actor, y), <<>>), e.actor)
    PROVE  Handled(r, e, Result(Acted(r, e.actor, y), <<>>))
<1> DEFINE s == Acted(r, e.actor, y)
           b == Result(s, <<>>)
<1>1. e.actor \in Names
  BY ActorFacts
<1>2. /\ s \in Runs /\ \A m \in Names \ {e.actor} : s.members[m] = r.members[m]
      /\ s.stage = r.stage /\ s.resolved = r.resolved /\ s.timer = r.timer /\ s.status = r.status
  BY <1>1, ActedFacts
<1>3. b.run = s /\ b.fx = <<>> /\ b.fx \in Seq(Effects) /\ DOMAIN b.fx = {}
  BY DEF Result
<1> HIDE DEF s, b
<1>4. \A m \in Names : Moved(r, e, b, m)
  <2>1. Moved(r, e, b, e.actor)
    BY DEF s, b
  <2> QED
    BY <1>1, <1>2, <1>3, <2>1, ActorEvents
<1>5. Staged(r, e, b) /\ Timed(r, e, b)
  <2>1. e.type \notin {"run.started", "stage.entered", "stage.advanced", "run.result", "timer.tick"}
    BY DEF TurnTypes, ToolTypes
  <2> QED
    BY <1>2, <1>3, <2>1, StagesKept
<1> QED
  BY <1>2, <1>3, <1>4, <1>5 DEF Handled, b, s

LEMMA TurnFails ==
    ASSUME NEW r \in Runs, NEW e \in Events, e.type = "agent.failed"
    PROVE  Handled(r, e, AgentFailed(r, e))
<1> DEFINE a == e.actor
           x == r.members[a]
           y == [x EXCEPT !.state = "failed", !.open = FALSE]
           b == Result(Acted(r, a, y), <<>>)
<1>1. a \in Names /\ x \in MemberRecords
  BY ActorFacts DEF TurnTypes
<1>2. y \in MemberRecords /\ y.state = "failed" /\ y.open = FALSE
  BY <1>1 DEF MemberRecords, MemberStates
<1>3. AgentFailed(r, e) = b
  BY DEF AgentFailed, With, Acted
<1> HIDE DEF y
<1>4. b.run.members[a] = y /\ Begun(b.fx) = {}
  BY <1>1, <1>2, ActedFacts, NoneBegun DEF Result
<1>5. Moved(r, e, b, a)
  <2> HIDE DEF b
  <2> QED
    BY <1>2, <1>4 DEF Moved, Served, Ends
<1> QED
  BY <1>2, <1>3, <1>5, ActedAlone DEF TurnTypes

LEMMA ToolStarts ==
    ASSUME NEW r \in Runs, NEW e \in Events, e.type = "tool.call"
    PROVE  Handled(r, e, ToolCalled(r, e))
<1> DEFINE a == e.actor
           x == r.members[a]
           y == [x EXCEPT !.state = "tool"]
           b == Result(Acted(r, a, y), <<>>)
<1>1. a \in Names /\ x \in MemberRecords
  BY ActorFacts DEF TurnTypes
<1>2. y \in MemberRecords /\ y.state = "tool" /\ y.open = x.open /\ y.pending = x.pending
  BY <1>1 DEF MemberRecords, MemberStates
<1>3. ToolCalled(r, e) = b
  BY DEF ToolCalled, With, Acted
<1> HIDE DEF y
<1>4. b.run.members[a] = y /\ Begun(b.fx) = {} /\ b.run.status = r.status
  BY <1>1, <1>2, ActedFacts, NoneBegun DEF Result
<1>5. Moved(r, e, b, a)
  <2> HIDE DEF b
  <2> QED
    BY <1>2, <1>4 DEF Moved, Sane, Served, Ends
<1> QED
  BY <1>2, <1>3, <1>5, ActedAlone DEF TurnTypes

LEMMA ToolEnds ==
    ASSUME NEW r \in Runs, NEW e \in Events, e.type = "tool.call_completed"
    PROVE  Handled(r, e, ToolCompleted(r, e))
<1> DEFINE a == e.actor
           x == r.members[a]
           y == IF x.state = "tool" THEN [x EXCEPT !.state = "thinking"] ELSE x
           b == Result(Acted(r, a, y), <<>>)
<1>1. a \in Names /\ x \in MemberRecords
  BY ActorFacts DEF ToolTypes
<1>2. /\ y \in MemberRecords /\ y.open = x.open /\ y.pending = x.pending
      /\ y.state = IF x.state = "tool" THEN "thinking" ELSE x.state
  BY <1>1 DEF MemberRecords, MemberStates
<1>3. ToolCompleted(r, e) = b
  BY DEF ToolCompleted, With, Acted
<1> HIDE DEF y
<1>4. b.run.members[a] = y /\ Begun(b.fx) = {} /\ b.run.status = r.status
  BY <1>1, <1>2, ActedFacts, NoneBegun DEF Result
<1>5. Moved(r, e, b, a)
  <2> HIDE DEF b
  <2> QED
    BY <1>2, <1>4 DEF Moved, Sane, Served, Ends
<1> QED
  BY <1>2, <1>3, <1>5, ActedAlone DEF ToolTypes

(* An event of one member that asks, or tells of a limit.                  *)
LEMMA ActedAs ==
    ASSUME NEW r \in Runs, NEW e \in Events, e.type \in TurnTypes \cup ToolTypes, NEW b,
           b.run \in Runs, \A m \in Names \ {e.actor} : b.run.members[m] = r.members[m],
           b.run.stage = r.stage, b.run.resolved = r.resolved, b.run.timer = r.timer,
           b.run.status = r.status,
           b.fx \in Seq(Effects),
           \A i \in DOMAIN b.fx :
              /\ b.fx[i].op \in {"emit", "ask"}
              /\ b.fx[i].op = "emit" => b.fx[i].event.type \in {"run.expired", "budget.exceeded"},
           Moved(r, e, b, e.actor)
    PROVE  Handled(r, e, b)
<1>1. \A m \in Names : Moved(r, e, b, m)
  <2>1. e.actor \in Names /\ \A i \in DOMAIN b.fx : b.fx[i].op # "spawn"
    BY ActorFacts
  <2> QED
    BY <2>1, ActorEvents
<1>2. Staged(r, e, b) /\ Timed(r, e, b)
  <2>1. e.type \notin {"run.started", "stage.entered", "stage.advanced", "run.result", "timer.tick"}
    BY DEF TurnTypes, ToolTypes
  <2>2. \A i \in DOMAIN b.fx :
           /\ b.fx[i].op = "emit" => b.fx[i].event.type \notin Big \cup {"stage.advanced"}
           /\ b.fx[i].op = "cancel_timer" => b.run.timer = 0
    BY DEF Big
  <2> QED
    BY <2>1, <2>2, StagesKept
<1> QED
  BY <1>1, <1>2 DEF Handled

LEMMA TurnStarts ==
    ASSUME NEW r \in Runs, NEW e \in Events, e.type = "agent.activated"
    PROVE  Handled(r, e, Activated(r, e))
<1> DEFINE a == e.actor
           x == r.members[a]
           y == [x EXCEPT !.state = "thinking", !.open = TRUE]
           t == [r EXCEPT !.turns = @ + 1]
           s == Acted(t, a, y)
           f == Emit(Derived(e, "run.expired", 0))
           fx == IF MaxTurns = 0 \/ s.turns < MaxTurns THEN <<>> ELSE <<f>>
           b == Activated(r, e)
<1>1. a \in Names /\ x \in MemberRecords
  BY ActorFacts DEF TurnTypes
<1>2. y \in MemberRecords /\ y.state = "thinking" /\ y.open = TRUE /\ y.pending = x.pending
  BY <1>1 DEF MemberRecords, MemberStates
<1>3. /\ t \in Runs /\ t.members = r.members /\ t.stage = r.stage /\ t.resolved = r.resolved
      /\ t.timer = r.timer /\ t.status = r.status
  BY DEF Runs
<1>4. With(t, {a}, LAMBDA z : [z EXCEPT !.state = "thinking", !.open = TRUE]) = s
  BY <1>3 DEF With, Acted
<1>5. b = Result(s, fx)
  BY <1>4 DEF Activated
<1> HIDE DEF y, t
<1>6. /\ s \in Runs /\ s.members[a] = y /\ \A m \in Names \ {a} : s.members[m] = r.members[m]
      /\ s.stage = r.stage /\ s.resolved = r.resolved /\ s.timer = r.timer /\ s.status = r.status
  <2> HIDE DEF a
  <2>1. /\ s \in Runs /\ s.members[a] = y /\ \A m \in Names \ {a} : s.members[m] = t.members[m]
        /\ s.stage = t.stage /\ s.resolved = t.resolved /\ s.timer = t.timer /\ s.status = t.status
    BY <1>1, <1>2, <1>3, ActedFacts
  <2> QED
    BY <1>3, <2>1
<1>7. f \in Effects /\ f.op = "emit" /\ f.event.type = "run.expired"
  BY MadeEvents DEF MadeTypes, Emit, Derived
<1>8. fx \in Seq(Effects) /\ \A i \in DOMAIN fx : fx[i].op = "emit" /\ fx[i].event.type = "run.expired"
  <2> HIDE DEF f, s
  <2> QED
    BY <1>7
<1>9. b.run = s /\ b.fx = fx
  BY <1>5 DEF Result
<1> HIDE DEF s, fx, b
<1>10. Moved(r, e, b, a)
  <2>1. Begun(b.fx) = {}
    BY <1>8, <1>9, NoneBegun
  <2> QED
    BY <1>2, <1>6, <1>9, <2>1 DEF Moved, Sane, Served, Ends
<1>11. Handled(r, e, b)
  BY <1>6, <1>8, <1>9, <1>10, ActedAs DEF TurnTypes
<1> QED
  BY <1>11 DEF b

LEMMA ToolRefused ==
    ASSUME NEW r \in Runs, NEW e \in Events, e.type = "tool.call_denied"
    PROVE  Handled(r, e, ToolDenied(r, e))
<1> DEFINE a == e.actor
           x == r.members[a]
<1>1. a \in Names /\ x \in MemberRecords
  BY ActorFacts DEF ToolTypes
<1>2. CASE e.to # "ask"
  <2> DEFINE y == [x EXCEPT !.state = "idle"]
             b == Result(Acted(r, a, y), <<>>)
  <2>1. y \in MemberRecords /\ y.state = "idle" /\ y.open = x.open /\ y.pending = x.pending
    BY <1>1 DEF MemberRecords, MemberStates
  <2>2. ToolDenied(r, e) = b
    BY <1>2 DEF ToolDenied, With, Acted, Idle
  <2> HIDE DEF y
  <2>3. b.run.members[a] = y /\ Begun(b.fx) = {} /\ b.run.status = r.status
    BY <1>1, <2>1, ActedFacts, NoneBegun DEF Result
  <2>4. Moved(r, e, b, a)
    <3> HIDE DEF b
    <3> QED
      BY <1>2, <2>1, <2>3 DEF Moved, Sane, Served, Ends, Disturbs
  <2> QED
    BY <2>1, <2>2, <2>4, ActedAlone DEF ToolTypes
<1>3. CASE e.to = "ask"
  <2> DEFINE t == Ask(r, "tool_approval", a, TRUE)
             n == NextInboxId(r)
             y == [x EXCEPT !.state = "waiting", !.on = n]
             s == Acted(t, a, y)
             f == AskHuman(n, a, e)
             b == ToolDenied(r, e)
  <2>1. /\ t \in Runs /\ t.members = r.members /\ t.stage = r.stage /\ t.resolved = r.resolved
        /\ t.timer = r.timer /\ t.status = r.status /\ n \in Nat \ {0}
    <3>1. /\ "tool_approval" \in {"budget", "stage_timeout", "tool_approval"} /\ TRUE \in BOOLEAN
          /\ a \in Names \cup {Nobody}
      BY <1>1
    <3> HIDE DEF a
    <3> QED
      BY <3>1, AskedInbox
  <2>2. /\ y \in MemberRecords /\ y.state = "waiting" /\ y.open = x.open /\ y.pending = x.pending
        /\ y.on = n
    BY <1>1, <2>1 DEF MemberRecords, MemberStates
  <2>3. With(t, {a}, LAMBDA z : [z EXCEPT !.state = "waiting", !.on = n]) = s
    <3> HIDE DEF n
    <3> QED
      BY <2>1 DEF With, Acted
  <2>4. b = Result(s, <<f>>)
    BY <1>3, <2>3 DEF ToolDenied
  <2> HIDE DEF y, t, n
  <2>5. /\ s \in Runs /\ s.members[a] = y /\ \A m \in Names \ {a} : s.members[m] = r.members[m]
        /\ s.stage = r.stage /\ s.resolved = r.resolved /\ s.timer = r.timer /\ s.status = r.status
    <3> HIDE DEF a
    <3>1. /\ s \in Runs /\ s.members[a] = y /\ \A m \in Names \ {a} : s.members[m] = t.members[m]
          /\ s.stage = t.stage /\ s.resolved = t.resolved /\ s.timer = t.timer /\ s.status = t.status
      BY <1>1, <2>1, <2>2, ActedFacts
    <3> QED
      BY <2>1, <3>1
  <2>6. f \in Effects /\ f.op = "ask"
    BY <1>1, <2>1, DeeperType DEF AskHuman, Effects
  <2>7. b.run = s /\ b.fx = <<f>>
    BY <2>4 DEF Result
  <2> HIDE DEF s, f, b
  <2>8. b.fx \in Seq(Effects) /\ \A i \in DOMAIN b.fx : b.fx[i].op = "ask"
    BY <2>6, <2>7
  <2>9. Moved(r, e, b, a)
    <3>1. Begun(b.fx) = {}
      BY <2>8, NoneBegun
    <3> QED
      BY <2>2, <2>5, <2>7, <3>1 DEF Moved, Sane, Served, Ends
  <2>10. Handled(r, e, b)
    BY <2>5, <2>7, <2>8, <2>9, ActedAs DEF ToolTypes
  <2> QED
    BY <2>10 DEF b
<1> QED
  BY <1>2, <1>3

LEMMA TurnPaid ==
    ASSUME NEW r \in Runs, NEW e \in Events, e.type = "llm.response"
    PROVE  Handled(r, e, Charged(r, e))
<1> DEFINE a == e.actor
           x == r.members[a]
           y == IF x.state = "thinking" THEN [x EXCEPT !.state = "idle"] ELSE x
           t == [r EXCEPT !.spent = @ + e.n]
           paid == Acted(t, a, y)
           f == Emit(Derived(e, "budget.exceeded", 0))
           b == Charged(r, e)
<1>1. a \in Names /\ x \in MemberRecords
  BY ActorFacts DEF TurnTypes
<1>2. /\ y \in MemberRecords /\ y.open = x.open /\ y.pending = x.pending
      /\ y.state = IF x.state = "thinking" THEN "idle" ELSE x.state
  BY <1>1 DEF MemberRecords, MemberStates
<1>3. /\ t \in Runs /\ t.members = r.members /\ t.stage = r.stage /\ t.resolved = r.resolved
      /\ t.timer = r.timer /\ t.status = r.status
  <2>1. e.n \in Nat
    BY DEF Events
  <2> QED
    BY <2>1 DEF Runs
<1>4. With(t, {a}, LAMBDA z : IF z.state = "thinking" THEN Idle(z) ELSE z) = paid
  BY <1>3 DEF With, Acted, Idle
<1> HIDE DEF y, t
<1>5. /\ paid \in Runs /\ paid.members[a] = y /\ \A m \in Names \ {a} : paid.members[m] = r.members[m]
      /\ paid.stage = r.stage /\ paid.resolved = r.resolved /\ paid.timer = r.timer /\ paid.status = r.status
  <2> HIDE DEF a
  <2>1. /\ paid \in Runs /\ paid.members[a] = y /\ \A m \in Names \ {a} : paid.members[m] = t.members[m]
        /\ paid.stage = t.stage /\ paid.resolved = t.resolved /\ paid.timer = t.timer /\ paid.status = t.status
    BY <1>1, <1>2, <1>3, ActedFacts
  <2> QED
    BY <1>3, <2>1
<1> DEFINE over == paid.spent >= r.budget
<1>6. \/ b = Result(paid, <<>>)
      \/ b = Result([paid EXCEPT !.overBudget = TRUE], <<f>>)
      \/ b = Result([paid EXCEPT !.overBudget = over], <<>>)
  <2> HIDE DEF paid
  <2>1. b = CASE r.budget = 0 -> Result(paid, <<>>)
              [] r.budget # 0 /\ over /\ ~r.overBudget -> Result([paid EXCEPT !.overBudget = TRUE], <<f>>)
              [] OTHER -> Result([paid EXCEPT !.overBudget = over], <<>>)
    BY <1>4 DEF Charged, t
  <2> HIDE DEF b, f, over
  <2> QED
    BY <2>1
<1>7. f \in Effects /\ f.op = "emit" /\ f.event.type = "budget.exceeded"
  BY MadeEvents DEF MadeTypes, Emit, Derived
<1>8. over \in BOOLEAN
  OBVIOUS
<1> HIDE DEF over, paid, f, b
<1> DEFINE s(o) == [paid EXCEPT !.overBudget = o]
<1>9. ASSUME NEW o \in BOOLEAN
      PROVE  /\ s(o) \in Runs /\ s(o).members = paid.members /\ s(o).stage = paid.stage
             /\ s(o).resolved = paid.resolved /\ s(o).timer = paid.timer /\ s(o).status = paid.status
  BY <1>5 DEF Runs
<1>10. /\ b.run \in Runs /\ b.run.members = paid.members /\ b.run.stage = r.stage
       /\ b.run.resolved = r.resolved /\ b.run.timer = r.timer /\ b.run.status = r.status
       /\ b.fx = <<>> \/ b.fx = <<f>>
  <2>1. TRUE \in BOOLEAN
    OBVIOUS
  <2>2. b \in {Result(paid, <<>>), Result(s(TRUE), <<f>>), Result(s(over), <<>>)}
    BY <1>6
  <2> HIDE DEF s
  <2>3. CASE b = Result(paid, <<>>)
    BY <1>5, <2>3 DEF Result
  <2>4. CASE b = Result(s(TRUE), <<f>>)
    BY <1>5, <1>9, <2>1, <2>4 DEF Result
  <2>5. CASE b = Result(s(over), <<>>)
    BY <1>5, <1>8, <1>9, <2>5 DEF Result
  <2> QED
    BY <2>2, <2>3, <2>4, <2>5
<1>11. b.fx \in Seq(Effects) /\ \A i \in DOMAIN b.fx : b.fx[i].op = "emit" /\ b.fx[i].event.type = "budget.exceeded"
  <2>1. CASE b.fx = <<>>
    BY <2>1
  <2>2. CASE b.fx = <<f>>
    BY <1>7, <2>2
  <2> QED
    BY <1>10, <2>1, <2>2
<1>12. Moved(r, e, b, a)
  <2>1. Begun(b.fx) = {}
    BY <1>11, NoneBegun
  <2> QED
    BY <1>2, <1>5, <1>10, <2>1 DEF Moved, Sane, Served, Ends
<1>13. Handled(r, e, b)
  BY <1>5, <1>10, <1>11, <1>12, ActedAs DEF TurnTypes
<1> QED
  BY <1>13 DEF b

LEMMA WorkSubmitted ==
    ASSUME NEW r \in Runs, NEW e \in Events, e.type = "stage.submitted"
    PROVE  Handled(r, e, StageSubmitted(r, e))
<1> DEFINE a == e.actor
           x == r.members[a]
           y == [x EXCEPT !.submitted = TRUE, !.state = "submitted"]
           said == Acted(r, a, y)
           p == IF r.timer # 0 THEN <<CancelTimer(r.timer)>> ELSE <<>>
           s == [said EXCEPT !.resolved = TRUE, !.timer = 0]
           b == StageSubmitted(r, e)
<1>1. a \in Names /\ x \in MemberRecords
  BY ActorFacts DEF TurnTypes
<1>2. y \in MemberRecords /\ y.state = "submitted" /\ y.open = x.open /\ y.pending = x.pending
  BY <1>1 DEF MemberRecords, MemberStates
<1>3. With(r, {a}, LAMBDA z : [z EXCEPT !.submitted = TRUE, !.state = "submitted"]) = said
  BY DEF With, Acted
<1> HIDE DEF y
<1>4. /\ said \in Runs /\ said.members[a] = y /\ \A m \in Names \ {a} : said.members[m] = r.members[m]
      /\ said.stage = r.stage /\ said.resolved = r.resolved /\ said.timer = r.timer /\ said.status = r.status
  <2> HIDE DEF a
  <2> QED
    BY <1>1, <1>2, ActedFacts
<1>5. b = IF Resolves(said) THEN Result(s, p \o Onward(r, e)) ELSE Result(said, <<>>)
  BY <1>3 DEF StageSubmitted
<1>6. p \in Seq(Effects) /\ \A i \in DOMAIN p : p[i].op = "cancel_timer"
  <2>1. r.timer # 0 => CancelTimer(r.timer) \in Effects /\ CancelTimer(r.timer).op = "cancel_timer"
    BY RunFields DEF CancelTimer, Effects
  <2> QED
    BY <2>1
<1>7. /\ s \in Runs /\ s.members = said.members /\ s.stage = r.stage /\ s.resolved = TRUE
      /\ s.timer = 0 /\ s.status = r.status
  <2> HIDE DEF said
  <2> QED
    BY <1>4 DEF Runs
<1> HIDE DEF said, p, s, b
<1>8. /\ \A i \in DOMAIN b.fx : b.fx[i].op # "spawn"
      /\ b.fx \in Seq(Effects) /\ b.run \in Runs /\ b.run.members = said.members /\ b.run.status = r.status
      /\ Staged(r, e, b) /\ Timed(r, e, b)
  <2>1. CASE Resolves(said)
    <3>1. b.run = s /\ b.fx = p \o Onward(r, e)
      BY <1>5, <2>1 DEF Result
    <3>2. r.stage # 0 /\ ~r.resolved
      BY <1>4, <2>1 DEF Resolves
    <3>3. /\ b.fx \in Seq(Effects) /\ \A i \in DOMAIN b.fx : b.fx[i].op # "spawn"
          /\ Staged(r, e, b) /\ Timed(r, e, b)
      BY <1>6, <1>7, <3>1, <3>2, ResolvingFacts
    <3> QED
      BY <1>7, <3>1, <3>3
  <2>2. CASE ~Resolves(said)
    <3>1. b.run = said /\ b.fx = <<>> /\ DOMAIN b.fx = {} /\ b.fx \in Seq(Effects)
      BY <1>5, <2>2 DEF Result
    <3>2. Staged(r, e, b) /\ Timed(r, e, b)
      BY <1>4, <3>1, StagesKept
    <3> QED
      BY <1>4, <3>1, <3>2
  <2> QED
    BY <2>1, <2>2
<1>9. Moved(r, e, b, a)
  <2>1. Begun(b.fx) = {}
    BY <1>8, NoneBegun
  <2> QED
    BY <1>2, <1>4, <1>8, <2>1 DEF Moved, Sane, Served, Ends
<1>10. \A m \in Names : Moved(r, e, b, m)
  BY <1>1, <1>4, <1>8, <1>9, ActorEvents
<1> QED
  BY <1>8, <1>10 DEF Handled, b

(* A member that an event of nobody's turn leaves, parks or sets to work.  *)
LEMMA RousedMember ==
    ASSUME NEW r \in Runs, NEW e \in Events, e.type \in HumanTypes \cup {"stage.entered"},
           NEW b, NEW m \in Names,
           b.run.members[m].open = IF m \in Begun(b.fx) THEN TRUE ELSE r.members[m].open,
           b.run.members[m].state \in {"idle", r.members[m].state},
           /\ b.run.status = "running" /\ ~Disturbs(r, e) /\ Sane(r.members[m], e, m)
           /\ r.status = "running" => Served(r.members[m])
           => Served(b.run.members[m])
    PROVE  Moved(r, e, b, m)
<1>1. e.type \notin Ends \cup {"agent.activated", "llm.response", "tool.call", "tool.call_denied"}
  BY DEF HumanTypes, Ends
<1>2. r.members[m].open \in BOOLEAN
  BY RunFields DEF MemberRecords
<1> QED
  BY <1>1, <1>2 DEF Moved, Sane

(* A member that cannot take a turn, and whose cause is parked.            *)
LEMMA ParkedIsServed ==
    ASSUME NEW x \in MemberRecords, NEW e \in Events, NEW m, NEW y,
           Sane(x, e, m), ~Takes(x) \/ x.state = "failed", y.open = x.open, y.state = x.state
    PROVE  Served(y)
BY DEF Sane, Takes, Busy, Served

LEMMA ParkedRun ==
    ASSUME NEW r \in Runs, NEW who, who \subseteq Names, NEW e \in Events
    PROVE  LET s == Park(r, who, e)
           IN /\ SameButMembers(r, s)
              /\ \A m \in Names : s.members[m] = IF m \in who THEN Parking(r.members[m], e) ELSE r.members[m]
<1> DEFINE f == [m \in Names |-> IF m \in who THEN Parking(r.members[m], e) ELSE r.members[m]]
<1>1. \A m \in Names : r.members[m] \in MemberRecords /\ Parking(r.members[m], e) \in MemberRecords
  BY RunFields, MemberMoves
<1>2. f \in [Names -> MemberRecords]
  BY <1>1
<1>3. Park(r, who, e) = [r EXCEPT !.members = f]
  BY DEF Park, With, Parking
<1>4. \A m \in Names : f[m] = IF m \in who THEN Parking(r.members[m], e) ELSE r.members[m]
  OBVIOUS
<1> HIDE DEF f
<1>5. SameButMembers(r, Park(r, who, e)) /\ Park(r, who, e).members = f
  BY <1>2, <1>3, MembersChange
<1> QED
  BY <1>4, <1>5

LEMMA SameTwice ==
    ASSUME NEW r \in Runs, NEW s, NEW t, SameButMembers(r, s), SameButMembers(s, t)
    PROVE  SameButMembers(r, t)
<1> DEFINE g == t.members
           h == s.members
<1>1. t \in Runs /\ t = [s EXCEPT !.members = g] /\ s = [r EXCEPT !.members = h]
  BY DEF SameButMembers
<1> HIDE DEF g, h
<1>2. t = [r EXCEPT !.members = g]
  BY <1>1 DEF Runs
<1> QED
  BY <1>1, <1>2 DEF SameButMembers, g

LEMMA SameFields ==
    ASSUME NEW r \in Runs, NEW s, SameButMembers(r, s)
    PROVE  /\ s \in Runs /\ s.stage = r.stage /\ s.resolved = r.resolved /\ s.timer = r.timer
           /\ s.status = r.status /\ s.inbox = r.inbox /\ s.quiescent = r.quiescent
           /\ (Halted(s) <=> Halted(r))
BY DEF SameButMembers, Runs, Halted

LEMMA PromptArrives ==
    ASSUME NEW r \in Runs, NEW e \in Events, e.type = "run.prompt"
    PROVE  Handled(r, e, Injected(r, e))
<1> DEFINE to == IF e.to = Nobody THEN SteerTarget ELSE e.to
           reached == IF to = "*" THEN {m \in Names : r.members[m].state # "inactive"} ELSE {to}
           later == {m \in reached : ~Takes(r.members[m])}
           now == {m \in reached \ later : r.members[m].state # "failed"}
           r1 == Park(r, later, e)
           z(m) == [r1.members[m] EXCEPT !.state = "idle", !.submitted = FALSE]
           f == [m \in Names |-> IF m \in now THEN z(m) ELSE r1.members[m]]
           r2 == [r1 EXCEPT !.members = f]
           b == Injected(r, e)
<1>1. to \in Names \cup {"*"}
  <2>1. e.to = Nobody
    BY DEF Events, EventOK
  <2> QED
    BY <2>1, RosterFacts
<1>2. /\ later \subseteq Names /\ now \subseteq Names /\ now \cap later = {}
      /\ \A m \in later : ~Takes(r.members[m])
  <2>1. reached \subseteq Names
    BY <1>1
  <2> HIDE DEF reached
  <2> QED
    BY <2>1
<1>3. b = Spawn(r2, now, e)
  BY DEF Injected, With
<1> HIDE DEF later, now, b
<1>4. /\ SameButMembers(r, r1)
      /\ \A m \in Names : r1.members[m] = IF m \in later THEN Parking(r.members[m], e) ELSE r.members[m]
  BY <1>2, ParkedRun
<1> HIDE DEF r1
<1>5. /\ r1 \in Runs /\ r1.stage = r.stage /\ r1.resolved = r.resolved /\ r1.timer = r.timer
      /\ r1.status = r.status
  BY <1>4, SameFields
<1>6. ASSUME NEW m \in Names
      PROVE  /\ z(m) \in MemberRecords /\ z(m).state = "idle" /\ z(m).open = r1.members[m].open
             /\ r1.members[m] \in MemberRecords /\ r.members[m] \in MemberRecords
  <2>1. r1.members[m] \in MemberRecords /\ r.members[m] \in MemberRecords
    BY <1>5, RunFields
  <2> QED
    BY <2>1 DEF MemberRecords, MemberStates
<1> HIDE DEF z
<1>7. f \in [Names -> MemberRecords] /\ \A m \in Names : f[m] = IF m \in now THEN z(m) ELSE r1.members[m]
  BY <1>6
<1> HIDE DEF f
<1>8. SameButMembers(r1, r2) /\ r2.members = f
  BY <1>5, <1>7, MembersChange
<1> HIDE DEF r2
<1>9. /\ r2 \in Runs /\ r2.stage = r.stage /\ r2.resolved = r.resolved /\ r2.timer = r.timer
      /\ r2.status = r.status
  BY <1>5, <1>8, SameFields
<1>10. Spawned(r2, b, now, e)
  BY <1>2, <1>3, <1>9, SpawnFacts
<1>11. /\ b.run \in Runs /\ b.run.stage = r.stage /\ b.run.resolved = r.resolved
       /\ b.run.timer = r.timer /\ b.run.status = r.status
  BY <1>9, <1>10, SameFields DEF Spawned, Turned
<1>12. /\ b.fx \in Seq(Effects) /\ \A i \in DOMAIN b.fx : b.fx[i].op = "spawn"
       /\ Begun(b.fx) = IF Halted(r2) THEN {} ELSE now
  BY <1>10, BegunIs DEF Spawned, Turned
<1>13. Staged(r, e, b) /\ Timed(r, e, b)
  BY <1>11, <1>12, StagesKept
<1>14. ASSUME NEW m \in Names PROVE Moved(r, e, b, m)
  <2> DEFINE x == r.members[m]
             y == b.run.members[m]
  <2>1. y = IF m \notin now THEN r2.members[m]
            ELSE IF Halted(r2) THEN Parking(r2.members[m], e) ELSE Opening(r2.members[m])
    BY <1>10 DEF Spawned
  <2>2. x \in MemberRecords /\ z(m) \in MemberRecords
    BY <1>6
  <2> HIDE DEF x, y
  <2>3. CASE m \in now
    <3>1. r2.members[m] = z(m) /\ z(m).open = x.open /\ z(m).state = "idle"
      <4>1. m \notin later
        BY <1>2, <2>3
      <4> QED
        BY <1>4, <1>6, <1>7, <1>8, <2>3, <4>1 DEF x
    <3>2. y = IF Halted(r2) THEN Parking(z(m), e) ELSE Opening(z(m))
      BY <2>1, <2>3, <3>1
    <3>3. y.state = "idle" /\ y.open = IF Halted(r2) THEN x.open ELSE TRUE
      <4>1. CASE Halted(r2)
        BY <2>2, <3>1, <3>2, <4>1, MemberMoves
      <4>2. CASE ~Halted(r2)
        BY <2>2, <3>1, <3>2, <4>2, MemberMoves
      <4> QED
        BY <4>1, <4>2
    <3>4. b.run.status = "running" => Served(y)
      BY <1>9, <1>11, <3>3 DEF Served, Halted
    <3>5. y.open = IF m \in Begun(b.fx) THEN TRUE ELSE x.open
      BY <1>12, <2>3, <3>3
    <3> QED
      BY <3>3, <3>4, <3>5, RousedMember DEF x, y, HumanTypes
  <2>4. CASE m \notin now
    <3>1. y = IF m \in later THEN Parking(x, e) ELSE x
      BY <1>4, <1>7, <1>8, <2>1, <2>4 DEF x
    <3>2. y.state = x.state /\ y.open = x.open
      BY <2>2, <3>1, MemberMoves
    <3>3. Sane(x, e, m) /\ Served(x) => Served(y)
      <4>1. CASE m \in later
        BY <1>2, <2>2, <3>2, <4>1, ParkedIsServed DEF x
      <4>2. CASE m \notin later
        BY <3>1, <4>2
      <4> QED
        BY <4>1, <4>2
    <3>4. y.open = IF m \in Begun(b.fx) THEN TRUE ELSE x.open
      BY <1>12, <2>4, <3>2
    <3> QED
      BY <1>11, <3>2, <3>3, <3>4, RousedMember DEF x, y, HumanTypes
  <2> QED
    BY <2>3, <2>4
<1>15. Handled(r, e, b)
  BY <1>11, <1>12, <1>13, <1>14 DEF Handled
<1> QED
  BY <1>15 DEF b

(* The members of who go on with what was parked for them, and for nobody  *)
(* else is there something parked that nothing will ask for.               *)
Freed(r, d, who) ==
    /\ SameButMembers(r, d.run)
    /\ d.fx \in Seq(Effects) /\ \A i \in DOMAIN d.fx : d.fx[i].op = "spawn"
    /\ Begun(d.fx) = who /\ who \subseteq Names
    /\ \A m \in Names :
          LET x == r.members[m]
              y == d.run.members[m]
          IN /\ m \in who => y.state = "idle" /\ y.open = TRUE /\ y.on = x.on /\ Takes(x)
             /\ m \notin who => y = x /\ (x.pending = {} \/ ~Takes(x) \/ x.state = "failed")

LEMMA DrainParkedFacts ==
    ASSUME NEW r \in Runs, NEW e \in Events, ~Halted(r)
    PROVE  \E who : Freed(r, DrainParked(r, e), who)
<1> DEFINE who == {m \in Names : r.members[m].pending # {} /\ Takes(r.members[m])
                                  /\ r.members[m].state # "failed"}
           z(m) == [r.members[m] EXCEPT !.state = "idle"]
           f == [m \in Names |-> IF m \in who THEN z(m) ELSE r.members[m]]
           r1 == [r EXCEPT !.members = f]
           d == DrainParked(r, e)
<1>1. /\ who \subseteq Names
      /\ \A m \in Names \ who : r.members[m].pending = {} \/ ~Takes(r.members[m]) \/ r.members[m].state = "failed"
      /\ \A m \in who : Takes(r.members[m])
  OBVIOUS
<1>2. d = Drain(r1, who, e)
  BY DEF DrainParked, With, Idle
<1> HIDE DEF who, d
<1>3. ASSUME NEW m \in Names
      PROVE  /\ z(m) \in MemberRecords /\ z(m).state = "idle" /\ r.members[m] \in MemberRecords
             /\ z(m).on = r.members[m].on
  <2>1. r.members[m] \in MemberRecords
    BY RunFields
  <2> QED
    BY <2>1 DEF MemberRecords, MemberStates
<1> HIDE DEF z
<1>4. f \in [Names -> MemberRecords] /\ \A m \in Names : f[m] = IF m \in who THEN z(m) ELSE r.members[m]
  BY <1>3
<1> HIDE DEF f
<1>5. SameButMembers(r, r1) /\ r1.members = f
  BY <1>4, MembersChange
<1> HIDE DEF r1
<1>6. r1 \in Runs /\ ~Halted(r1)
  BY <1>5, SameFields
<1>7. Drained(r1, d, who, e)
  BY <1>1, <1>2, <1>6, DrainFacts
<1>8. SameButMembers(r1, d.run) /\ d.fx \in Seq(Effects) /\ (\A i \in DOMAIN d.fx : d.fx[i].op = "spawn")
      /\ Begun(d.fx) = who
  BY <1>6, <1>7, BegunIs DEF Drained, Turned
<1>9. SameButMembers(r, d.run)
  BY <1>5, <1>8, SameTwice
<1>10. ASSUME NEW m \in Names
       PROVE  /\ m \in who => d.run.members[m].state = "idle" /\ d.run.members[m].open = TRUE
                              /\ d.run.members[m].on = r.members[m].on
              /\ m \notin who => d.run.members[m] = r.members[m]
  <2>1. d.run.members[m] = IF m \notin who THEN f[m] ELSE Serving(f[m])
    BY <1>5, <1>6, <1>7 DEF Drained
  <2>2. CASE m \in who
    <3>1. z(m) \in MemberRecords /\ d.run.members[m] = Serving(z(m))
      BY <1>3, <1>4, <2>1, <2>2
    <3>2. Serving(z(m)).state = z(m).state /\ Serving(z(m)).open = TRUE /\ Serving(z(m)).on = z(m).on
      BY <3>1, MemberMoves
    <3> QED
      BY <1>3, <2>2, <3>1, <3>2
  <2>3. CASE m \notin who
    BY <1>4, <2>1, <2>3
  <2> QED
    BY <2>2, <2>3
<1>11. Freed(r, d, who)
  BY <1>1, <1>8, <1>9, <1>10 DEF Freed
<1> QED
  BY <1>11 DEF d

(* A run that goes on after it was halted.                                 *)
LEMMA GoingOn ==
    ASSUME NEW r \in Runs, NEW e \in Events, e.type \in {"run.unpaused", "inbox.replied"},
           NEW s \in Runs, s.members = r.members, s.stage = r.stage, s.resolved = r.resolved,
           s.timer = r.timer, s.status = "running"
    PROVE  Handled(r, e, DrainParked(s, e))
<1> DEFINE b == DrainParked(s, e)
<1>1. ~Halted(s)
  BY DEF Halted
<1>2. PICK who : Freed(s, b, who)
  BY <1>1, DrainParkedFacts
<1> HIDE DEF b
<1>3. /\ b.run \in Runs /\ b.run.stage = r.stage /\ b.run.resolved = r.resolved
      /\ b.run.timer = r.timer /\ b.run.status = "running"
  BY <1>2, SameFields DEF Freed
<1>4. b.fx \in Seq(Effects) /\ (\A i \in DOMAIN b.fx : b.fx[i].op = "spawn") /\ Begun(b.fx) = who
  BY <1>2 DEF Freed
<1>5. Staged(r, e, b) /\ Timed(r, e, b)
  BY <1>3, <1>4, StagesKept
<1>6. ASSUME NEW m \in Names PROVE Moved(r, e, b, m)
  <2> DEFINE x == r.members[m]
             y == b.run.members[m]
  <2>1. /\ m \in who => y.state = "idle" /\ y.open = TRUE
        /\ m \notin who => y = x /\ (x.pending = {} \/ ~Takes(x) \/ x.state = "failed")
    BY <1>2 DEF Freed
  <2>2. x \in MemberRecords
    BY RunFields
  <2> HIDE DEF x, y
  <2>3. Sane(x, e, m) => Served(y)
    <3>1. CASE m \in who
      BY <2>1, <3>1 DEF Served
    <3>2. CASE m \notin who /\ x.pending = {}
      BY <2>1, <3>2 DEF Served
    <3>3. CASE m \notin who /\ (~Takes(x) \/ x.state = "failed")
      BY <2>1, <2>2, <3>3, ParkedIsServed
    <3> QED
      BY <2>1, <3>1, <3>2, <3>3
  <2>4. y.open = IF m \in Begun(b.fx) THEN TRUE ELSE x.open
    BY <1>4, <2>1
  <2>5. y.state \in {"idle", x.state}
    BY <2>1
  <2> QED
    BY <2>3, <2>4, <2>5, RousedMember DEF x, y, HumanTypes
<1> QED
  BY <1>3, <1>4, <1>5, <1>6 DEF Handled, b

LEMMA RunResumes ==
    ASSUME NEW r \in Runs, NEW e \in Events, e.type = "run.unpaused"
    PROVE  Handled(r, e, Unpaused(r, e))
<1> DEFINE t == RaiseBudget(r, e)
           s == [t EXCEPT !.status = "running"]
<1>1. /\ t \in Runs /\ t.members = r.members /\ t.stage = r.stage /\ t.resolved = r.resolved
      /\ t.timer = r.timer
  <2>1. e.n \in Nat
    BY DEF Events
  <2> QED
    BY <2>1 DEF RaiseBudget, Runs
<1> HIDE DEF t
<1>2. /\ s \in Runs /\ s.members = r.members /\ s.stage = r.stage /\ s.resolved = r.resolved
      /\ s.timer = r.timer /\ s.status = "running"
  BY <1>1 DEF Runs, Statuses
<1> HIDE DEF s
<1>3. Handled(r, e, DrainParked(s, e))
  BY <1>2, GoingOn
<1> QED
  BY <1>3 DEF Unpaused, s, t

LEMMA AnswerArrives ==
    ASSUME NEW r \in Runs, NEW e \in Events, e.type = "inbox.replied"
    PROVE  Handled(r, e, InboxReplied(r, e))
<1> DEFINE t == [r.inbox EXCEPT ![e.n].replied = TRUE]
           answered == [r EXCEPT !.inbox[e.n].replied = TRUE]
           freed == {m \in Names : r.members[m].on = e.n}
           running == [answered EXCEPT !.status = IF @ = "blocked" THEN "running" ELSE @]
           b == InboxReplied(r, e)
           z(m) == [r.members[m] EXCEPT !.state = "idle", !.on = 0]
           f == [m \in Names |-> IF m \in freed THEN z(m) ELSE r.members[m]]
           r2 == [running EXCEPT !.members = f]
<1>1. t \in Seq(Items)
  BY MarkedInbox
<1>2. answered = [r EXCEPT !.inbox = t]
  BY DEF Runs
<1> HIDE DEF t
<1>3. /\ answered \in Runs /\ answered.members = r.members /\ answered.stage = r.stage
      /\ answered.resolved = r.resolved /\ answered.timer = r.timer /\ answered.status = r.status
  <2> HIDE DEF answered
  <2> QED
    BY <1>1, <1>2 DEF Runs
<1>4. freed # {} => b = Spawn(With(running, freed, LAMBDA x : [x EXCEPT !.state = "idle", !.on = 0]), freed, e)
  BY DEF InboxReplied
<1>5. freed = {} => b = IF r.status = "blocked" THEN DrainParked(running, e) ELSE Result(answered, <<>>)
  BY DEF InboxReplied
<1> HIDE DEF answered
<1>6. /\ running \in Runs /\ running.members = r.members /\ running.stage = r.stage
      /\ running.resolved = r.resolved /\ running.timer = r.timer
      /\ running.status = IF r.status = "blocked" THEN "running" ELSE r.status
  BY <1>3 DEF Runs, Statuses
<1>7. With(running, freed, LAMBDA x : [x EXCEPT !.state = "idle", !.on = 0]) = r2
  <2> HIDE DEF running, freed
  <2> QED
    BY <1>6 DEF With
<1> HIDE DEF running
<1>8. CASE freed = {} /\ r.status = "blocked"
  <2>1. running.status = "running" /\ b = DrainParked(running, e)
    BY <1>5, <1>6, <1>8
  <2> QED
    BY <1>6, <2>1, GoingOn
<1>9. CASE freed = {} /\ r.status # "blocked"
  <2>1. b.run = answered /\ b.fx = <<>> /\ DOMAIN b.fx = {} /\ b.fx \in Seq(Effects)
    <3>1. b = Result(answered, <<>>)
      BY <1>5, <1>9
    <3> HIDE DEF b
    <3> QED
      BY <3>1 DEF Result
  <2> HIDE DEF b, freed
  <2>2. Staged(r, e, b) /\ Timed(r, e, b)
    <3>1. /\ b.run \in Runs /\ b.run.stage = r.stage /\ b.run.resolved = r.resolved
          /\ b.run.timer = r.timer /\ b.run.status = r.status
      BY <1>3, <2>1
    <3> QED
      BY <2>1, <3>1, StagesKept
  <2>3. ASSUME NEW m \in Names PROVE Moved(r, e, b, m)
    <3>1. m \notin Begun(b.fx)
      BY <2>1, NoneBegun
    <3> QED
      BY <1>3, <2>1, <3>1, RousedMember DEF HumanTypes
  <2> QED
    BY <1>3, <2>1, <2>2, <2>3 DEF Handled, b
<1>10. CASE freed # {}
  <2>1. b = Spawn(r2, freed, e) /\ freed \subseteq Names
    BY <1>4, <1>7, <1>10
  <2>2. r.status = "blocked" => Disturbs(r, e)
    BY <1>10 DEF Disturbs
  <2> HIDE DEF freed, b
  <2>3. ASSUME NEW m \in Names
        PROVE  /\ z(m) \in MemberRecords /\ z(m).state = "idle" /\ z(m).open = r.members[m].open
               /\ r.members[m] \in MemberRecords
    <3>1. r.members[m] \in MemberRecords
      BY RunFields
    <3> QED
      BY <3>1 DEF MemberRecords, MemberStates
  <2> HIDE DEF z
  <2>4. f \in [Names -> MemberRecords] /\ \A m \in Names : f[m] = IF m \in freed THEN z(m) ELSE r.members[m]
    BY <2>3
  <2> HIDE DEF f
  <2>5. SameButMembers(running, r2) /\ r2.members = f
    BY <1>6, <2>4, MembersChange
  <2> HIDE DEF r2
  <2>6. /\ r2 \in Runs /\ r2.stage = r.stage /\ r2.resolved = r.resolved /\ r2.timer = r.timer
        /\ r2.status = running.status
    BY <1>6, <2>5, SameFields
  <2>7. Spawned(r2, b, freed, e)
    BY <2>1, <2>6, SpawnFacts
  <2>8. /\ b.run \in Runs /\ b.run.stage = r.stage /\ b.run.resolved = r.resolved
        /\ b.run.timer = r.timer /\ b.run.status = running.status
    BY <2>6, <2>7, SameFields DEF Spawned, Turned
  <2>9. /\ b.fx \in Seq(Effects) /\ \A i \in DOMAIN b.fx : b.fx[i].op = "spawn"
        /\ Begun(b.fx) = IF Halted(r2) THEN {} ELSE freed
    BY <2>7, BegunIs DEF Spawned, Turned
  <2>10. Staged(r, e, b) /\ Timed(r, e, b)
    BY <1>6, <2>8, <2>9, StagesKept
  <2>11. ASSUME NEW m \in Names PROVE Moved(r, e, b, m)
    <3> DEFINE x == r.members[m]
               y == b.run.members[m]
    <3>1. y = IF m \notin freed THEN x ELSE IF Halted(r2) THEN Parking(z(m), e) ELSE Opening(z(m))
      BY <2>4, <2>5, <2>7 DEF Spawned
    <3>2. z(m) \in MemberRecords /\ z(m).state = "idle" /\ z(m).open = x.open
      BY <2>3
    <3> HIDE DEF x, y
    <3>3. CASE m \in freed
      <4>1. y.state = "idle" /\ y.open = IF Halted(r2) THEN x.open ELSE TRUE
        <5>1. CASE Halted(r2)
          BY <3>1, <3>2, <3>3, <5>1, MemberMoves
        <5>2. CASE ~Halted(r2)
          BY <3>1, <3>2, <3>3, <5>2, MemberMoves
        <5> QED
          BY <5>1, <5>2
      <4>2. b.run.status = "running" => Served(y)
        BY <2>6, <2>8, <4>1 DEF Served, Halted
      <4>3. y.open = IF m \in Begun(b.fx) THEN TRUE ELSE x.open
        BY <2>9, <3>3, <4>1
      <4> QED
        BY <4>1, <4>2, <4>3, RousedMember DEF x, y, HumanTypes
    <3>4. CASE m \notin freed
      <4>1. y = x
        BY <3>1, <3>4
      <4>2. m \notin Begun(b.fx)
        BY <2>9, <3>4
      <4>3. b.run.status = "running" /\ ~Disturbs(r, e) => r.status = "running"
        BY <1>6, <2>2, <2>8
      <4> QED
        BY <4>1, <4>2, <4>3, RousedMember DEF x, y, HumanTypes
    <3> QED
      BY <3>3, <3>4
  <2> QED
    BY <2>8, <2>9, <2>10, <2>11 DEF Handled, b
<1> QED
  BY <1>8, <1>9, <1>10

(* s holds what p and q hold.                                              *)
Joins(s, p, q) ==
    /\ \A i \in DOMAIN s : (\E k \in DOMAIN p : s[i] = p[k]) \/ (\E k \in DOMAIN q : s[i] = q[k])
    /\ \A k \in DOMAIN p : \E i \in DOMAIN s : s[i] = p[k]
    /\ \A k \in DOMAIN q : \E i \in DOMAIN s : s[i] = q[k]

LEMMA JoinedParts ==
    ASSUME NEW S, NEW p \in Seq(S), NEW q \in Seq(S)
    PROVE  p \o q \in Seq(S) /\ Joins(p \o q, p, q)
<1> DEFINE s == p \o q
<1>1. /\ s \in Seq(S) /\ Len(p) \in Nat /\ Len(q) \in Nat /\ Len(s) = Len(p) + Len(q)
      /\ DOMAIN s = 1 .. Len(s) /\ DOMAIN p = 1 .. Len(p) /\ DOMAIN q = 1 .. Len(q)
      /\ \A i \in 1 .. Len(p) : s[i] = p[i]
      /\ \A i \in 1 .. Len(q) : s[Len(p) + i] = q[i]
  OBVIOUS
<1> HIDE DEF s
<1>2. ASSUME NEW i \in DOMAIN s PROVE (\E k \in DOMAIN p : s[i] = p[k]) \/ (\E k \in DOMAIN q : s[i] = q[k])
  <2>1. CASE i \in 1 .. Len(p)
    BY <1>1, <2>1
  <2>2. CASE i \notin 1 .. Len(p)
    <3>1. i - Len(p) \in 1 .. Len(q) /\ Len(p) + (i - Len(p)) = i
      BY <1>1, <2>2
    <3>2. s[i] = q[i - Len(p)]
      BY <1>1, <3>1
    <3> QED
      BY <1>1, <3>1, <3>2
  <2> QED
    BY <2>1, <2>2
<1>3. ASSUME NEW k \in DOMAIN p PROVE \E i \in DOMAIN s : s[i] = p[k]
  <2>1. k \in DOMAIN s /\ s[k] = p[k]
    BY <1>1
  <2> QED
    BY <2>1
<1>4. ASSUME NEW k \in DOMAIN q PROVE \E i \in DOMAIN s : s[i] = q[k]
  <2>1. Len(p) + k \in DOMAIN s /\ s[Len(p) + k] = q[k]
    BY <1>1
  <2> QED
    BY <2>1
<1> QED
  BY <1>1, <1>2, <1>3, <1>4 DEF s, Joins

LEMMA JoinedBegun ==
    ASSUME NEW p \in Seq(Effects), NEW q \in Seq(Effects)
    PROVE  Begun(p \o q) = Begun(p) \cup Begun(q)
<1> DEFINE s == p \o q
<1>1. /\ \A i \in DOMAIN s : (\E k \in DOMAIN p : s[i] = p[k]) \/ (\E k \in DOMAIN q : s[i] = q[k])
      /\ \A k \in DOMAIN p : \E i \in DOMAIN s : s[i] = p[k]
      /\ \A k \in DOMAIN q : \E i \in DOMAIN s : s[i] = q[k]
  <2>1. Joins(s, p, q)
    BY JoinedParts
  <2> QED
    BY <2>1 DEF Joins
<1> HIDE DEF s
<1>2. ASSUME NEW m \in Begun(s) PROVE m \in Begun(p) \cup Begun(q)
  <2>1. PICK i \in DOMAIN s : s[i].op = "spawn" /\ s[i].agent = m
    BY DEF Begun
  <2> QED
    BY <1>1, <2>1 DEF Begun
<1>3. ASSUME NEW m \in Begun(p) PROVE m \in Begun(s)
  <2>1. PICK k \in DOMAIN p : p[k].op = "spawn" /\ p[k].agent = m
    BY DEF Begun
  <2>2. PICK i \in DOMAIN s : s[i] = p[k]
    BY <1>1
  <2> QED
    BY <2>1, <2>2 DEF Begun
<1>4. ASSUME NEW m \in Begun(q) PROVE m \in Begun(s)
  <2>1. PICK k \in DOMAIN q : q[k].op = "spawn" /\ q[k].agent = m
    BY DEF Begun
  <2>2. PICK i \in DOMAIN s : s[i] = q[k]
    BY <1>1
  <2> QED
    BY <2>1, <2>2 DEF Begun
<1> QED
  BY <1>2, <1>3, <1>4 DEF s

LEMMA StageBegins ==
    ASSUME NEW r \in Runs, NEW e \in Events, e.type = "stage.entered"
    PROVE  Handled(r, e, StageEntered(r, e))
<1> DEFINE timed == Stages[e.n].timed
           reached == {m \in Participants(e.n) : r.members[m].state # "failed"}
           later == {m \in reached : r.members[m].state = "waiting"}
           now == reached \ later
           t == [r EXCEPT !.stage = e.n, !.resolved = FALSE, !.timer = IF timed THEN e.n ELSE @]
           u(m) == [r.members[m] EXCEPT !.submitted = FALSE]
           g == [m \in Names |-> u(m)]
           entered == [t EXCEPT !.members = g]
           r1 == Park(entered, later, e)
           z(m) == [r1.members[m] EXCEPT !.state = "idle"]
           f == [m \in Names |-> IF m \in now THEN z(m) ELSE r1.members[m]]
           r2 == [r1 EXCEPT !.members = f]
           o == Spawn(r2, now, e)
           pre == IF timed THEN <<SetTimer(e.n)>> ELSE <<>>
           b == StageEntered(r, e)
<1>1. e.n \in StageNumbers /\ e.n # 0 /\ Stages[e.n].in \subseteq Names /\ timed \in BOOLEAN
  BY StageFacts DEF Events, EventOK, StageNumbers
<1>2. /\ later \subseteq Names /\ now \subseteq Names /\ now \cap later = {}
      /\ \A m \in later : r.members[m].state = "waiting"
  BY <1>1 DEF Participants
<1>3. /\ t \in Runs /\ t.members = r.members /\ t.stage = e.n /\ t.resolved = FALSE
      /\ t.timer = (IF timed THEN e.n ELSE r.timer) /\ t.status = r.status
  <2> HIDE DEF timed
  <2> QED
    BY <1>1 DEF Runs
<1>4. With(t, Names, LAMBDA x : [x EXCEPT !.submitted = FALSE]) = entered
  <2> HIDE DEF t
  <2> QED
    BY <1>3 DEF With
<1>5. b.run = o.run /\ b.fx = pre \o o.fx
  BY <1>4 DEF StageEntered, With, Idle, Result
<1> HIDE DEF timed, later, now, t, b
<1>6. ASSUME NEW m \in Names
      PROVE  u(m) \in MemberRecords /\ u(m).state = r.members[m].state /\ u(m).open = r.members[m].open
             /\ u(m).pending = r.members[m].pending /\ r.members[m] \in MemberRecords
  <2>1. r.members[m] \in MemberRecords
    BY RunFields
  <2> QED
    BY <2>1 DEF MemberRecords
<1> HIDE DEF u
<1>7. g \in [Names -> MemberRecords] /\ \A m \in Names : g[m] = u(m)
  BY <1>6
<1> HIDE DEF g
<1>8. SameButMembers(t, entered) /\ entered.members = g
  BY <1>3, <1>7, MembersChange
<1> HIDE DEF entered
<1>9. entered \in Runs
  BY <1>3, <1>8, SameFields
<1>10. /\ SameButMembers(entered, r1)
       /\ \A m \in Names : r1.members[m] = IF m \in later THEN Parking(u(m), e) ELSE u(m)
  BY <1>2, <1>7, <1>8, <1>9, ParkedRun
<1> HIDE DEF r1
<1>11. r1 \in Runs
  BY <1>9, <1>10, SameFields
<1>12. ASSUME NEW m \in Names
       PROVE  z(m) \in MemberRecords /\ z(m).state = "idle" /\ z(m).open = r1.members[m].open
              /\ r1.members[m] \in MemberRecords
  <2>1. r1.members[m] \in MemberRecords
    BY <1>11, RunFields
  <2> QED
    BY <2>1 DEF MemberRecords, MemberStates
<1> HIDE DEF z
<1>13. f \in [Names -> MemberRecords] /\ \A m \in Names : f[m] = IF m \in now THEN z(m) ELSE r1.members[m]
  BY <1>12
<1> HIDE DEF f
<1>14. SameButMembers(r1, r2) /\ r2.members = f
  BY <1>11, <1>13, MembersChange
<1> HIDE DEF r2
<1>15. r2 \in Runs
  BY <1>11, <1>14, SameFields
<1>16. Spawned(r2, o, now, e)
  BY <1>2, <1>15, SpawnFacts
<1> HIDE DEF o
<1>17. SameButMembers(t, o.run) /\ SameButMembers(t, r2)
  <2>1. SameButMembers(t, r1)
    BY <1>3, <1>8, <1>10, SameTwice
  <2>2. SameButMembers(t, r2)
    BY <1>3, <1>14, <2>1, SameTwice
  <2> QED
    BY <1>3, <1>16, <2>2, SameTwice DEF Spawned, Turned
<1>18. /\ b.run \in Runs /\ b.run.stage = e.n /\ b.run.resolved = FALSE
       /\ b.run.timer = (IF timed THEN e.n ELSE r.timer) /\ b.run.status = r.status /\ r2.status = r.status
  <2>1. /\ o.run \in Runs /\ o.run.stage = t.stage /\ o.run.resolved = t.resolved
        /\ o.run.timer = t.timer /\ o.run.status = t.status /\ r2.status = t.status
    BY <1>3, <1>17, SameFields
  <2> QED
    BY <1>3, <1>5, <2>1
<1>19. /\ pre \in Seq(Effects) /\ \A i \in DOMAIN pre : pre[i] = SetTimer(e.n)
       /\ SetTimer(e.n).op = "set_timer" /\ SetTimer(e.n).stage = e.n
       /\ timed => 1 \in DOMAIN pre
  <2>1. SetTimer(e.n) \in Effects
    BY <1>1 DEF SetTimer, Effects
  <2> HIDE DEF timed
  <2> QED
    BY <1>1, <2>1 DEF SetTimer
<1>20. /\ o.fx \in Seq(Effects) /\ \A i \in DOMAIN o.fx : o.fx[i].op = "spawn"
       /\ Begun(o.fx) = IF Halted(r2) THEN {} ELSE now
  BY <1>16, BegunIs DEF Spawned, Turned
<1> HIDE DEF pre
<1>21. /\ b.fx \in Seq(Effects) /\ \A i \in DOMAIN b.fx : b.fx[i].op \in {"spawn", "set_timer"}
       /\ Begun(b.fx) = IF Halted(r2) THEN {} ELSE now
       /\ timed => \E i \in DOMAIN b.fx : b.fx[i] = SetTimer(e.n)
  <2>1. Begun(pre) = {}
    BY <1>19, NoneBegun
  <2>2. Begun(pre \o o.fx) = Begun(pre) \cup Begun(o.fx)
    BY <1>19, <1>20, JoinedBegun
  <2>3. b.fx \in Seq(Effects) /\ Joins(b.fx, pre, o.fx)
    BY <1>5, <1>19, <1>20, JoinedParts
  <2>4. \A i \in DOMAIN b.fx : (\E k \in DOMAIN pre : b.fx[i] = pre[k]) \/ (\E k \in DOMAIN o.fx : b.fx[i] = o.fx[k])
    BY <2>3 DEF Joins
  <2>5. \A k \in DOMAIN pre : \E i \in DOMAIN b.fx : b.fx[i] = pre[k]
    BY <2>3 DEF Joins
  <2>6. \A i \in DOMAIN b.fx : b.fx[i].op \in {"spawn", "set_timer"}
    BY <1>19, <1>20, <2>4
  <2>7. timed => \E i \in DOMAIN b.fx : b.fx[i] = SetTimer(e.n)
    BY <1>19, <2>5
  <2> QED
    BY <1>5, <1>20, <2>1, <2>2, <2>3, <2>6, <2>7
<1>22. Staged(r, e, b)
  <2>1. Emitting(b.fx, Big) = {} /\ Emitting(b.fx, {"stage.advanced"}) = {}
    BY <1>21 DEF Emitting
  <2> QED
    BY <1>1, <1>18, <2>1 DEF Staged
<1>23. Timed(r, e, b)
  BY <1>1, <1>18, <1>19, <1>21 DEF Timed
<1>24. ASSUME NEW m \in Names PROVE Moved(r, e, b, m)
  <2> DEFINE x == r.members[m]
             y == b.run.members[m]
  <2>1. y = IF m \notin now THEN r2.members[m]
            ELSE IF Halted(r2) THEN Parking(r2.members[m], e) ELSE Opening(r2.members[m])
    BY <1>5, <1>16 DEF Spawned
  <2>2. x \in MemberRecords /\ z(m) \in MemberRecords /\ u(m) \in MemberRecords
        /\ u(m).state = x.state /\ u(m).open = x.open /\ u(m).pending = x.pending
    BY <1>6, <1>12
  <2>3. m \in later => x.state = "waiting"
    BY <1>2
  <2>4. m \notin later => r1.members[m] = u(m)
    BY <1>10
  <2> HIDE DEF x, y
  <2>5. CASE m \in now
    <3>1. r2.members[m] = z(m) /\ z(m).open = x.open /\ z(m).state = "idle"
      <4>1. m \notin later
        BY <1>2, <2>5
      <4> QED
        BY <1>12, <1>13, <1>14, <2>2, <2>4, <2>5, <4>1
    <3>2. y = IF Halted(r2) THEN Parking(z(m), e) ELSE Opening(z(m))
      BY <2>1, <2>5, <3>1
    <3>3. y.state = "idle" /\ y.open = IF Halted(r2) THEN x.open ELSE TRUE
      <4>1. CASE Halted(r2)
        BY <2>2, <3>1, <3>2, <4>1, MemberMoves
      <4>2. CASE ~Halted(r2)
        BY <2>2, <3>1, <3>2, <4>2, MemberMoves
      <4> QED
        BY <4>1, <4>2
    <3>4. b.run.status = "running" => Served(y)
      BY <1>18, <3>3 DEF Served, Halted
    <3>5. y.open = IF m \in Begun(b.fx) THEN TRUE ELSE x.open
      BY <1>21, <2>5, <3>3
    <3> QED
      BY <3>3, <3>4, <3>5, RousedMember DEF x, y
  <2>6. CASE m \notin now
    <3>1. y = IF m \in later THEN Parking(u(m), e) ELSE u(m)
      BY <1>10, <1>13, <1>14, <2>1, <2>6
    <3>2. y.state = x.state /\ y.open = x.open /\ (m \notin later => y.pending = x.pending)
      BY <2>2, <3>1, MemberMoves
    <3>3. Served(x) => Served(y)
      BY <2>3, <3>2 DEF Served
    <3>4. y.open = IF m \in Begun(b.fx) THEN TRUE ELSE x.open
      BY <1>21, <2>6, <3>2
    <3> QED
      BY <1>18, <3>2, <3>3, <3>4, RousedMember DEF x, y
  <2> QED
    BY <2>5, <2>6
<1> QED
  BY <1>18, <1>21, <1>22, <1>23, <1>24 DEF Handled, b

LEMMA TurnEnds ==
    ASSUME NEW r \in Runs, NEW e \in Events, e.type = "agent.turn_done"
    PROVE  Handled(r, e, TurnDone(r, e))
<1> DEFINE a == e.actor
           x == r.members[a]
           c == [x EXCEPT !.open = FALSE]
           closed == Acted(r, a, c)
           who == IF x.submitted THEN {} ELSE {a}
           h == [m \in Names |-> IF m \in who THEN Idle(closed.members[m]) ELSE closed.members[m]]
           back == [closed EXCEPT !.members = h]
           d == Drain(back, {a}, e)
           b == TurnDone(r, e)
<1>1. a \in Names /\ x \in MemberRecords
  BY ActorFacts DEF TurnTypes
<1>2. /\ c \in MemberRecords /\ c.open = FALSE /\ c.state = x.state /\ c.pending = x.pending
  BY <1>1 DEF MemberRecords
<1>3. With(r, {a}, LAMBDA z : [z EXCEPT !.open = FALSE]) = closed
  BY DEF With, Acted
<1>4. With(closed, who, Idle) = back
  BY DEF With
<1>5. b = CASE x.state \in {"waiting", "failed"} -> Result(closed, <<>>)
            [] x.state \notin {"waiting", "failed"} /\ x.pending = {} -> Result(back, <<>>)
            [] OTHER -> d
  BY <1>3, <1>4 DEF TurnDone
<1> HIDE DEF c, b
<1>6. /\ closed \in Runs /\ closed.members[a] = c /\ \A m \in Names \ {a} : closed.members[m] = r.members[m]
      /\ closed.stage = r.stage /\ closed.resolved = r.resolved /\ closed.timer = r.timer /\ closed.status = r.status
  <2> HIDE DEF a
  <2> QED
    BY <1>1, <1>2, ActedFacts
<1> HIDE DEF closed
<1>7. ASSUME NEW m \in Names
      PROVE  /\ closed.members[m] \in MemberRecords /\ Idle(closed.members[m]) \in MemberRecords
             /\ Idle(closed.members[m]).state = "idle" /\ Idle(closed.members[m]).open = closed.members[m].open
             /\ Idle(closed.members[m]).pending = closed.members[m].pending
  <2>1. closed.members[m] \in MemberRecords
    BY <1>6, RunFields
  <2> QED
    BY <2>1 DEF Idle, MemberRecords, MemberStates
<1>8. h \in [Names -> MemberRecords]
      /\ \A m \in Names : h[m] = IF m \in who THEN Idle(closed.members[m]) ELSE closed.members[m]
  BY <1>7
<1> HIDE DEF h
<1>9. SameButMembers(closed, back) /\ back.members = h
  BY <1>6, <1>8, MembersChange
<1> HIDE DEF back
<1>10. /\ back \in Runs /\ back.stage = r.stage /\ back.resolved = r.resolved /\ back.timer = r.timer
       /\ back.status = r.status
  BY <1>6, <1>9, SameFields
<1>11. /\ \A m \in Names \ {a} : back.members[m] = r.members[m]
       /\ back.members[a] \in MemberRecords
       /\ back.members[a].open = FALSE /\ back.members[a].pending = x.pending
       /\ back.members[a].state \in {"idle", x.state}
  BY <1>1, <1>2, <1>6, <1>7, <1>8, <1>9
<1>12. Drained(back, d, {a}, e)
  <2>1. {a} \subseteq Names
    BY <1>1
  <2> HIDE DEF a
  <2> QED
    BY <1>10, <2>1, DrainFacts
<1> HIDE DEF d
<1>13. CASE x.state \in {"waiting", "failed"}
  <2>1. b.run = closed /\ b.fx = <<>> /\ DOMAIN b.fx = {} /\ b.fx \in Seq(Effects)
    <3>1. b = Result(closed, <<>>)
      BY <1>5, <1>13
    <3> QED
      BY <3>1 DEF Result
  <2>2. Moved(r, e, b, a)
    <3>1. Begun(b.fx) = {}
      BY <2>1, NoneBegun
    <3> QED
      BY <1>2, <1>6, <1>13, <2>1, <3>1 DEF Moved, Sane, Served, Ends
  <2>3. Handled(r, e, b)
    BY <1>6, <2>1, <2>2, ActedAs DEF TurnTypes
  <2> QED
    BY <2>3 DEF b
<1>14. CASE x.state \notin {"waiting", "failed"} /\ x.pending = {}
  <2>1. b.run = back /\ b.fx = <<>> /\ DOMAIN b.fx = {} /\ b.fx \in Seq(Effects)
    <3>1. b = Result(back, <<>>)
      BY <1>5, <1>14
    <3> QED
      BY <3>1 DEF Result
  <2>2. Moved(r, e, b, a)
    <3>1. Begun(b.fx) = {}
      BY <2>1, NoneBegun
    <3> QED
      BY <1>11, <1>14, <2>1, <3>1 DEF Moved, Sane, Served, Ends
  <2>3. Handled(r, e, b)
    BY <1>10, <1>11, <2>1, <2>2, ActedAs DEF TurnTypes
  <2> QED
    BY <2>3 DEF b
<1>15. CASE x.state \notin {"waiting", "failed"} /\ x.pending # {}
  <2>1. b = d
    BY <1>5, <1>15
  <2>2. /\ b.run \in Runs /\ b.run.stage = r.stage /\ b.run.resolved = r.resolved
        /\ b.run.timer = r.timer /\ b.run.status = r.status
    BY <1>10, <1>12, <2>1, SameFields DEF Drained, Turned
  <2>3. /\ b.fx \in Seq(Effects) /\ \A i \in DOMAIN b.fx : b.fx[i].op = "spawn"
        /\ Begun(b.fx) = IF Halted(back) THEN {} ELSE {a}
    BY <1>12, <2>1, BegunIs DEF Drained, Turned
  <2>4. Staged(r, e, b) /\ Timed(r, e, b)
    BY <2>2, <2>3, StagesKept
  <2>5. ASSUME NEW m \in Names \ {a} PROVE Moved(r, e, b, m)
    <3>1. b.run.members[m] = r.members[m]
      BY <1>11, <1>12, <2>1 DEF Drained
    <3>2. m \notin Begun(b.fx)
      BY <2>3
    <3> QED
      BY <2>2, <3>1, <3>2, Untouched
  <2>6. Moved(r, e, b, a)
    <3> DEFINE y == b.run.members[a]
               z == back.members[a]
    <3>1. y = IF Halted(back) THEN Parking(z, e) ELSE Serving(z)
      BY <1>1, <1>12, <2>1 DEF Drained
    <3>2. z \in MemberRecords /\ z.open = FALSE /\ z.state \in {"idle", x.state}
      BY <1>11
    <3> HIDE DEF y, z
    <3>3. /\ y.state = z.state
          /\ y.open = IF Halted(back) THEN FALSE ELSE TRUE
      <4>1. CASE Halted(back)
        <5>1. y = Parking(z, e)
          BY <3>1, <4>1
        <5>2. Parking(z, e).state = z.state
          BY <3>2, MemberMoves
        <5>3. Parking(z, e).open = FALSE
          BY <3>2 DEF MemberRecords, Parking
        <5> QED
          BY <4>1, <5>1, <5>2, <5>3
      <4>2. CASE ~Halted(back)
        <5>1. y = Serving(z)
          BY <3>1, <4>2
        <5>2. Serving(z).state = z.state /\ Serving(z).open = TRUE
          BY <3>2, MemberMoves
        <5> QED
          BY <4>2, <5>1, <5>2
      <4> QED
        BY <4>1, <4>2
    <3>4. /\ b.run.status = "running" => Served(y)
          /\ y.state \in {"idle", x.state}
          /\ y.open = IF a \in Begun(b.fx) THEN TRUE ELSE FALSE
      BY <1>10, <2>2, <2>3, <3>2, <3>3 DEF Served, Halted
    <3> QED
      BY <3>4 DEF Moved, Sane, Ends, y
  <2>7. Handled(r, e, b)
    BY <2>2, <2>3, <2>4, <2>5, <2>6 DEF Handled
  <2> QED
    BY <2>7 DEF b
<1> QED
  BY <1>13, <1>14, <1>15

-----------------------------------------------------------------------------
(* A decision: an event's handler, the watchers it wakes, the look at the  *)
(* run, the effects put in order.                                          *)

(* g does to the stages and to the timer what f does.                      *)
SameControl(f, g) ==
    /\ (\A i, j \in Emitting(f, Big) : i = j) => \A i, j \in Emitting(g, Big) : i = j
    /\ Emitting(g, Big) = {} <=> Emitting(f, Big) = {}
    /\ Emitting(f, {"stage.advanced"}) = {} => Emitting(g, {"stage.advanced"}) = {}
    /\ \A i \in DOMAIN f : f[i].op = "set_timer" => \E k \in DOMAIN g : g[k] = f[i]
    /\ \A k \in DOMAIN g : g[k].op = "cancel_timer" => \E i \in DOMAIN f : f[i] = g[k]

(* Effects that do nothing to either.                                      *)
Trails(q) ==
    \A i \in DOMAIN q : \/ q[i].op \in {"spawn", "call", "ask"}
                        \/ q[i].op = "emit" /\ q[i].event.type = "run.quiescent"

LEMMA TrailKeeps ==
    ASSUME NEW p \in Seq(Effects), NEW q \in Seq(Effects), Trails(q)
    PROVE  p \o q \in Seq(Effects) /\ SameControl(p, p \o q)
<1> DEFINE s == p \o q
<1>1. /\ s \in Seq(Effects) /\ Len(p) \in Nat /\ Len(q) \in Nat /\ Len(s) = Len(p) + Len(q)
      /\ DOMAIN s = 1 .. Len(s) /\ DOMAIN p = 1 .. Len(p) /\ DOMAIN q = 1 .. Len(q)
      /\ \A i \in 1 .. Len(p) : s[i] = p[i]
      /\ \A i \in 1 .. Len(q) : s[Len(p) + i] = q[i]
  OBVIOUS
<1> HIDE DEF s
<1>2. ASSUME NEW i \in DOMAIN s, i \notin DOMAIN p
      PROVE  s[i].op \in {"spawn", "call", "ask"} \/ (s[i].op = "emit" /\ s[i].event.type = "run.quiescent")
  <2>1. i - Len(p) \in 1 .. Len(q) /\ Len(p) + (i - Len(p)) = i
    BY <1>1, <1>2
  <2>2. s[i] = q[i - Len(p)]
    BY <1>1, <2>1
  <2> QED
    BY <1>1, <2>1, <2>2 DEF Trails
<1>3. ASSUME NEW types, "run.quiescent" \notin types PROVE Emitting(s, types) = Emitting(p, types)
  <2>1. ASSUME NEW i \in Emitting(s, types) PROVE i \in Emitting(p, types)
    <3>1. i \in DOMAIN s /\ s[i].op = "emit" /\ s[i].event.type \in types
      BY DEF Emitting
    <3>2. i \in DOMAIN p
      BY <1>2, <1>3, <3>1
    <3>3. s[i] = p[i]
      BY <1>1, <3>2
    <3> QED
      BY <3>1, <3>2, <3>3 DEF Emitting
  <2>2. ASSUME NEW i \in Emitting(p, types) PROVE i \in Emitting(s, types)
    <3>1. i \in DOMAIN p /\ p[i].op = "emit" /\ p[i].event.type \in types
      BY DEF Emitting
    <3>2. i \in DOMAIN s /\ s[i] = p[i]
      BY <1>1, <3>1
    <3> QED
      BY <3>1, <3>2 DEF Emitting
  <2> QED
    BY <2>1, <2>2
<1>4. Emitting(s, Big) = Emitting(p, Big) /\ Emitting(s, {"stage.advanced"}) = Emitting(p, {"stage.advanced"})
  BY <1>3 DEF Big
<1>5. ASSUME NEW i \in DOMAIN p PROVE \E k \in DOMAIN s : s[k] = p[i]
  <2>1. i \in DOMAIN s /\ s[i] = p[i]
    BY <1>1
  <2> QED
    BY <2>1
<1>6. ASSUME NEW k \in DOMAIN s, s[k].op = "cancel_timer" PROVE \E i \in DOMAIN p : p[i] = s[k]
  <2>1. k \in DOMAIN p
    BY <1>2, <1>6
  <2>2. s[k] = p[k]
    BY <1>1, <2>1
  <2> QED
    BY <2>1, <2>2
<1> QED
  BY <1>1, <1>4, <1>5, <1>6 DEF s, SameControl

LEMMA OrderKeeps ==
    ASSUME NEW f \in Seq(Effects)
    PROVE  /\ OrderEffects(f) \in Seq(Effects) /\ SameControl(f, OrderEffects(f))
           /\ Begun(OrderEffects(f)) = Begun(f)
           /\ \A i \in DOMAIN f : \E k \in DOMAIN OrderEffects(f) : OrderEffects(f)[k] = f[i]
           /\ \A k \in DOMAIN OrderEffects(f) : \E i \in DOMAIN f : OrderEffects(f)[k] = f[i]
<1> DEFINE g == OrderEffects(f)
<1>1. g \in Seq(Effects) /\ \E p : Places(g, f, 1 .. Len(f), p)
  BY OrderedPlaces
<1>2. PICK p : Places(g, f, 1 .. Len(f), p)
  BY <1>1
<1> HIDE DEF g
<1>3. DOMAIN f = 1 .. Len(f) /\ DOMAIN g = 1 .. Len(g)
  BY <1>1
<1>4. /\ \A k \in DOMAIN g : p[k] \in DOMAIN f /\ g[k] = f[p[k]]
      /\ \A k, l \in DOMAIN g : p[k] = p[l] => k = l
      /\ \A i \in DOMAIN f : \E k \in DOMAIN g : p[k] = i
  BY <1>2, <1>3 DEF Places
<1>5. ASSUME NEW i \in DOMAIN f PROVE \E k \in DOMAIN g : g[k] = f[i]
  <2>1. PICK k \in DOMAIN g : p[k] = i
    BY <1>4
  <2> QED
    BY <1>4, <2>1
<1>6. ASSUME NEW k \in DOMAIN g PROVE \E i \in DOMAIN f : g[k] = f[i]
  BY <1>4
<1>7. ASSUME NEW types
      PROVE  /\ (\A i, j \in Emitting(f, types) : i = j) => \A i, j \in Emitting(g, types) : i = j
             /\ Emitting(g, types) = {} <=> Emitting(f, types) = {}
  <2>1. \A k \in Emitting(g, types) : k \in DOMAIN g /\ p[k] \in Emitting(f, types)
    BY <1>4 DEF Emitting
  <2>2. ASSUME NEW i \in Emitting(f, types) PROVE Emitting(g, types) # {}
    <3>1. i \in DOMAIN f /\ f[i].op = "emit" /\ f[i].event.type \in types
      BY DEF Emitting
    <3>2. PICK k \in DOMAIN g : g[k] = f[i]
      BY <1>5, <3>1
    <3>3. k \in Emitting(g, types)
      BY <3>1, <3>2 DEF Emitting
    <3> QED
      BY <3>3
  <2>3. ASSUME \A i, j \in Emitting(f, types) : i = j, NEW k \in Emitting(g, types), NEW l \in Emitting(g, types)
        PROVE  k = l
    <3>1. p[k] = p[l] /\ k \in DOMAIN g /\ l \in DOMAIN g
      BY <2>1, <2>3
    <3> QED
      BY <1>4, <3>1
  <2> QED
    BY <2>1, <2>2, <2>3
<1>8. SameControl(f, g)
  <2>1. \A k \in DOMAIN g : \E i \in DOMAIN f : f[i] = g[k]
    BY <1>6
  <2> QED
    BY <1>5, <1>7, <2>1 DEF SameControl
<1>9. Begun(g) = Begun(f)
  <2>1. ASSUME NEW m \in Begun(g) PROVE m \in Begun(f)
    <3>1. PICK k \in DOMAIN g : g[k].op = "spawn" /\ g[k].agent = m
      BY DEF Begun
    <3> QED
      BY <1>6, <3>1 DEF Begun
  <2>2. ASSUME NEW m \in Begun(f) PROVE m \in Begun(g)
    <3>1. PICK i \in DOMAIN f : f[i].op = "spawn" /\ f[i].agent = m
      BY DEF Begun
    <3>2. PICK k \in DOMAIN g : g[k] = f[i]
      BY <1>5
    <3> QED
      BY <3>1, <3>2 DEF Begun
  <2> QED
    BY <2>1, <2>2
<1> QED
  BY <1>1, <1>5, <1>6, <1>8, <1>9 DEF g

LEMMA ControlKept ==
    ASSUME NEW r \in Runs, NEW e \in Events, NEW b, NEW d, Handled(r, e, b),
           d.run \in Runs, d.fx \in Seq(Effects), SameControl(b.fx, d.fx),
           d.run.stage = b.run.stage, d.run.resolved = b.run.resolved, d.run.timer = b.run.timer,
           \/ d.run.status = b.run.status
           \/ d.run.status \in {"blocked", "failed"} /\ e.type # "run.result"
    PROVE  Staged(r, e, d) /\ Timed(r, e, d)
<1>1. /\ Staged(r, e, b) /\ Timed(r, e, b) /\ b.run \in Runs
      /\ b.run.resolved \in BOOLEAN /\ d.run.resolved \in BOOLEAN
  BY RunFields DEF Handled
<1> DEFINE led == Emitting(b.fx, Big)
           leads == Emitting(d.fx, Big)
           stepped == Emitting(b.fx, {"stage.advanced"})
           steps == Emitting(d.fx, {"stage.advanced"})
<1>2. /\ (\A i, j \in led : i = j) => \A i, j \in leads : i = j
      /\ leads = {} <=> led = {}
      /\ stepped = {} => steps = {}
  BY DEF SameControl
<1>3. Staged(r, e, d)
  <2>1. \A i, j \in leads : i = j
    BY <1>1, <1>2 DEF Staged
  <2> HIDE DEF leads, led, steps, stepped
  <2>2. /\ led # {} => \/ e.type = "run.started"
                       \/ r.stage # 0 /\ ~r.resolved /\ b.run.resolved
        /\ b.run.resolved /\ led = {} => r.resolved
        /\ e.type \in {"run.started", "stage.entered"} => ~b.run.resolved
        /\ r.resolved /\ ~b.run.resolved => e.type \in {"run.started", "stage.entered"}
        /\ e.type = "run.started" => b.run.stage = 0
        /\ r.stage = 0 /\ b.run.stage # 0 => e.type \in {"stage.entered", "stage.advanced"}
        /\ b.run.stage = 0 => stepped = {} /\ (r.stage = 0 \/ e.type = "run.started")
        /\ e.type = "run.result" => b.run.status \in Terminal
        /\ b.run.status = "new" => r.status = "new" /\ e.type # "run.started"
    BY <1>1 DEF Staged, led, stepped
  <2>3. /\ e.type = "run.result" => d.run.status \in Terminal
        /\ d.run.status = "new" => r.status = "new" /\ e.type # "run.started"
    BY <2>2
  <2>4. /\ leads # {} => \/ e.type = "run.started"
                         \/ r.stage # 0 /\ ~r.resolved /\ d.run.resolved
        /\ d.run.resolved /\ leads = {} => r.resolved
        /\ e.type \in {"run.started", "stage.entered"} => ~d.run.resolved
        /\ r.resolved /\ ~d.run.resolved => e.type \in {"run.started", "stage.entered"}
    BY <1>2, <2>2
  <2>5. /\ e.type = "run.started" => d.run.stage = 0
        /\ r.stage = 0 /\ d.run.stage # 0 => e.type \in {"stage.entered", "stage.advanced"}
        /\ d.run.stage = 0 => steps = {} /\ (r.stage = 0 \/ e.type = "run.started")
    BY <1>2, <2>2
  <2> QED
    BY <2>1, <2>3, <2>4, <2>5 DEF Staged, leads, steps
<1>4. Timed(r, e, d)
  <2>1. \A i \in DOMAIN b.fx : b.fx[i].op = "set_timer" => \E k \in DOMAIN d.fx : d.fx[k] = b.fx[i]
    BY DEF SameControl
  <2>2. \A k \in DOMAIN d.fx : d.fx[k].op = "cancel_timer" => \E i \in DOMAIN b.fx : b.fx[i] = d.fx[k]
    BY DEF SameControl
  <2> QED
    BY <1>1, <2>1, <2>2 DEF Timed
<1> QED
  BY <1>3, <1>4

(* The watchers, behind a handler.                                         *)
LEMMA ThenWoken ==
    ASSUME NEW r \in Runs, NEW e \in Events, NEW b, Handled(r, e, b),
           NEW w, NEW A, NEW B, Woken(b.run, w, A, B)
    PROVE  Handled(r, e, Result(w.run, b.fx \o w.fx))
<1> DEFINE d == Result(w.run, b.fx \o w.fx)
<1>1. /\ b.run \in Runs /\ b.fx \in Seq(Effects)
      /\ w.run \in Runs /\ w.fx \in Seq(Effects) /\ Trails(w.fx)
      /\ Begun(w.fx) = IF Halted(b.run) THEN {} ELSE A
  <2>1. Begun(w.fx) = IF Halted(b.run) THEN {} ELSE A
    BY BegunIs DEF Woken
  <2> QED
    BY <2>1 DEF Handled, Woken, SameButMembers, Trails
<1>2. /\ w.run.stage = b.run.stage /\ w.run.resolved = b.run.resolved
      /\ w.run.timer = b.run.timer /\ w.run.status = b.run.status
  BY <1>1, SameFields DEF Woken
<1>3. b.fx \o w.fx \in Seq(Effects) /\ SameControl(b.fx, b.fx \o w.fx)
  BY <1>1, TrailKeeps
<1>4. Begun(b.fx \o w.fx) = Begun(b.fx) \cup Begun(w.fx)
  BY <1>1, JoinedBegun
<1>5. d.run = w.run /\ d.fx = b.fx \o w.fx
  BY DEF Result
<1> HIDE DEF d
<1>6. Staged(r, e, d) /\ Timed(r, e, d)
  BY <1>1, <1>2, <1>3, <1>5, ControlKept
<1>7. ASSUME NEW m \in Names PROVE Moved(r, e, d, m)
  <2> DEFINE x == r.members[m]
             c == b.run.members[m]
             y == d.run.members[m]
             woke == m \in A /\ ~Halted(b.run)
  <2>1. /\ y.state = IF m \in A THEN "idle" ELSE c.state
        /\ y.open = IF woke THEN TRUE ELSE c.open
        /\ m \notin B /\ (m \notin A \/ ~Halted(b.run)) => y.pending = c.pending
        /\ m \in A => Takes(c) /\ c.state # "failed"
        /\ m \in B \ A => ~Takes(c)
    BY <1>5 DEF Woken
  <2>2. m \in Begun(d.fx) <=> m \in Begun(b.fx) \/ woke
    BY <1>1, <1>4, <1>5
  <2>3. Moved(r, e, b, m)
    BY DEF Handled
  <2>4. c \in MemberRecords /\ x \in MemberRecords
    BY <1>1, RunFields
  <2>5. c.open \in BOOLEAN /\ x.open \in BOOLEAN
    BY <2>4 DEF MemberRecords
  <2>6. d.run.status = "running" => b.run.status = "running" /\ ~Halted(b.run)
    BY <1>2, <1>5 DEF Halted
  <2> HIDE DEF x, c, y, woke
  <2>7. /\ y.open <=> c.open \/ woke
        /\ y.state \in {"thinking", "tool"} => y.state = c.state /\ m \notin A
    BY <2>1, <2>5
  <2>8. /\ c.open => x.open \/ m \in Begun(b.fx) \/ (e.type = "agent.activated" /\ e.actor = m)
        /\ x.open /\ ~c.open => e.type \in Ends /\ e.actor = m
        /\ e.type \in Ends /\ e.actor = m /\ c.open => m \in Begun(b.fx)
        /\ e.type = "agent.activated" /\ e.actor = m => c.open
        /\ m \in Begun(b.fx) => c.open
    BY <2>3 DEF Moved, x, c
  <2>9. /\ c.state = "thinking" =>
             \/ e.type = "agent.activated" /\ e.actor = m
             \/ x.state = "thinking" /\ ~(e.type \in {"llm.response", "tool.call"} /\ e.actor = m)
             \/ x.state = "tool" /\ e.type = "tool.call_completed" /\ e.actor = m
        /\ c.state = "tool" =>
             \/ e.type = "tool.call" /\ e.actor = m
             \/ x.state = "tool" /\ ~(e.type = "tool.call_denied" /\ e.actor = m)
        /\ Sane(x, e, m) /\ c.state \in {"thinking", "tool"} => c.open
    BY <2>3 DEF Moved, x, c
  <2>10. /\ b.run.status = "running" /\ ~Disturbs(r, e) /\ Sane(x, e, m)
         /\ r.status = "running" => Served(x)
         => Served(c)
    BY <2>3 DEF Moved, x, c
  <2>11. ASSUME d.run.status = "running", ~Disturbs(r, e), Sane(x, e, m), r.status = "running" => Served(x)
         PROVE  Served(y)
    <3>1. Served(c) /\ ~Halted(b.run)
      BY <2>6, <2>10, <2>11
    <3>2. CASE m \in A
      BY <2>7, <3>1, <3>2 DEF Served, woke
    <3>3. CASE m \in B \ A
      <4>1. Busy(c) \/ c.state = "waiting"
        BY <2>1, <3>3 DEF Takes
      <4>2. c.open \/ c.state = "waiting"
        BY <2>9, <2>11, <4>1 DEF Busy
      <4> QED
        BY <2>1, <2>7, <3>3, <4>2 DEF Served
    <3>4. CASE m \notin A /\ m \notin B
      <4>1. y.pending = c.pending /\ y.state = c.state /\ (c.open => y.open)
        BY <2>1, <2>7, <3>4
      <4> QED
        BY <3>1, <4>1 DEF Served
    <3> QED
      BY <3>2, <3>3, <3>4
  <2>12. /\ y.open => x.open \/ m \in Begun(d.fx) \/ (e.type = "agent.activated" /\ e.actor = m)
         /\ x.open /\ ~y.open => e.type \in Ends /\ e.actor = m
         /\ e.type \in Ends /\ e.actor = m /\ y.open => m \in Begun(d.fx)
         /\ e.type = "agent.activated" /\ e.actor = m => y.open
         /\ m \in Begun(d.fx) => y.open
    BY <2>2, <2>7, <2>8
  <2>13. /\ y.state = "thinking" =>
              \/ e.type = "agent.activated" /\ e.actor = m
              \/ x.state = "thinking" /\ ~(e.type \in {"llm.response", "tool.call"} /\ e.actor = m)
              \/ x.state = "tool" /\ e.type = "tool.call_completed" /\ e.actor = m
         /\ y.state = "tool" =>
              \/ e.type = "tool.call" /\ e.actor = m
              \/ x.state = "tool" /\ ~(e.type = "tool.call_denied" /\ e.actor = m)
         /\ Sane(x, e, m) /\ y.state \in {"thinking", "tool"} => y.open
    BY <2>7, <2>9
  <2> QED
    BY <2>11, <2>12, <2>13 DEF Moved, x, y
<1>8. Handled(r, e, d)
  BY <1>1, <1>3, <1>5, <1>6, <1>7 DEF Handled
<1> QED
  BY <1>8 DEF d

LEMMA HandledLike ==
    ASSUME NEW r \in Runs, NEW e \in Events, NEW b, NEW d, Handled(r, e, b),
           d.run \in Runs, d.fx \in Seq(Effects), SameControl(b.fx, d.fx), Begun(d.fx) = Begun(b.fx),
           d.run.members = b.run.members,
           d.run.stage = b.run.stage, d.run.resolved = b.run.resolved, d.run.timer = b.run.timer,
           \/ d.run.status = b.run.status
           \/ d.run.status \in {"blocked", "failed"} /\ e.type # "run.result"
    PROVE  Handled(r, e, d)
<1>1. Staged(r, e, d) /\ Timed(r, e, d)
  BY ControlKept
<1>2. ASSUME NEW m \in Names PROVE Moved(r, e, d, m)
  <2>1. Moved(r, e, b, m)
    BY DEF Handled
  <2>2. d.run.status = "running" => b.run.status = "running"
    OBVIOUS
  <2> QED
    BY <2>1, <2>2 DEF Moved
<1> QED
  BY <1>1, <1>2 DEF Handled

LEMMA NothingTrails ==
    ASSUME NEW q \in Seq(Effects)
    PROVE  <<>> \o q = q
OBVIOUS

LEMMA Concludes ==
    ASSUME NEW r \in Runs, NEW e \in Events, NEW seen, Handled(r, e, seen)
    PROVE  Handled(r, e, Concluded(seen, e))
<1> DEFINE f == Emit(Derived(e, "run.quiescent", 0))
           p == seen.fx
           q == p \o <<f>>
           s == [seen.run EXCEPT !.quiescent = TRUE]
           d == Concluded(seen, e)
<1>1. seen.run \in Runs /\ p \in Seq(Effects)
  BY DEF Handled
<1>2. f \in Effects /\ f.op = "emit" /\ f.event.type = "run.quiescent"
  <2>1. "run.quiescent" \in MadeTypes /\ 0 \in Nat /\ "run.quiescent" \notin {"stage.entered", "stage.advanced"}
    BY DEF MadeTypes
  <2> QED
    BY <2>1, MadeEvents DEF Emit, Derived
<1>3. /\ s \in Runs /\ s.members = seen.run.members /\ s.stage = seen.run.stage
      /\ s.resolved = seen.run.resolved /\ s.timer = seen.run.timer /\ s.status = seen.run.status
  BY <1>1 DEF Runs
<1>4. d = IF Quiet(seen.run, e, seen.fx) THEN Result(s, OrderEffects(q)) ELSE Result(seen.run, OrderEffects(p))
  BY DEF Concluded
<1> HIDE DEF f, d, s
<1>5. /\ <<f>> \in Seq(Effects) /\ Trails(<<f>>) /\ Begun(<<f>>) = {}
  <2>1. <<f>> \in Seq(Effects) /\ \A i \in DOMAIN <<f>> : <<f>>[i] = f
    BY <1>2
  <2>2. \A i \in DOMAIN <<f>> : <<f>>[i].op # "spawn"
    BY <1>2, <2>1
  <2> HIDE DEF p, q
  <2> QED
    BY <1>2, <2>1, <2>2, NoneBegun DEF Trails
<1>6. q \in Seq(Effects) /\ SameControl(p, q) /\ Begun(q) = Begun(p)
  <2>1. q \in Seq(Effects) /\ SameControl(p, q)
    BY <1>1, <1>5, TrailKeeps
  <2>2. Begun(q) = Begun(p) \cup Begun(<<f>>)
    BY <1>1, <1>5, JoinedBegun
  <2> QED
    BY <1>5, <2>1, <2>2
<1> HIDE DEF p, q
<1>7. CASE Quiet(seen.run, e, seen.fx)
  <2>1. d.run = s /\ d.fx = OrderEffects(q)
    BY <1>4, <1>7 DEF Result
  <2>2. /\ OrderEffects(q) \in Seq(Effects) /\ SameControl(q, OrderEffects(q))
        /\ Begun(OrderEffects(q)) = Begun(q)
    BY <1>6, OrderKeeps
  <2>3. SameControl(p, OrderEffects(q))
    <3>1. /\ (\A i, j \in Emitting(p, Big) : i = j) => \A i, j \in Emitting(OrderEffects(q), Big) : i = j
          /\ Emitting(OrderEffects(q), Big) = {} <=> Emitting(p, Big) = {}
          /\ Emitting(p, {"stage.advanced"}) = {} => Emitting(OrderEffects(q), {"stage.advanced"}) = {}
      BY <1>6, <2>2 DEF SameControl
    <3>2. ASSUME NEW i \in DOMAIN p, p[i].op = "set_timer"
          PROVE  \E k \in DOMAIN OrderEffects(q) : OrderEffects(q)[k] = p[i]
      <4>1. PICK l \in DOMAIN q : q[l] = p[i]
        BY <1>6, <3>2 DEF SameControl
      <4> QED
        BY <2>2, <3>2, <4>1 DEF SameControl
    <3>3. ASSUME NEW k \in DOMAIN OrderEffects(q), OrderEffects(q)[k].op = "cancel_timer"
          PROVE  \E i \in DOMAIN p : p[i] = OrderEffects(q)[k]
      <4>1. PICK l \in DOMAIN q : q[l] = OrderEffects(q)[k]
        BY <2>2, <3>3 DEF SameControl
      <4> QED
        BY <1>6, <3>3, <4>1 DEF SameControl
    <3> QED
      BY <3>1, <3>2, <3>3 DEF SameControl
  <2> QED
    BY <1>3, <1>6, <2>1, <2>2, <2>3, HandledLike DEF p, d
<1>8. CASE ~Quiet(seen.run, e, seen.fx)
  <2>1. d.run = seen.run /\ d.fx = OrderEffects(p)
    BY <1>4, <1>8 DEF Result
  <2>2. /\ OrderEffects(p) \in Seq(Effects) /\ SameControl(p, OrderEffects(p))
        /\ Begun(OrderEffects(p)) = Begun(p)
    BY <1>1, OrderKeeps DEF p
  <2> QED
    BY <1>1, <2>1, <2>2, HandledLike DEF p, d
<1> QED
  BY <1>7, <1>8

(* The two handlers that let the watchers decide: they stop the run, or    *)
(* ask about it, when none of them does anything.                          *)
LEMMA WokenFirst ==
    ASSUME NEW r \in Runs, NEW e \in Events, NEW s, Handled(r, e, Result(s, <<>>))
    PROVE  /\ Handled(r, e, Wake(s, e)) /\ Wake(s, e).run \in Runs /\ Wake(s, e).fx \in Seq(Effects)
           /\ Wake(s, e).fx = <<>> => Wake(s, e) = Result(Wake(s, e).run, <<>>)
<1> DEFINE w == Wake(s, e)
           b == Result(s, <<>>)
<1>1. s \in Runs /\ b.run = s /\ b.fx = <<>>
  BY DEF Handled, Result
<1>2. PICK A, B : Woken(s, w, A, B)
  BY <1>1, WakeFacts
<1>3. w = Result(w.run, w.fx)
  BY DEF Wake, Notify, Rouse, Result
<1> HIDE DEF w, b
<1>4. w.run \in Runs /\ w.fx \in Seq(Effects)
  BY <1>2 DEF Woken, SameButMembers
<1>5. Handled(r, e, Result(w.run, b.fx \o w.fx))
  BY <1>1, <1>2, ThenWoken DEF b
<1>6. b.fx \o w.fx = w.fx
  BY <1>1, <1>4, NothingTrails
<1>7. Handled(r, e, w)
  BY <1>3, <1>5, <1>6
<1> QED
  BY <1>3, <1>4, <1>7 DEF w

LEMMA Quiesces ==
    ASSUME NEW r \in Runs, NEW e \in Events, e.type = "run.quiescent"
    PROVE  Handled(r, e, RunQuiescent(r, e))
<1> DEFINE w == Wake(r, e)
           d == RunQuiescent(r, e)
           s == [w.run EXCEPT !.status = "failed"]
<1>1. Handled(r, e, Result(r, <<>>))
  BY OffFacts
<1>2. /\ Handled(r, e, w) /\ w.run \in Runs /\ w.fx \in Seq(Effects)
  BY <1>1, WokenFirst
<1>3. d = IF w.fx = <<>> THEN Result(s, <<>>) ELSE w
  BY DEF RunQuiescent, Diagnosed
<1>4. /\ s \in Runs /\ s.members = w.run.members /\ s.stage = w.run.stage
      /\ s.resolved = w.run.resolved /\ s.timer = w.run.timer /\ s.status = "failed"
  BY <1>2 DEF Runs, Statuses, Terminal
<1> HIDE DEF w, d, s
<1>5. CASE w.fx = <<>>
  <2>1. d.run = s /\ d.fx = w.fx
    BY <1>3, <1>5 DEF Result
  <2>2. SameControl(w.fx, w.fx)
    BY DEF SameControl
  <2> QED
    BY <1>2, <1>4, <2>1, <2>2, HandledLike DEF d
<1>6. CASE w.fx # <<>>
  BY <1>2, <1>3, <1>6 DEF d
<1> QED
  BY <1>5, <1>6

LEMMA TimesOut ==
    ASSUME NEW r \in Runs, NEW e \in Events, e.type = "stage.timeout", Escalates(r)
    PROVE  Handled(r, e, StageTimeout(r, e))
<1> DEFINE off == [r EXCEPT !.timer = 0]
           w == Wake(off, e)
           b == BlockAndAsk(w.run, "stage_timeout", e)
           d == StageTimeout(r, e)
<1>1. /\ off \in Runs /\ off.members = r.members /\ off.stage = r.stage /\ off.resolved = r.resolved
      /\ off.timer \in {0, r.timer} /\ off.status = r.status
  BY DEF Runs
<1>2. d = IF w.fx # <<>> THEN w ELSE b
  <2>1. r.stage \in StageNumbers \cup {0} /\ r.stage # 0 => Stages[r.stage].onTimeout \notin {"fail", "advance"}
    BY RunFields DEF Escalates
  <2>2. ~r.resolved
    BY DEF Escalates
  <2>3. (IF r.stage = 0 THEN "escalate" ELSE Stages[r.stage].onTimeout) \notin {"fail", "advance"}
    BY <2>1 DEF Escalates
  <2> HIDE DEF off, w, b
  <2>4. d = Escalated(Wake(off, e), e)
    BY <2>2, <2>3 DEF StageTimeout, off
  <2> QED
    BY <2>4 DEF Escalated, w, b
<1> HIDE DEF off
<1>3. Handled(r, e, Result(off, <<>>))
  BY <1>1, OffFacts
<1>4. Handled(r, e, w) /\ w.run \in Runs /\ w.fx \in Seq(Effects)
  BY <1>3, WokenFirst
<1> HIDE DEF w, d
<1>5. CASE w.fx = <<>>
  <2>1. /\ b.run \in Runs /\ b.run.status = "blocked" /\ b.run.members = w.run.members
        /\ b.run.stage = w.run.stage /\ b.run.resolved = w.run.resolved /\ b.run.timer = w.run.timer
        /\ b.fx \in Seq(Effects)
    BY <1>4, BlockFacts
  <2>2. PICK f \in Effects : b.fx = <<f>> /\ f.op = "ask"
    BY <1>4, BlockFacts
  <2> HIDE DEF b
  <2>3. \A i \in DOMAIN b.fx : b.fx[i].op = "ask"
    BY <2>2
  <2>4. Trails(b.fx) /\ Begun(b.fx) = {}
    BY <2>3, NoneBegun DEF Trails
  <2>5. SameControl(w.fx, w.fx \o b.fx)
    BY <1>4, <2>1, <2>4, TrailKeeps
  <2>6. w.fx \o b.fx = b.fx
    BY <1>5, <2>1, NothingTrails
  <2>7. Begun(w.fx) = {}
    BY <1>5, NoneBegun
  <2>8. Handled(r, e, b)
    BY <1>4, <2>1, <2>4, <2>5, <2>6, <2>7, HandledLike
  <2> QED
    BY <1>2, <1>5, <2>8 DEF d
<1>6. CASE w.fx # <<>>
  BY <1>2, <1>4, <1>6 DEF d
<1> QED
  BY <1>5, <1>6

LEMMA Applied ==
    ASSUME NEW r \in Runs, NEW e \in Events, e.type = "run.started" => r = NewRun
    PROVE  Handled(r, e, Apply(r, e))
<1>1. CASE e.type = "run.started"
  <2>1. Apply(r, e) = Started(r, e)
    BY <1>1 DEF Apply
  <2>2. Handled(r, e, Started(r, e))
    BY <1>1, RunStarts
  <2> QED
    BY <2>1, <2>2
<1>2. CASE e.type = "run.prompt"
  <2>1. Apply(r, e) = Injected(r, e)
    BY <1>2 DEF Apply
  <2>2. Handled(r, e, Injected(r, e))
    BY <1>2, PromptArrives
  <2> QED
    BY <2>1, <2>2
<1>3. CASE e.type = "run.paused"
  <2>1. Apply(r, e) = Result([r EXCEPT !.status = "paused"], <<>>)
    BY <1>3 DEF Apply
  <2>2. Handled(r, e, Result([r EXCEPT !.status = "paused"], <<>>))
    <3>1. "paused" \in Statuses \ {"new", "running"}
      BY DEF Statuses, Terminal
    <3> QED
      BY <1>3, <3>1, StatusChanges
  <2> QED
    BY <2>1, <2>2
<1>4. CASE e.type = "run.unpaused"
  <2>1. Apply(r, e) = Unpaused(r, e)
    BY <1>4 DEF Apply
  <2>2. Handled(r, e, Unpaused(r, e))
    BY <1>4, RunResumes
  <2> QED
    BY <2>1, <2>2
<1>5. CASE e.type = "run.cancelled"
  <2>1. Apply(r, e) = Result([r EXCEPT !.status = "cancelled"], <<>>)
    BY <1>5 DEF Apply
  <2>2. Handled(r, e, Result([r EXCEPT !.status = "cancelled"], <<>>))
    <3>1. "cancelled" \in Statuses \ {"new", "running"}
      BY DEF Statuses, Terminal
    <3> QED
      BY <1>5, <3>1, StatusChanges
  <2> QED
    BY <2>1, <2>2
<1>6. CASE e.type = "run.expired"
  <2>1. Apply(r, e) = Result([r EXCEPT !.status = "expired"], <<>>)
    BY <1>6 DEF Apply
  <2>2. Handled(r, e, Result([r EXCEPT !.status = "expired"], <<>>))
    <3>1. "expired" \in Statuses \ {"new", "running"}
      BY DEF Statuses, Terminal
    <3> QED
      BY <1>6, <3>1, StatusChanges
  <2> QED
    BY <2>1, <2>2
<1>7. CASE e.type = "run.result"
  <2>1. Apply(r, e) = Result([r EXCEPT !.status = "succeeded"], <<>>)
    BY <1>7 DEF Apply
  <2>2. Handled(r, e, Result([r EXCEPT !.status = "succeeded"], <<>>))
    <3>1. "succeeded" \in Statuses \ {"new", "running"}
      BY DEF Statuses, Terminal
    <3> QED
      BY <1>7, <3>1, StatusChanges
  <2> QED
    BY <2>1, <2>2
<1>8. CASE e.type = "run.quiescent"
  <2>1. Apply(r, e) = RunQuiescent(r, e)
    BY <1>8 DEF Apply
  <2>2. Handled(r, e, RunQuiescent(r, e))
    BY <1>8, Quiesces
  <2> QED
    BY <2>1, <2>2
<1>9. CASE e.type = "stage.entered"
  <2>1. Apply(r, e) = StageEntered(r, e)
    BY <1>9 DEF Apply
  <2>2. Handled(r, e, StageEntered(r, e))
    BY <1>9, StageBegins
  <2> QED
    BY <2>1, <2>2
<1>10. CASE e.type = "stage.submitted"
  <2>1. Apply(r, e) = StageSubmitted(r, e)
    BY <1>10 DEF Apply
  <2>2. Handled(r, e, StageSubmitted(r, e))
    BY <1>10, WorkSubmitted
  <2> QED
    BY <2>1, <2>2
<1>11. CASE e.type = "stage.advanced"
  <2>1. Apply(r, e) = Result([r EXCEPT !.stage = e.n], <<>>)
    BY <1>11 DEF Apply
  <2>2. Handled(r, e, Result([r EXCEPT !.stage = e.n], <<>>))
    BY <1>11, StageNamed
  <2> QED
    BY <2>1, <2>2
<1>12. CASE e.type = "stage.timeout"
  <2>1. Apply(r, e) = StageTimeout(r, e)
    BY <1>12 DEF Apply
  <2>2. Handled(r, e, StageTimeout(r, e))
    BY <1>12, TimedOut, TimesOut
  <2> QED
    BY <2>1, <2>2
<1>13. CASE e.type = "agent.activated"
  <2>1. Apply(r, e) = Activated(r, e)
    BY <1>13 DEF Apply
  <2>2. Handled(r, e, Activated(r, e))
    BY <1>13, TurnStarts
  <2> QED
    BY <2>1, <2>2
<1>14. CASE e.type = "agent.turn_done"
  <2>1. Apply(r, e) = TurnDone(r, e)
    BY <1>14 DEF Apply
  <2>2. Handled(r, e, TurnDone(r, e))
    BY <1>14, TurnEnds
  <2> QED
    BY <2>1, <2>2
<1>15. CASE e.type = "agent.failed"
  <2>1. Apply(r, e) = AgentFailed(r, e)
    BY <1>15 DEF Apply
  <2>2. Handled(r, e, AgentFailed(r, e))
    BY <1>15, TurnFails
  <2> QED
    BY <2>1, <2>2
<1>16. CASE e.type = "tool.call"
  <2>1. Apply(r, e) = ToolCalled(r, e)
    BY <1>16 DEF Apply
  <2>2. Handled(r, e, ToolCalled(r, e))
    BY <1>16, ToolStarts
  <2> QED
    BY <2>1, <2>2
<1>17. CASE e.type = "tool.call_completed"
  <2>1. Apply(r, e) = ToolCompleted(r, e)
    BY <1>17 DEF Apply
  <2>2. Handled(r, e, ToolCompleted(r, e))
    BY <1>17, ToolEnds
  <2> QED
    BY <2>1, <2>2
<1>18. CASE e.type = "tool.call_denied"
  <2>1. Apply(r, e) = ToolDenied(r, e)
    BY <1>18 DEF Apply
  <2>2. Handled(r, e, ToolDenied(r, e))
    BY <1>18, ToolRefused
  <2> QED
    BY <2>1, <2>2
<1>19. CASE e.type = "llm.response"
  <2>1. Apply(r, e) = Charged(r, e)
    BY <1>19 DEF Apply
  <2>2. Handled(r, e, Charged(r, e))
    BY <1>19, TurnPaid
  <2> QED
    BY <2>1, <2>2
<1>20. CASE e.type = "budget.exceeded"
  <2>1. Apply(r, e) = BlockAndAsk(r, "budget", e)
    BY <1>20 DEF Apply
  <2>2. Handled(r, e, BlockAndAsk(r, "budget", e))
    BY <1>20, BudgetAsks
  <2> QED
    BY <2>1, <2>2
<1>21. CASE e.type = "inbox.created"
  <2>1. Apply(r, e) = Result([r EXCEPT !.inbox[e.n].listed = TRUE], <<>>)
    BY <1>21 DEF Apply
  <2>2. Handled(r, e, Result([r EXCEPT !.inbox[e.n].listed = TRUE], <<>>))
    BY <1>21, InboxListed
  <2> QED
    BY <2>1, <2>2
<1>22. CASE e.type = "inbox.replied"
  <2>1. Apply(r, e) = InboxReplied(r, e)
    BY <1>22 DEF Apply
  <2>2. Handled(r, e, InboxReplied(r, e))
    BY <1>22, AnswerArrives
  <2> QED
    BY <2>1, <2>2
<1>23. CASE e.type = "timer.tick"
  <2>1. Apply(r, e) = TimerTick(r, e)
    BY <1>23 DEF Apply
  <2>2. Handled(r, e, TimerTick(r, e))
    BY <1>23, TimerTicks
  <2> QED
    BY <2>1, <2>2
<1>24. e.type \in EventTypes
  BY DEF Events
<1> QED
  BY <1>1, <1>2, <1>3, <1>4, <1>5, <1>6, <1>7, <1>8, <1>9, <1>10, <1>11, <1>12,
     <1>13, <1>14, <1>15, <1>16, <1>17, <1>18, <1>19, <1>20, <1>21, <1>22, <1>23, <1>24 DEF EventTypes, HumanTypes, TurnTypes, ToolTypes, MadeTypes

(* The watchers see what the event did.                                    *)
LEMMA Seen ==
    ASSUME NEW r \in Runs, NEW e \in Events, e.type = "run.started" => r = NewRun
    PROVE  Handled(r, e, Watched(Apply(r, e), e))
<1> DEFINE b == Apply(r, e)
           seen == Watched(b, e)
<1>1. Handled(r, e, b)
  BY Applied
<1> HIDE DEF b
<1>2. ASSUME e.source = "runtime" \/ e.type \in WatcherDispatched PROVE Handled(r, e, seen)
  BY <1>1, <1>2 DEF Watched
<1>3. ASSUME ~(e.source = "runtime" \/ e.type \in WatcherDispatched) PROVE Handled(r, e, seen)
  <2> DEFINE w == Wake(b.run, e)
  <2>1. b.run \in Runs
    BY <1>1 DEF Handled
  <2>2. PICK A, B : Woken(b.run, w, A, B)
    BY <2>1, WakeFacts
  <2>3. seen = Result(w.run, b.fx \o w.fx)
    BY <1>3 DEF Watched
  <2> HIDE DEF w, seen
  <2>4. Handled(r, e, seen)
    BY <1>1, <2>2, <2>3, ThenWoken
  <2> QED
    BY <2>4 DEF seen
<1>4. Handled(r, e, seen)
  BY <1>2, <1>3
<1> QED
  BY <1>4 DEF b

(* What Decide does to a run that goes on.                                 *)
LEMMA Decided ==
    ASSUME NEW r \in Runs, NEW e \in Events, e.type = "run.started" => r = NewRun, r.status \notin Terminal
    PROVE  Handled(r, e, Decide(r, e))
<1> DEFINE seen == Watched(Apply(r, e), e)
<1>1. Handled(r, e, seen)
  BY Seen
<1> HIDE DEF seen
<1>2. Handled(r, e, Concluded(seen, e))
  BY <1>1, Concludes
<1> QED
  BY <1>2 DEF Decide, seen

-----------------------------------------------------------------------------
(* What the effects of a decision append to the log.                       *)

Turning == {"llm.response", "tool.call", "stage.submitted"}

Follows(q, i, types) == i + 1 \in DOMAIN q /\ q[i + 1].type \in types /\ q[i + 1].actor = q[i].actor

(* What must come behind an event, and right before one.                   *)
Linked(q) ==
    \A i \in DOMAIN q :
       /\ q[i].type = "agent.activated" =>
             /\ Follows(q, i, {"llm.response", "tool.call"})
             /\ \E j \in DOMAIN q : j > i /\ q[j].type \in Ends /\ q[j].actor = q[i].actor
       /\ q[i].type = "tool.call" => Follows(q, i, {"tool.call_denied"})

Preceded(q) ==
    \A i \in DOMAIN q \ {1} :
       /\ q[i].type \in Turning => q[i].actor = q[i - 1].actor
       /\ q[i].type = "llm.response" => q[i - 1].type \in {"agent.activated", "tool.call_denied"}
       /\ q[i].type = "tool.call" => q[i - 1].type = "agent.activated"
       /\ q[i].type = "stage.submitted" => q[i - 1].type = "llm.response"
       /\ q[i].type = "tool.call_denied" /\ i + 1 \in DOMAIN q /\ q[i + 1].type = "llm.response" =>
             q[i - 1].type = "tool.call" /\ q[i].actor = q[i - 1].actor

Whole(q) ==
    q # <<>> => /\ q[1].type \notin Turning
                /\ ~(q[1].type = "tool.call_denied" /\ 2 \in DOMAIN q /\ q[2].type = "llm.response")

(* The effects that append something, whatever comes of them.              *)
Speaking == {"emit", "spawn", "ask"} \cup (IF "lost" \in CallKinds THEN {} ELSE {"call"})

(* The events that set their member to work whatever state it is in.  As   *)
(* long as no tool of a watcher is denied they are of a turn, and a denial *)
(* is the last of its turn.                                                *)
Starting == {"agent.activated", "agent.failed", "tool.call", "stage.submitted", "tool.call_denied"}

Asking(q) ==
    \A i \in DOMAIN q :
        q[i].type = "tool.call_denied" => Follows(q, i, {"llm.response"}) /\ Follows(q, i + 1, {"agent.turn_done"})

NoneDenied == CallKinds \subseteq {"done", "lost"}

Asks(f, q) ==
    NoneDenied =>
        /\ Asking(q)
        /\ \A j \in DOMAIN q : q[j].type \in Starting => f.op = "spawn" /\ q[j].actor = f.agent

(* What one effect appends.                                                *)
Block(f, q) ==
    /\ q \in Seq(Events) /\ Linked(q) /\ Preceded(q) /\ Whole(q)
    /\ \A j \in DOMAIN q :
          /\ q[j].type \notin HumanTypes \cup {"run.started", "timer.tick"}
          /\ q[j].type \in MadeTypes => f.op = "emit" /\ q[j] = f.event /\ j = 1
    /\ f.op = "emit" => q = <<f.event>>
    /\ f.op = "spawn" => \E j \in DOMAIN q : q[j].type \in Ends /\ q[j].actor = f.agent
    /\ \A j, k \in DOMAIN q :
          q[j].type \in Ends /\ q[k].type \in Ends => j = k /\ f.op = "spawn" /\ q[j].actor = f.agent
    /\ f.op \in Speaking => q # <<>>
    /\ Asks(f, q)

LEMMA EventFacts ==
    ASSUME NEW type \in EventTypes, NEW actor \in Names \cup {Nobody}, NEW source \in {"human", "runtime", "agent"},
           NEW depth \in Depths, NEW n \in Nat,
           type \in TurnTypes \cup ToolTypes => actor \in Names,
           type \in {"stage.entered", "stage.advanced", "timer.tick"} => n \in StageNumbers,
           type \in {"agent.activated", "agent.failed", "timer.tick", "inbox.created"} \cup MadeTypes
              <=> source = "runtime"
    PROVE  /\ Event(type, actor, source, depth, n) \in Events
           /\ Event(type, actor, source, depth, n).type = type
           /\ Event(type, actor, source, depth, n).actor = actor
           /\ Event(type, actor, source, depth, n).source = source
<1>1. 0 \in Ids
  BY ActorsAssumption DEF Ids
<1> QED
  BY <1>1 DEF Event, Events, EventOK

LEMMA SingleBlock ==
    ASSUME NEW f, NEW e \in Events, f.op \notin {"emit", "spawn"},
           e.type \in {"inbox.created", "tool.call_completed", "tool.call_denied"},
           e.type = "tool.call_denied" => ~NoneDenied
    PROVE  Block(f, <<e>>)
<1> DEFINE q == <<e>>
<1>1. q \in Seq(Events) /\ DOMAIN q = {1} /\ q[1] = e /\ q # <<>>
  OBVIOUS
<1> HIDE DEF q
<1>2. Linked(q) /\ Preceded(q) /\ Whole(q)
  BY <1>1 DEF Linked, Preceded, Whole, Turning
<1>3. e.type \notin HumanTypes \cup {"run.started", "timer.tick"} \cup MadeTypes \cup Ends
  BY DEF HumanTypes, MadeTypes, Ends
<1>4. Asks(f, q)
  BY <1>1 DEF Asks, Asking, Starting
<1> QED
  BY <1>1, <1>2, <1>3, <1>4 DEF Block, q

LEMMA EmptyBlock ==
    ASSUME NEW f, \/ f.op \in {"set_timer", "cancel_timer"}
                  \/ f.op = "call" /\ "lost" \in CallKinds
    PROVE  Block(f, <<>>)
<1>1. DOMAIN <<>> = {} /\ <<>> \in Seq(Events)
  OBVIOUS
<1>2. f.op \notin Speaking
  BY DEF Speaking
<1> QED
  BY <1>1, <1>2 DEF Block, Linked, Preceded, Whole, Asks, Asking

LEMMA EmittedBlock ==
    ASSUME NEW f \in Effects, f.op = "emit"
    PROVE  Block(f, <<f.event>>)
<1> DEFINE e == f.event
           q == <<e>>
<1>1. e \in Events /\ e.type \in MadeTypes
  BY DEF Effects, Made
<1> HIDE DEF e
<1>2. q \in Seq(Events) /\ DOMAIN q = {1} /\ q[1] = e /\ q # <<>>
  BY <1>1
<1> HIDE DEF q
<1>3. Linked(q) /\ Preceded(q) /\ Whole(q)
  BY <1>1, <1>2 DEF Linked, Preceded, Whole, Turning, MadeTypes
<1>4. e.type \notin HumanTypes \cup {"run.started", "timer.tick"} \cup Ends
  BY <1>1 DEF HumanTypes, MadeTypes, Ends
<1>5. Asks(f, q)
  BY <1>1, <1>2 DEF Asks, Asking, Starting, MadeTypes
<1> QED
  BY <1>2, <1>3, <1>4, <1>5 DEF Block, q, e

LEMMA TurnBlock ==
    ASSUME NEW f \in Effects, f.op = "spawn", NEW kind \in TurnKinds, NEW cost \in Costs
    PROVE  Block(f, Turn(f, kind, cost))
<1> DEFINE began == Event("agent.activated", f.agent, "runtime", f.depth, 0)
           paid == Event("llm.response", f.agent, "agent", f.depth, cost)
           done == Event("agent.turn_done", f.agent, "agent", f.depth, 0)
           said == Event("stage.submitted", f.agent, "agent", f.depth, f.stage)
           called == Event("tool.call", f.agent, "agent", f.depth, 0)
           refused == Event("tool.call_denied", f.agent, "agent", f.depth, 0)
           asked == [refused EXCEPT !.to = "ask"]
           failed == Event("agent.failed", f.agent, "runtime", f.depth, 0)
           q == Turn(f, kind, cost)
<1>1. /\ f.agent \in Names /\ f.depth \in Depths /\ f.stage \in Nat /\ cost \in Nat
      /\ kind \in {"submits", "idles", "asks", "fails"}
  BY StageFacts, ActorsAssumption DEF Effects, StageNumbers
<1>2. began \in Events /\ began.type = "agent.activated" /\ began.actor = f.agent
  <2>1. "agent.activated" \in EventTypes /\ "agent.activated" \in TurnTypes \cup ToolTypes /\ "agent.activated" \notin MadeTypes
    BY DEF EventTypes, TurnTypes, ToolTypes, MadeTypes
  <2>2. "runtime" \in {"human", "runtime", "agent"} /\ 0 \in Nat /\ "agent.activated" \notin {"stage.entered", "stage.advanced", "timer.tick"}
    OBVIOUS
  <2> QED
    BY <1>1, <2>1, <2>2, EventFacts
<1>3. paid \in Events /\ paid.type = "llm.response" /\ paid.actor = f.agent
  <2>1. "llm.response" \in EventTypes /\ "llm.response" \in TurnTypes \cup ToolTypes /\ "llm.response" \notin MadeTypes
    BY DEF EventTypes, TurnTypes, ToolTypes, MadeTypes
  <2>2. "agent" \in {"human", "runtime", "agent"} /\ 0 \in Nat /\ "llm.response" \notin {"stage.entered", "stage.advanced", "timer.tick"}
    OBVIOUS
  <2> QED
    BY <1>1, <2>1, <2>2, EventFacts
<1>4. done \in Events /\ done.type = "agent.turn_done" /\ done.actor = f.agent
  <2>1. "agent.turn_done" \in EventTypes /\ "agent.turn_done" \in TurnTypes \cup ToolTypes /\ "agent.turn_done" \notin MadeTypes
    BY DEF EventTypes, TurnTypes, ToolTypes, MadeTypes
  <2>2. "agent" \in {"human", "runtime", "agent"} /\ 0 \in Nat /\ "agent.turn_done" \notin {"stage.entered", "stage.advanced", "timer.tick"}
    OBVIOUS
  <2> QED
    BY <1>1, <2>1, <2>2, EventFacts
<1>5. said \in Events /\ said.type = "stage.submitted" /\ said.actor = f.agent
  <2>1. "stage.submitted" \in EventTypes /\ "stage.submitted" \in TurnTypes \cup ToolTypes /\ "stage.submitted" \notin MadeTypes
    BY DEF EventTypes, TurnTypes, ToolTypes, MadeTypes
  <2>2. "agent" \in {"human", "runtime", "agent"} /\ 0 \in Nat /\ "stage.submitted" \notin {"stage.entered", "stage.advanced", "timer.tick"}
    OBVIOUS
  <2> QED
    BY <1>1, <2>1, <2>2, EventFacts
<1>6. called \in Events /\ called.type = "tool.call" /\ called.actor = f.agent
  <2>1. "tool.call" \in EventTypes /\ "tool.call" \in TurnTypes \cup ToolTypes /\ "tool.call" \notin MadeTypes
    BY DEF EventTypes, TurnTypes, ToolTypes, MadeTypes
  <2>2. "agent" \in {"human", "runtime", "agent"} /\ 0 \in Nat /\ "tool.call" \notin {"stage.entered", "stage.advanced", "timer.tick"}
    OBVIOUS
  <2> QED
    BY <1>1, <2>1, <2>2, EventFacts
<1>7. refused \in Events /\ refused.type = "tool.call_denied" /\ refused.actor = f.agent
  <2>1. "tool.call_denied" \in EventTypes /\ "tool.call_denied" \in TurnTypes \cup ToolTypes /\ "tool.call_denied" \notin MadeTypes
    BY DEF EventTypes, TurnTypes, ToolTypes, MadeTypes
  <2>2. "agent" \in {"human", "runtime", "agent"} /\ 0 \in Nat /\ "tool.call_denied" \notin {"stage.entered", "stage.advanced", "timer.tick"}
    OBVIOUS
  <2> QED
    BY <1>1, <2>1, <2>2, EventFacts
<1>8. failed \in Events /\ failed.type = "agent.failed" /\ failed.actor = f.agent
  <2>1. "agent.failed" \in EventTypes /\ "agent.failed" \in TurnTypes \cup ToolTypes /\ "agent.failed" \notin MadeTypes
    BY DEF EventTypes, TurnTypes, ToolTypes, MadeTypes
  <2>2. "runtime" \in {"human", "runtime", "agent"} /\ 0 \in Nat /\ "agent.failed" \notin {"stage.entered", "stage.advanced", "timer.tick"}
    OBVIOUS
  <2> QED
    BY <1>1, <2>1, <2>2, EventFacts
<1>9. asked \in Events /\ asked.type = "tool.call_denied" /\ asked.actor = f.agent /\ asked.to = "ask"
  <2> HIDE DEF refused
  <2> QED
    BY <1>7 DEF Events, EventOK
<1>10. CASE kind = "submits"
  <2>1. q = <<began, paid, said, done>>
    BY <1>10 DEF Turn
  <2>2. /\ began \in Events /\ began.type = "agent.activated" /\ began.actor = f.agent
        /\ paid \in Events /\ paid.type = "llm.response" /\ paid.actor = f.agent
        /\ said \in Events /\ said.type = "stage.submitted" /\ said.actor = f.agent
        /\ done \in Events /\ done.type = "agent.turn_done" /\ done.actor = f.agent
    BY <1>2, <1>3, <1>4, <1>5
  <2> HIDE DEF q, began, paid, said, done
  <2>3. /\ q \in Seq(Events) /\ DOMAIN q = 1 .. 4 /\ q # <<>>
        /\ q[1] = began /\ q[2] = paid /\ q[3] = said /\ q[4] = done
    BY <2>1, <2>2
  <2>4. /\ \A i \in DOMAIN q : q[i].actor = f.agent
        /\ q[1].type = "agent.activated" /\ q[2].type = "llm.response" /\ q[3].type = "stage.submitted" /\ q[4].type = "agent.turn_done"
    BY <2>2, <2>3
  <2>5. \A i \in DOMAIN q : q[i].type \in TurnTypes \cup ToolTypes
    BY <2>3, <2>4 DEF TurnTypes, ToolTypes
  <2>6. Linked(q)
    BY <2>2, <2>3, <2>4 DEF Linked, Follows, Ends
  <2>7. Preceded(q) /\ Whole(q)
    BY <2>3, <2>4 DEF Preceded, Whole, Turning
  <2>8. /\ 4 \in DOMAIN q /\ q[4].type \in Ends /\ q[4].actor = f.agent
        /\ \A j \in DOMAIN q : q[j].type \in Ends => j = 4
    BY <2>3, <2>4 DEF Ends
  <2>9. \A j \in DOMAIN q : q[j].type \notin HumanTypes \cup {"run.started", "timer.tick"} \cup MadeTypes
    BY <2>5 DEF TurnTypes, ToolTypes, HumanTypes, MadeTypes
  <2>10. Asks(f, q)
    BY <2>3, <2>4 DEF Asks, Asking, Follows
  <2>11. Block(f, q)
    BY <2>3, <2>6, <2>7, <2>8, <2>9, <2>10 DEF Block
  <2> QED
    BY <2>11 DEF q
<1>11. CASE kind = "idles"
  <2>1. q = <<began, paid, done>>
    BY <1>11 DEF Turn
  <2>2. /\ began \in Events /\ began.type = "agent.activated" /\ began.actor = f.agent
        /\ paid \in Events /\ paid.type = "llm.response" /\ paid.actor = f.agent
        /\ done \in Events /\ done.type = "agent.turn_done" /\ done.actor = f.agent
    BY <1>2, <1>3, <1>4
  <2> HIDE DEF q, began, paid, done
  <2>3. /\ q \in Seq(Events) /\ DOMAIN q = 1 .. 3 /\ q # <<>>
        /\ q[1] = began /\ q[2] = paid /\ q[3] = done
    BY <2>1, <2>2
  <2>4. /\ \A i \in DOMAIN q : q[i].actor = f.agent
        /\ q[1].type = "agent.activated" /\ q[2].type = "llm.response" /\ q[3].type = "agent.turn_done"
    BY <2>2, <2>3
  <2>5. \A i \in DOMAIN q : q[i].type \in TurnTypes \cup ToolTypes
    BY <2>3, <2>4 DEF TurnTypes, ToolTypes
  <2>6. Linked(q)
    BY <2>2, <2>3, <2>4 DEF Linked, Follows, Ends
  <2>7. Preceded(q) /\ Whole(q)
    BY <2>3, <2>4 DEF Preceded, Whole, Turning
  <2>8. /\ 3 \in DOMAIN q /\ q[3].type \in Ends /\ q[3].actor = f.agent
        /\ \A j \in DOMAIN q : q[j].type \in Ends => j = 3
    BY <2>3, <2>4 DEF Ends
  <2>9. \A j \in DOMAIN q : q[j].type \notin HumanTypes \cup {"run.started", "timer.tick"} \cup MadeTypes
    BY <2>5 DEF TurnTypes, ToolTypes, HumanTypes, MadeTypes
  <2>10. Asks(f, q)
    BY <2>3, <2>4 DEF Asks, Asking, Follows
  <2>11. Block(f, q)
    BY <2>3, <2>6, <2>7, <2>8, <2>9, <2>10 DEF Block
  <2> QED
    BY <2>11 DEF q
<1>12. CASE kind = "asks"
  <2>1. q = <<began, called, asked, paid, done>>
    BY <1>12 DEF Turn
  <2>2. /\ began \in Events /\ began.type = "agent.activated" /\ began.actor = f.agent
        /\ called \in Events /\ called.type = "tool.call" /\ called.actor = f.agent
        /\ asked \in Events /\ asked.type = "tool.call_denied" /\ asked.actor = f.agent /\ asked.to = "ask"
        /\ paid \in Events /\ paid.type = "llm.response" /\ paid.actor = f.agent
        /\ done \in Events /\ done.type = "agent.turn_done" /\ done.actor = f.agent
    BY <1>2, <1>3, <1>4, <1>6, <1>9
  <2> HIDE DEF q, began, called, asked, paid, done
  <2>3. /\ q \in Seq(Events) /\ DOMAIN q = 1 .. 5 /\ q # <<>>
        /\ q[1] = began /\ q[2] = called /\ q[3] = asked /\ q[4] = paid /\ q[5] = done
    BY <2>1, <2>2
  <2>4. /\ \A i \in DOMAIN q : q[i].actor = f.agent
        /\ q[1].type = "agent.activated" /\ q[2].type = "tool.call" /\ q[3].type = "tool.call_denied" /\ q[4].type = "llm.response" /\ q[5].type = "agent.turn_done"
    BY <2>2, <2>3
  <2>5. \A i \in DOMAIN q : q[i].type \in TurnTypes \cup ToolTypes
    BY <2>3, <2>4 DEF TurnTypes, ToolTypes
  <2>6. Linked(q)
    BY <2>2, <2>3, <2>4 DEF Linked, Follows, Ends
  <2>7. Preceded(q) /\ Whole(q)
    BY <2>3, <2>4 DEF Preceded, Whole, Turning
  <2>8. /\ 5 \in DOMAIN q /\ q[5].type \in Ends /\ q[5].actor = f.agent
        /\ \A j \in DOMAIN q : q[j].type \in Ends => j = 5
    BY <2>3, <2>4 DEF Ends
  <2>9. \A j \in DOMAIN q : q[j].type \notin HumanTypes \cup {"run.started", "timer.tick"} \cup MadeTypes
    BY <2>5 DEF TurnTypes, ToolTypes, HumanTypes, MadeTypes
  <2>10. Asks(f, q)
    BY <2>3, <2>4 DEF Asks, Asking, Follows
  <2>11. Block(f, q)
    BY <2>3, <2>6, <2>7, <2>8, <2>9, <2>10 DEF Block
  <2> QED
    BY <2>11 DEF q
<1>13. CASE kind = "fails"
  <2>1. q = <<failed>>
    BY <1>13 DEF Turn
  <2>2. /\ failed \in Events /\ failed.type = "agent.failed" /\ failed.actor = f.agent
    BY <1>8
  <2> HIDE DEF q, failed
  <2>3. /\ q \in Seq(Events) /\ DOMAIN q = 1 .. 1 /\ q # <<>>
        /\ q[1] = failed
    BY <2>1, <2>2
  <2>4. /\ \A i \in DOMAIN q : q[i].actor = f.agent
        /\ q[1].type = "agent.failed"
    BY <2>2, <2>3
  <2>5. \A i \in DOMAIN q : q[i].type \in TurnTypes \cup ToolTypes
    BY <2>3, <2>4 DEF TurnTypes, ToolTypes
  <2>6. Linked(q)
    BY <2>2, <2>3, <2>4 DEF Linked, Follows, Ends
  <2>7. Preceded(q) /\ Whole(q)
    BY <2>3, <2>4 DEF Preceded, Whole, Turning
  <2>8. /\ 1 \in DOMAIN q /\ q[1].type \in Ends /\ q[1].actor = f.agent
        /\ \A j \in DOMAIN q : q[j].type \in Ends => j = 1
    BY <2>3, <2>4 DEF Ends
  <2>9. \A j \in DOMAIN q : q[j].type \notin HumanTypes \cup {"run.started", "timer.tick"} \cup MadeTypes
    BY <2>5 DEF TurnTypes, ToolTypes, HumanTypes, MadeTypes
  <2>10. Asks(f, q)
    BY <2>3, <2>4 DEF Asks, Asking, Follows
  <2>11. Block(f, q)
    BY <2>3, <2>6, <2>7, <2>8, <2>9, <2>10 DEF Block
  <2> QED
    BY <2>11 DEF q
<1> QED
  BY <1>1, <1>10, <1>11, <1>12, <1>13

LEMMA ProducedBlock ==
    ASSUME NEW f \in Effects, NEW outcome \in Outcomes(f)
    PROVE  Block(f, Produced(f, outcome))
<1>1. CASE f.op = "emit"
  <2>1. Produced(f, outcome) = <<f.event>>
    BY <1>1 DEF Produced
  <2> QED
    BY <1>1, <2>1, EmittedBlock
<1>2. CASE f.op = "spawn"
  <2>1. Produced(f, outcome) = Turn(f, outcome[1], outcome[2])
    BY <1>2 DEF Produced
  <2>2. outcome[1] \in TurnKinds /\ outcome[2] \in Costs
    BY <1>2 DEF Outcomes
  <2> QED
    BY <1>2, <2>1, <2>2, TurnBlock
<1>3. CASE f.op = "ask"
  <2> DEFINE e == Event("inbox.created", f.agent, "runtime", f.depth, f.id)
  <2>1. Produced(f, outcome) = <<e>>
    BY <1>3 DEF Produced
  <2>2. f.agent \in Names \cup {Nobody} /\ f.depth \in Depths /\ f.id \in Nat
    BY <1>3 DEF Effects
  <2>3. "inbox.created" \in EventTypes /\ "inbox.created" \notin TurnTypes \cup ToolTypes
    BY DEF EventTypes, TurnTypes, ToolTypes
  <2>4. e \in Events /\ e.type = "inbox.created"
    BY <2>2, <2>3, EventFacts
  <2> HIDE DEF e
  <2> QED
    BY <1>3, <2>1, <2>4, SingleBlock
<1>4. CASE f.op = "call"
  <2> DEFINE c == Event("tool.call_completed", f.agent, "agent", f.depth, 0)
             x == Event("tool.call_denied", f.agent, "agent", f.depth, 0)
             y == [x EXCEPT !.to = outcome[1]]
  <2>1. f.agent \in Names /\ f.depth \in Depths /\ outcome[1] \in CallKinds
    BY <1>4 DEF Effects, Outcomes
  <2>2. Produced(f, outcome) = CASE outcome[1] = "done" -> <<c>> [] outcome[1] = "lost" -> <<>> [] OTHER -> <<y>>
    BY <1>4 DEF Produced, Called
  <2>3. /\ "tool.call_completed" \in EventTypes /\ "tool.call_completed" \notin MadeTypes
        /\ "tool.call_denied" \in EventTypes /\ "tool.call_denied" \notin MadeTypes
    BY DEF EventTypes, ToolTypes, MadeTypes
  <2>4. c \in Events /\ c.type = "tool.call_completed"
    BY <2>1, <2>3, EventFacts
  <2>5. x \in Events /\ x.type = "tool.call_denied"
    BY <2>1, <2>3, EventFacts
  <2> HIDE DEF c, x
  <2>6. y \in Events /\ y.type = "tool.call_denied"
    BY <2>1, <2>5 DEF Events, EventOK
  <2> HIDE DEF y
  <2>7. Block(f, <<c>>) /\ (outcome[1] \notin {"done", "lost"} => Block(f, <<y>>))
    BY <1>4, <2>1, <2>4, <2>6, SingleBlock DEF NoneDenied
  <2>8. outcome[1] = "lost" => Block(f, <<>>)
    BY <1>4, <2>1, EmptyBlock
  <2> QED
    BY <2>2, <2>7, <2>8
<1>5. CASE f.op \in {"set_timer", "cancel_timer"}
  <2>1. Produced(f, outcome) = <<>>
    BY <1>5 DEF Produced
  <2> QED
    BY <1>5, <2>1, EmptyBlock
<1>6. f.op \in {"emit", "spawn", "ask", "call", "set_timer", "cancel_timer"}
  BY DEF Effects
<1> QED
  BY <1>1, <1>2, <1>3, <1>4, <1>5, <1>6

(* What a decision appends.                                                *)
Queueing(q, types) == {i \in DOMAIN q : q[i].type \in types}

(* No member is given two turns.                                           *)
Lone(fx) ==
    \A i, j \in DOMAIN fx :
        fx[i].op = "spawn" /\ fx[j].op = "spawn" /\ fx[i].agent = fx[j].agent => i = j

EndsOnce(q) == \A k, l \in Queueing(q, Ends) : q[k].actor = q[l].actor => k = l

Asked(fx, new) ==
    NoneDenied => Asking(new) /\ \A k \in Queueing(new, Starting) : new[k].actor \in Begun(fx)

Adds(fx, new) ==
    /\ new \in Seq(Events) /\ Linked(new) /\ Preceded(new) /\ Whole(new)
    /\ \A k \in DOMAIN new : new[k].type \notin HumanTypes \cup {"run.started", "timer.tick"}
    /\ (\A i, j \in Emitting(fx, Big) : i = j) => \A k, l \in Queueing(new, Big) : k = l
    /\ Queueing(new, Big) = {} <=> Emitting(fx, Big) = {}
    /\ Emitting(fx, {"stage.advanced"}) = {} => Queueing(new, {"stage.advanced"}) = {}
    /\ \A m \in Begun(fx) : \E k \in DOMAIN new : new[k].type \in Ends /\ new[k].actor = m
    /\ \A k \in Queueing(new, Ends) : new[k].actor \in Begun(fx)
    /\ Lone(fx) => EndsOnce(new)
    /\ new = <<>> => \A i \in DOMAIN fx : fx[i].op \notin Speaking
    /\ Asked(fx, new)

LEMMA Appended ==
    ASSUME NEW fx \in Seq(Effects), NEW results \in Results(fx)
    PROVE  Adds(fx, FlattenSeq([i \in DOMAIN fx |-> Produced(fx[i], results[i])]))
<1> DEFINE ss == [i \in DOMAIN fx |-> Produced(fx[i], results[i])]
           new == FlattenSeq(ss)
<1>1. DOMAIN fx = 1 .. Len(fx) /\ Len(fx) \in Nat /\ \A i \in 1 .. Len(fx) : fx[i] \in Effects
  OBVIOUS
<1>2. \A i \in 1 .. Len(fx) : ss[i] = Produced(fx[i], results[i])
  BY <1>1
<1>3. ASSUME NEW i \in 1 .. Len(fx) PROVE Block(fx[i], ss[i])
  <2>1. results[i] \in Outcomes(fx[i]) /\ fx[i] \in Effects
    BY <1>1 DEF Results
  <2>2. Block(fx[i], Produced(fx[i], results[i]))
    BY <2>1, ProducedBlock
  <2> QED
    BY <1>2, <2>2
<1>4. \A i \in 1 .. Len(fx) : ss[i] \in Seq(Events)
  BY <1>3 DEF Block
<1>5. ss \in Seq(Seq(Events)) /\ Len(ss) = Len(fx)
  <2>1. ss = [i \in 1 .. Len(fx) |-> ss[i]]
    BY <1>1
  <2> HIDE DEF ss
  <2>2. ss \in [1 .. Len(fx) -> Seq(Events)]
    BY <1>4, <2>1
  <2> QED
    BY <1>1, <2>2
<1> HIDE DEF ss
<1>6. new \in Seq(Events) /\ \E at : Laid(new, ss, at)
  BY <1>5, FlatIsLaid
<1>7. PICK at : Laid(new, ss, at)
  BY <1>6
<1> HIDE DEF new
<1> DEFINE N == Len(fx)
           B(i) == 1 .. Len(ss[i])
<1>8. /\ \A i \in 1 .. N : at[i] \in Nat
      /\ \A k \in DOMAIN new : \E i \in 1 .. N : \E j \in B(i) : k = at[i] + j
      /\ \A i \in 1 .. N : \A j \in B(i) : at[i] + j \in DOMAIN new /\ new[at[i] + j] = ss[i][j]
      /\ \A i, l \in 1 .. N : \A j \in B(i), k \in B(l) : at[i] + j = at[l] + k => i = l /\ j = k
      /\ \A i \in 1 .. N : DOMAIN ss[i] = B(i) /\ Len(ss[i]) \in Nat
      /\ DOMAIN new = 1 .. Len(new)
  <2>1. DOMAIN new = 1 .. Len(new) /\ \A i \in 1 .. N : DOMAIN ss[i] = B(i) /\ Len(ss[i]) \in Nat
    BY <1>4, <1>6
  <2> QED
    BY <1>5, <1>7, <2>1 DEF Laid
<1> HIDE DEF N
<1>9. \A i \in 1 .. N : Block(fx[i], ss[i])
  BY <1>3 DEF N
(* The block in which an element stands.                                   *)
<1>10. ASSUME NEW k \in DOMAIN new
       PROVE  \E i \in 1 .. N : \E j \in B(i) : k = at[i] + j /\ new[k] = ss[i][j]
  <2>1. PICK i \in 1 .. N : \E j \in B(i) : k = at[i] + j
    BY <1>8
  <2>2. PICK j \in B(i) : k = at[i] + j
    BY <2>1
  <2> QED
    BY <1>8, <2>2
<1>11. Linked(new)
  <2> SUFFICES ASSUME NEW k \in DOMAIN new
               PROVE  /\ new[k].type = "agent.activated" =>
                            /\ Follows(new, k, {"llm.response", "tool.call"})
                            /\ \E h \in DOMAIN new : h > k /\ new[h].type \in Ends /\ new[h].actor = new[k].actor
                      /\ new[k].type = "tool.call" => Follows(new, k, {"tool.call_denied"})
    BY DEF Linked
  <2>1. PICK i \in 1 .. N : \E j \in B(i) : k = at[i] + j /\ new[k] = ss[i][j]
    BY <1>10
  <2>2. PICK j \in B(i) : k = at[i] + j /\ new[k] = ss[i][j]
    BY <2>1
  <2>3. \A h \in B(i) : at[i] + h \in DOMAIN new /\ new[at[i] + h] = ss[i][h]
    BY <1>8
  <2>4. at[i] \in Nat /\ j \in Nat /\ k + 1 = at[i] + (j + 1)
    <3>1. at[i] \in Nat /\ Len(ss[i]) \in Nat
      BY <1>8
    <3>2. j \in Nat
      BY <3>1
    <3>3. k = at[i] + j /\ k \in Nat
      BY <1>6, <2>2
    <3> QED
      BY <3>1, <3>2, <3>3
  <2>5. ASSUME NEW types, Follows(ss[i], j, types) PROVE Follows(new, k, types)
    <3>1. j + 1 \in B(i)
      BY <1>8, <2>5 DEF Follows
    <3>2. k + 1 \in DOMAIN new /\ new[k + 1] = ss[i][j + 1]
      BY <2>3, <2>4, <3>1
    <3> QED
      BY <2>2, <2>5, <3>2 DEF Follows
  <2>6. /\ ss[i][j].type = "agent.activated" =>
             /\ Follows(ss[i], j, {"llm.response", "tool.call"})
             /\ \E h \in DOMAIN ss[i] : h > j /\ ss[i][h].type \in Ends /\ ss[i][h].actor = ss[i][j].actor
        /\ ss[i][j].type = "tool.call" => Follows(ss[i], j, {"tool.call_denied"})
    <3>1. Linked(ss[i]) /\ j \in DOMAIN ss[i]
      BY <1>8, <1>9 DEF Block
    <3> QED
      BY <3>1 DEF Linked
  <2>7. ASSUME new[k].type = "agent.activated"
        PROVE  \E h \in DOMAIN new : h > k /\ new[h].type \in Ends /\ new[h].actor = new[k].actor
    <3>1. PICK h \in B(i) : h > j /\ ss[i][h].type \in Ends /\ ss[i][h].actor = ss[i][j].actor
      BY <1>8, <2>2, <2>6, <2>7
    <3>2. at[i] + h \in DOMAIN new /\ new[at[i] + h] = ss[i][h] /\ at[i] + h > k
      BY <2>2, <2>3, <2>4, <3>1
    <3> QED
      BY <2>2, <3>1, <3>2
  <2> QED
    BY <2>2, <2>5, <2>6, <2>7
(* An element in the midst of a turn is in the midst of its block.         *)
<1>12. ASSUME NEW k \in DOMAIN new, NEW i \in 1 .. N, NEW j \in B(i), k = at[i] + j, j # 1
       PROVE  /\ k - 1 \in DOMAIN new /\ new[k - 1] = ss[i][j - 1] /\ new[k] = ss[i][j] /\ k # 1
              /\ j - 1 \in B(i)
  <2>1. at[i] \in Nat /\ Len(ss[i]) \in Nat /\ j \in 1 .. Len(ss[i])
    BY <1>8
  <2>2. j - 1 \in B(i) /\ k - 1 = at[i] + (j - 1) /\ k # 1
    BY <1>12, <2>1
  <2>3. /\ at[i] + (j - 1) \in DOMAIN new /\ new[at[i] + (j - 1)] = ss[i][j - 1]
        /\ new[at[i] + j] = ss[i][j]
    BY <1>8, <2>2
  <2> QED
    BY <1>12, <2>2, <2>3
<1>13. \A i \in 1 .. N : 1 \in B(i) => ss[i][1].type \notin Turning
  <2>1. ASSUME NEW i \in 1 .. N, 1 \in B(i) PROVE ss[i][1].type \notin Turning
    <3>1. Whole(ss[i]) /\ ss[i] # <<>>
      BY <1>8, <1>9, <2>1 DEF Block
    <3> QED
      BY <3>1 DEF Whole
  <2> QED
    BY <2>1
(* A denied call before a response is in the block of the response.        *)
<1>14. ASSUME NEW k \in DOMAIN new, NEW i \in 1 .. N, NEW j \in B(i), k = at[i] + j,
              k + 1 \in DOMAIN new, new[k + 1].type = "llm.response"
       PROVE  j + 1 \in B(i) /\ new[k + 1] = ss[i][j + 1]
  <2>1. PICK l \in 1 .. N : \E h \in B(l) : k + 1 = at[l] + h /\ new[k + 1] = ss[l][h]
    BY <1>10, <1>14
  <2>2. PICK h \in B(l) : k + 1 = at[l] + h /\ new[k + 1] = ss[l][h]
    BY <2>1
  <2>3. h # 1
    BY <1>13, <1>14, <2>2 DEF Turning
  <2>4. h - 1 \in B(l) /\ k = at[l] + (h - 1) /\ h \in Nat
    <3>1. at[l] \in Nat /\ Len(ss[l]) \in Nat /\ h \in 1 .. Len(ss[l])
      BY <1>8
    <3>2. k \in Nat /\ k + 1 = at[l] + h
      BY <1>6, <2>2
    <3> QED
      BY <2>3, <3>1, <3>2
  <2>5. i = l /\ j = h - 1
    <3> DEFINE g == h - 1
    <3>1. g \in B(l) /\ at[i] + j = at[l] + g
      BY <1>14, <2>4
    <3>2. \A c, d \in 1 .. N : \A x \in B(c), y \in B(d) : at[c] + x = at[d] + y => c = d /\ x = y
      BY <1>8
    <3> HIDE DEF g
    <3>3. i = l /\ j = g
      BY <3>1, <3>2
    <3> QED
      BY <3>3 DEF g
  <2> QED
    BY <2>2, <2>4, <2>5
<1>15. Preceded(new) /\ Whole(new)
  <2>1. ASSUME NEW k \in DOMAIN new
        PROVE  /\ k # 1 /\ new[k].type \in Turning => new[k].actor = new[k - 1].actor
               /\ k # 1 /\ new[k].type = "llm.response" => new[k - 1].type \in {"agent.activated", "tool.call_denied"}
               /\ k # 1 /\ new[k].type = "tool.call" => new[k - 1].type = "agent.activated"
               /\ k # 1 /\ new[k].type = "stage.submitted" => new[k - 1].type = "llm.response"
               /\ new[k].type = "tool.call_denied" /\ k + 1 \in DOMAIN new /\ new[k + 1].type = "llm.response" =>
                    k # 1 /\ new[k - 1].type = "tool.call" /\ new[k].actor = new[k - 1].actor
               /\ k = 1 => new[k].type \notin Turning
    <3>1. PICK i \in 1 .. N : \E j \in B(i) : k = at[i] + j /\ new[k] = ss[i][j]
      BY <1>10
    <3>2. PICK j \in B(i) : k = at[i] + j /\ new[k] = ss[i][j]
      BY <3>1
    <3>3. Preceded(ss[i]) /\ Whole(ss[i]) /\ DOMAIN ss[i] = B(i) /\ at[i] \in Nat
      BY <1>8, <1>9 DEF Block
    <3>4. CASE j = 1
      <4>1. ss[i][1].type \notin Turning /\ ss[i] # <<>>
        BY <1>8, <1>13, <3>2, <3>4
      <4>2. ~(ss[i][1].type = "tool.call_denied" /\ k + 1 \in DOMAIN new /\ new[k + 1].type = "llm.response")
        <5>1. ~(ss[i][1].type = "tool.call_denied" /\ 2 \in DOMAIN ss[i] /\ ss[i][2].type = "llm.response")
          BY <3>3, <4>1 DEF Whole
        <5>2. k + 1 \in DOMAIN new /\ new[k + 1].type = "llm.response" => 2 \in B(i) /\ new[k + 1] = ss[i][2]
          BY <1>14, <3>2, <3>4
        <5> QED
          BY <3>3, <5>1, <5>2
      <4> QED
        BY <3>2, <3>4, <4>1, <4>2 DEF Turning
    <3>5. CASE j # 1
      <4>1. /\ k - 1 \in DOMAIN new /\ new[k - 1] = ss[i][j - 1] /\ new[k] = ss[i][j] /\ k # 1
            /\ j \in DOMAIN ss[i] \ {1}
        BY <1>12, <3>2, <3>3, <3>5
      <4>2. new[k].type = "tool.call_denied" /\ k + 1 \in DOMAIN new /\ new[k + 1].type = "llm.response" =>
               j + 1 \in DOMAIN ss[i] /\ ss[i][j + 1].type = "llm.response"
        BY <1>14, <3>2, <3>3
      <4> QED
        BY <3>3, <4>1, <4>2 DEF Preceded
    <3> QED
      BY <3>4, <3>5
  <2>2. Preceded(new)
    BY <2>1 DEF Preceded
  <2>3. Whole(new)
    <3>1. ASSUME new # <<>>
          PROVE  /\ new[1].type \notin Turning
                 /\ ~(new[1].type = "tool.call_denied" /\ 2 \in DOMAIN new /\ new[2].type = "llm.response")
      <4>1. 1 \in DOMAIN new /\ 1 + 1 = 2
        BY <1>6, <1>8, <3>1
      <4> QED
        BY <2>1, <4>1
    <3> QED
      BY <3>1 DEF Whole
  <2> QED
    BY <2>2, <2>3
<1>16. ASSUME NEW k \in DOMAIN new
       PROVE  /\ new[k].type \notin HumanTypes \cup {"run.started", "timer.tick"}
              /\ new[k].type \in MadeTypes =>
                    \E i \in 1 .. N : 1 \in B(i) /\ k = at[i] + 1 /\ fx[i].op = "emit" /\ new[k] = fx[i].event
  <2>1. PICK i \in 1 .. N : \E j \in B(i) : k = at[i] + j /\ new[k] = ss[i][j]
    BY <1>10
  <2>2. PICK j \in B(i) : k = at[i] + j /\ new[k] = ss[i][j]
    BY <2>1
  <2>3. /\ ss[i][j].type \notin HumanTypes \cup {"run.started", "timer.tick"}
        /\ ss[i][j].type \in MadeTypes => fx[i].op = "emit" /\ ss[i][j] = fx[i].event /\ j = 1
    BY <1>8, <1>9 DEF Block
  <2> QED
    BY <2>2, <2>3
<1>17. ASSUME NEW types, types \subseteq MadeTypes
       PROVE  /\ (\A i, j \in Emitting(fx, types) : i = j) => \A k, l \in Queueing(new, types) : k = l
              /\ Queueing(new, types) = {} <=> Emitting(fx, types) = {}
  <2>1. ASSUME NEW k \in Queueing(new, types)
        PROVE  \E i \in Emitting(fx, types) : k = at[i] + 1
    <3>1. k \in DOMAIN new /\ new[k].type \in types
      BY DEF Queueing
    <3>2. PICK i \in 1 .. N : k = at[i] + 1 /\ fx[i].op = "emit" /\ new[k] = fx[i].event
      BY <1>16, <1>17, <3>1
    <3> QED
      BY <1>1, <3>1, <3>2 DEF Emitting, N
  <2>2. ASSUME NEW i \in Emitting(fx, types) PROVE Queueing(new, types) # {}
    <3>1. i \in 1 .. N /\ fx[i].op = "emit" /\ fx[i].event.type \in types
      BY <1>1 DEF Emitting, N
    <3>2. ss[i] = <<fx[i].event>>
      BY <1>9, <3>1 DEF Block
    <3>3. 1 \in B(i) /\ ss[i][1] = fx[i].event
      BY <3>2
    <3>4. at[i] + 1 \in DOMAIN new /\ new[at[i] + 1] = fx[i].event
      BY <1>8, <3>1, <3>3
    <3>5. at[i] + 1 \in Queueing(new, types)
      BY <3>1, <3>4 DEF Queueing
    <3> QED
      BY <3>5
  <2> QED
    BY <2>1, <2>2
<1>18. Big \subseteq MadeTypes /\ {"stage.advanced"} \subseteq MadeTypes
  BY DEF Big, MadeTypes
<1>19. ASSUME NEW m \in Begun(fx) PROVE \E k \in DOMAIN new : new[k].type \in Ends /\ new[k].actor = m
  <2>1. PICK i \in DOMAIN fx : fx[i].op = "spawn" /\ fx[i].agent = m
    BY DEF Begun
  <2>2. i \in 1 .. N
    BY <1>1 DEF N
  <2>3. PICK j \in DOMAIN ss[i] : ss[i][j].type \in Ends /\ ss[i][j].actor = m
    BY <1>9, <2>1, <2>2 DEF Block
  <2>4. at[i] + j \in DOMAIN new /\ new[at[i] + j] = ss[i][j]
    BY <1>8, <2>2, <2>3
  <2> QED
    BY <2>3, <2>4
<1>20. ASSUME new = <<>>, NEW i \in DOMAIN fx PROVE fx[i].op \notin Speaking
  <2>1. i \in 1 .. N /\ DOMAIN new = {}
    BY <1>1, <1>20 DEF N
  <2>2. B(i) = {}
    BY <1>8, <2>1
  <2>3. ss[i] = <<>>
    BY <1>4, <1>8, <2>1, <2>2 DEF N
  <2> QED
    BY <1>9, <2>1, <2>3 DEF Block
<1>21. ASSUME NEW k \in Queueing(new, Ends)
       PROVE  \E i \in DOMAIN fx : \E j \in DOMAIN ss[i] :
                 k = at[i] + j /\ ss[i][j].type \in Ends /\ fx[i].op = "spawn" /\ new[k].actor = fx[i].agent
  <2>1. k \in DOMAIN new /\ new[k].type \in Ends
    BY DEF Queueing
  <2>2. PICK i \in 1 .. N : \E j \in B(i) : k = at[i] + j /\ new[k] = ss[i][j]
    BY <1>10, <2>1
  <2>3. PICK j \in B(i) : k = at[i] + j /\ new[k] = ss[i][j]
    BY <2>2
  <2>4. j \in DOMAIN ss[i] /\ ss[i][j].type \in Ends
    BY <1>8, <2>1, <2>3
  <2>5. fx[i].op = "spawn" /\ ss[i][j].actor = fx[i].agent
    BY <1>9, <2>4 DEF Block
  <2>6. i \in DOMAIN fx
    BY <1>1 DEF N
  <2> QED
    BY <2>3, <2>4, <2>5, <2>6
<1>22. ASSUME NEW k \in Queueing(new, Ends) PROVE new[k].actor \in Begun(fx)
  BY <1>21 DEF Begun
<1>23. ASSUME Lone(fx), NEW k \in Queueing(new, Ends), NEW l \in Queueing(new, Ends), new[k].actor = new[l].actor
       PROVE  k = l
  <2>1. PICK i \in DOMAIN fx : \E j \in DOMAIN ss[i] :
           k = at[i] + j /\ ss[i][j].type \in Ends /\ fx[i].op = "spawn" /\ new[k].actor = fx[i].agent
    BY <1>21
  <2>2. PICK j \in DOMAIN ss[i] : k = at[i] + j /\ ss[i][j].type \in Ends
    BY <2>1
  <2>3. PICK h \in DOMAIN fx : \E g \in DOMAIN ss[h] :
           l = at[h] + g /\ ss[h][g].type \in Ends /\ fx[h].op = "spawn" /\ new[l].actor = fx[h].agent
    BY <1>21
  <2>4. PICK g \in DOMAIN ss[h] : l = at[h] + g /\ ss[h][g].type \in Ends
    BY <2>3
  <2>5. i = h
    BY <1>23, <2>1, <2>3 DEF Lone
  <2>6. Block(fx[i], ss[i])
    BY <1>1, <1>9 DEF N
  <2>7. j = g
    BY <2>2, <2>4, <2>5, <2>6 DEF Block
  <2> QED
    BY <2>2, <2>4, <2>5, <2>7
<1>24. Lone(fx) => EndsOnce(new)
  BY <1>23 DEF EndsOnce
<1>25. ASSUME NoneDenied, NEW k \in DOMAIN new
       PROVE  /\ new[k].type = "tool.call_denied" =>
                    Follows(new, k, {"llm.response"}) /\ Follows(new, k + 1, {"agent.turn_done"})
              /\ new[k].type \in Starting => new[k].actor \in Begun(fx)
  <2>1. PICK i \in 1 .. N : \E j \in B(i) : k = at[i] + j /\ new[k] = ss[i][j]
    BY <1>10
  <2>2. PICK j \in B(i) : k = at[i] + j /\ new[k] = ss[i][j]
    BY <2>1
  <2>3. /\ \A h \in B(i) : at[i] + h \in DOMAIN new /\ new[at[i] + h] = ss[i][h]
        /\ at[i] \in Nat /\ j \in Nat /\ DOMAIN ss[i] = B(i)
    <3>1. Len(ss[i]) \in Nat
      BY <1>8
    <3> QED
      BY <1>8, <3>1
  <2>4. /\ ss[i][j].type = "tool.call_denied" =>
             Follows(ss[i], j, {"llm.response"}) /\ Follows(ss[i], j + 1, {"agent.turn_done"})
        /\ ss[i][j].type \in Starting => fx[i].op = "spawn" /\ ss[i][j].actor = fx[i].agent
    BY <1>9, <1>25, <2>3 DEF Block, Asks, Asking
  <2>5. ASSUME NEW h \in B(i), NEW types, Follows(ss[i], h, types) PROVE Follows(new, at[i] + h, types)
    <3>1. h + 1 \in B(i) /\ h \in Nat
      BY <1>8, <2>3, <2>5 DEF Follows
    <3>2. \A a, b \in Nat : (a + b) + 1 = a + (b + 1)
      OBVIOUS
    <3>3. (at[i] + h) + 1 = at[i] + (h + 1)
      BY <2>3, <3>1, <3>2
    <3>4. /\ at[i] + (h + 1) \in DOMAIN new /\ new[at[i] + (h + 1)] = ss[i][h + 1]
          /\ new[at[i] + h] = ss[i][h]
      BY <2>3, <3>1
    <3> QED
      BY <2>5, <3>3, <3>4 DEF Follows
  <2>6. ASSUME new[k].type = "tool.call_denied"
        PROVE  Follows(new, k, {"llm.response"}) /\ Follows(new, k + 1, {"agent.turn_done"})
    <3>1. Follows(ss[i], j, {"llm.response"}) /\ Follows(ss[i], j + 1, {"agent.turn_done"})
      BY <2>2, <2>4, <2>6
    <3>2. j + 1 \in B(i) /\ at[i] + (j + 1) = k + 1
      <4>1. j + 1 \in B(i)
        BY <2>3, <3>1 DEF Follows
      <4>2. \A a, b \in Nat : a + (b + 1) = (a + b) + 1
        OBVIOUS
      <4> QED
        BY <2>2, <2>3, <4>1, <4>2
    <3>3. Follows(new, at[i] + (j + 1), {"agent.turn_done"})
      BY <2>5, <3>1, <3>2
    <3> QED
      BY <2>2, <2>5, <3>1, <3>2, <3>3
  <2>7. i \in DOMAIN fx
    BY <1>1 DEF N
  <2> QED
    BY <2>2, <2>4, <2>6, <2>7 DEF Begun
<1>26. Asked(fx, new)
  BY <1>25 DEF Asked, Asking, Queueing
<1>27. Adds(fx, new)
  BY <1>6, <1>11, <1>15, <1>16, <1>17, <1>18, <1>19, <1>20, <1>22, <1>24, <1>26 DEF Adds
<1> QED
  BY <1>27 DEF new, ss

-----------------------------------------------------------------------------
(* The log behind the cursor: a step takes its first event and appends to  *)
(* the others what the decision adds.                                      *)
Advances(t, q, new) ==
    /\ t \in Seq(Events) /\ DOMAIN t = 1 .. Len(t)
    /\ \A k \in DOMAIN t :
          \/ k < Len(q) /\ k + 1 \in DOMAIN q \ {1} /\ t[k] = q[k + 1]
          \/ k >= Len(q) /\ k - (Len(q) - 1) \in DOMAIN new /\ t[k] = new[k - (Len(q) - 1)]
    /\ \A i \in DOMAIN q \ {1} : i - 1 \in DOMAIN t /\ t[i - 1] = q[i]
    /\ \A j \in DOMAIN new : Len(q) - 1 + j \in DOMAIN t /\ t[Len(q) - 1 + j] = new[j]

LEMMA QueueAdvances ==
    ASSUME NEW q \in Seq(Events), q # <<>>, NEW new \in Seq(Events)
    PROVE  Advances(Tail(q) \o new, q, new)
<1> DEFINE s == Tail(q)
           t == s \o new
<1>1. /\ s \in Seq(Events) /\ Len(q) \in Nat \ {0} /\ Len(s) = Len(q) - 1 /\ Len(new) \in Nat
      /\ DOMAIN q = 1 .. Len(q) /\ DOMAIN new = 1 .. Len(new)
      /\ \A i \in 1 .. Len(s) : s[i] = q[i + 1]
  OBVIOUS
<1> HIDE DEF s
<1>2. /\ t \in Seq(Events) /\ Len(t) = Len(s) + Len(new) /\ DOMAIN t = 1 .. Len(t)
      /\ \A i \in 1 .. Len(s) : t[i] = s[i]
      /\ \A i \in 1 .. Len(new) : t[Len(s) + i] = new[i]
  <2>1. t \in Seq(Events)
    BY <1>1
  <2>2. /\ Len(t) = Len(s) + Len(new) /\ DOMAIN t = 1 .. Len(t)
        /\ \A i \in 1 .. Len(s) : t[i] = s[i]
        /\ \A i \in 1 .. Len(new) : t[Len(s) + i] = new[i]
    <3> DEFINE E == Events
    <3> HIDE DEF E
    <3>1. s \in Seq(E) /\ new \in Seq(E)
      BY <1>1 DEF E
    <3> QED
      BY <3>1
  <2>3. \A i \in 1 .. Len(new) : t[Len(s) + i] = new[i]
    BY <2>2
  <2> QED
    BY <2>1, <2>2, <2>3
<1> HIDE DEF t
<1>3. ASSUME NEW k \in DOMAIN t
      PROVE  \/ k < Len(q) /\ k + 1 \in DOMAIN q \ {1} /\ t[k] = q[k + 1]
             \/ k >= Len(q) /\ k - (Len(q) - 1) \in DOMAIN new /\ t[k] = new[k - (Len(q) - 1)]
  <2>1. CASE k < Len(q)
    BY <1>1, <1>2, <2>1
  <2>2. CASE k >= Len(q)
    <3>1. k - Len(s) \in 1 .. Len(new) /\ k = Len(s) + (k - Len(s)) /\ k - Len(s) = k - (Len(q) - 1)
      BY <1>1, <1>2, <2>2
    <3>2. t[Len(s) + (k - Len(s))] = new[k - Len(s)]
      BY <1>2, <3>1
    <3> QED
      BY <1>1, <2>2, <3>1, <3>2
  <2> QED
    BY <1>1, <1>2, <2>1, <2>2
<1>4. ASSUME NEW i \in DOMAIN q \ {1} PROVE i - 1 \in DOMAIN t /\ t[i - 1] = q[i]
  <2>1. i - 1 \in 1 .. Len(s) /\ i - 1 + 1 = i
    BY <1>1
  <2>2. s[i - 1] = q[i]
    BY <1>1, <2>1
  <2> QED
    BY <1>1, <1>2, <2>1, <2>2
<1>5. ASSUME NEW j \in DOMAIN new PROVE Len(q) - 1 + j \in DOMAIN t /\ t[Len(q) - 1 + j] = new[j]
  BY <1>1, <1>2
<1> QED
  BY <1>2, <1>3, <1>4, <1>5 DEF Advances, t, s

(* The run leads on to one next stage at a time.                           *)
LeadsOnce(r, q) ==
    /\ r.status = "new" =>
          /\ r = NewRun /\ q # <<>> /\ q[1].type = "run.started"
          /\ \A i \in DOMAIN q \ {1} : q[i].type \in HumanTypes
    /\ r.status # "new" => Queueing(q, {"run.started"}) = {}
    /\ \A i, j \in Queueing(q, Big) : i = j
    /\ r.status \notin Terminal =>
          /\ Queueing(q, Big) # {} => r.resolved \/ r.stage = 0
          /\ r.resolved => Queueing(q, Big) # {}
          /\ r.stage = 0 => Queueing(q, {"stage.advanced"}) = {}

LEMMA StepLeadsOnce ==
    ASSUME NEW r \in Runs, NEW q \in Seq(Events), q # <<>>, LeadsOnce(r, q), r.status \notin Terminal,
           NEW d, Handled(r, q[1], d), NEW new, Adds(d.fx, new), NEW t, Advances(t, q, new)
    PROVE  LeadsOnce(d.run, t)
<1> DEFINE e == q[1]
           s == d.run
<1>1. 1 \in DOMAIN q /\ Len(q) \in Nat \ {0} /\ e \in Events /\ DOMAIN q = 1 .. Len(q)
  OBVIOUS
<1>2. s \in Runs /\ s.resolved \in BOOLEAN /\ r.resolved \in BOOLEAN /\ Staged(r, e, d)
  BY RunFields DEF Handled
<1> HIDE DEF e, s
<1>3. ASSUME NEW types
      PROVE  /\ \A k \in Queueing(t, types) :
                   \/ k < Len(q) /\ k + 1 \in Queueing(q, types) /\ k + 1 # 1
                   \/ k >= Len(q) /\ k - (Len(q) - 1) \in Queueing(new, types)
             /\ \A i \in Queueing(q, types) : i # 1 => i - 1 \in Queueing(t, types)
             /\ Queueing(new, types) # {} => Queueing(t, types) # {}
  BY DEF Advances, Queueing
<1>4. /\ (\A i, j \in Emitting(d.fx, Big) : i = j)
      /\ Emitting(d.fx, Big) # {} => \/ e.type = "run.started"
                                     \/ r.stage # 0 /\ ~r.resolved /\ s.resolved
      /\ s.resolved /\ Emitting(d.fx, Big) = {} => r.resolved
      /\ e.type \in {"run.started", "stage.entered"} => ~s.resolved
      /\ r.resolved /\ ~s.resolved => e.type \in {"run.started", "stage.entered"}
  BY <1>2 DEF Staged, s
<1>5. /\ e.type = "run.started" => s.stage = 0
      /\ r.stage = 0 /\ s.stage # 0 => e.type \in {"stage.entered", "stage.advanced"}
      /\ s.stage = 0 => Emitting(d.fx, {"stage.advanced"}) = {} /\ (r.stage = 0 \/ e.type = "run.started")
      /\ e.type = "run.result" => s.status \in Terminal
      /\ s.status = "new" => r.status = "new" /\ e.type # "run.started"
  BY <1>2 DEF Staged, s
<1>6. /\ \A k, l \in Queueing(new, Big) : k = l
      /\ Queueing(new, Big) = {} <=> Emitting(d.fx, Big) = {}
      /\ Emitting(d.fx, {"stage.advanced"}) = {} => Queueing(new, {"stage.advanced"}) = {}
      /\ Queueing(new, {"run.started"}) = {}
  BY <1>4 DEF Adds, Queueing
<1>7. /\ r.status = "new" => e.type = "run.started"
      /\ \A i, j \in Queueing(q, Big) : i = j
      /\ Queueing(q, Big) # {} => r.resolved \/ r.stage = 0
      /\ r.resolved => Queueing(q, Big) # {}
      /\ r.stage = 0 => Queueing(q, {"stage.advanced"}) = {}
  BY DEF LeadsOnce, e
<1>8. e.type = "run.started" => \A i \in DOMAIN q \ {1} : q[i].type \in HumanTypes
  BY <1>1 DEF LeadsOnce, e, Queueing
<1>9. s.status # "new"
  BY <1>5, <1>7
<1>10. ASSUME NEW k \in Queueing(t, {"run.started"}) PROVE FALSE
  <2>1. k + 1 \in Queueing(q, {"run.started"}) /\ k + 1 # 1
    BY <1>3, <1>6
  <2> QED
    BY <2>1 DEF LeadsOnce, Queueing, HumanTypes
(* While the start is decided the log behind it holds what people did.     *)
<1>11. ASSUME e.type = "run.started", NEW i \in DOMAIN q \ {1} PROVE q[i].type \notin Big \cup {"stage.advanced"}
  <2>1. q[i].type \in HumanTypes
    BY <1>8, <1>11
  <2> QED
    BY <2>1 DEF HumanTypes, Big
<1>12. Queueing(new, Big) # {} => \A i \in Queueing(q, Big) : i = 1
  <2> SUFFICES ASSUME Queueing(new, Big) # {}, NEW i \in Queueing(q, Big), i # 1 PROVE FALSE
    OBVIOUS
  <2>1. CASE e.type = "run.started"
    BY <1>11, <2>1 DEF Queueing
  <2>2. CASE e.type # "run.started"
    BY <1>4, <1>6, <1>7, <2>2
  <2> QED
    BY <2>1, <2>2
<1>13. ASSUME NEW k \in Queueing(t, Big), NEW l \in Queueing(t, Big) PROVE k = l
  <2>1. /\ \/ k < Len(q) /\ k + 1 \in Queueing(q, Big) /\ k + 1 # 1
           \/ k >= Len(q) /\ k - (Len(q) - 1) \in Queueing(new, Big)
        /\ \/ l < Len(q) /\ l + 1 \in Queueing(q, Big) /\ l + 1 # 1
           \/ l >= Len(q) /\ l - (Len(q) - 1) \in Queueing(new, Big)
    BY <1>3
  <2>2. k \in Nat /\ l \in Nat
    BY DEF Queueing, Advances
  <2>3. CASE k < Len(q) /\ l < Len(q)
    <3> DEFINE K == k + 1
               L == l + 1
    <3>1. K \in Queueing(q, Big) /\ L \in Queueing(q, Big)
      BY <1>1, <2>1, <2>2, <2>3
    <3> HIDE DEF K, L
    <3>2. K = L
      BY <1>7, <3>1
    <3>3. k + 1 = l + 1
      BY <3>2 DEF K, L
    <3> QED
      BY <2>2, <3>3
  <2>4. CASE k >= Len(q) /\ l >= Len(q)
    <3>1. k - (Len(q) - 1) = l - (Len(q) - 1)
      BY <1>1, <1>6, <2>1, <2>2, <2>4
    <3> QED
      BY <1>1, <2>2, <3>1
  <2>5. CASE ~(k < Len(q) <=> l < Len(q))
    BY <1>1, <1>12, <2>1, <2>2, <2>5
  <2> QED
    BY <1>1, <2>2, <2>3, <2>4, <2>5
<1>14. ASSUME s.status \notin Terminal, NEW k \in Queueing(t, Big) PROVE s.resolved \/ s.stage = 0
  <2>1. CASE Queueing(new, Big) # {}
    BY <1>4, <1>5, <1>6, <2>1
  <2>2. CASE k + 1 \in Queueing(q, Big) /\ k + 1 # 1
    <3>1. e.type \notin Big /\ e.type # "run.started"
      <4>1. 1 \notin Queueing(q, Big)
        BY <1>7, <2>2
      <4> QED
        BY <1>1, <1>11, <2>2, <4>1 DEF Queueing, e
    <3>2. CASE r.resolved
      BY <1>4, <3>1, <3>2 DEF Big
    <3>3. CASE r.stage = 0
      <4>1. e.type # "stage.advanced"
        BY <1>1, <1>7, <3>3 DEF Queueing, e
      <4> QED
        BY <1>5, <3>1, <3>3, <4>1 DEF Big
    <3> QED
      BY <1>7, <2>2, <3>2, <3>3
  <2> QED
    BY <1>3, <2>1, <2>2
<1>15. ASSUME s.status \notin Terminal, s.resolved PROVE Queueing(t, Big) # {}
  <2>1. CASE Emitting(d.fx, Big) # {}
    BY <1>3, <1>6, <2>1
  <2>2. CASE Emitting(d.fx, Big) = {}
    <3>1. PICK i \in Queueing(q, Big) : TRUE
      BY <1>4, <1>7, <1>15, <2>2
    <3>2. i # 1
      BY <1>4, <1>5, <1>15, <3>1 DEF Queueing, Big, e
    <3> QED
      BY <1>3, <3>1, <3>2
  <2> QED
    BY <2>1, <2>2
<1>16. ASSUME s.stage = 0, NEW k \in Queueing(t, {"stage.advanced"}) PROVE FALSE
  <2>1. k + 1 \in Queueing(q, {"stage.advanced"}) /\ k + 1 # 1
    BY <1>3, <1>5, <1>6, <1>16
  <2>2. k + 1 \in DOMAIN q \ {1} /\ q[k + 1].type = "stage.advanced"
    BY <2>1 DEF Queueing
  <2> QED
    BY <1>5, <1>7, <1>11, <1>16, <2>1, <2>2
<1> QED
  BY <1>9, <1>10, <1>13, <1>14, <1>15, <1>16 DEF LeadsOnce, s

LEMMA DecideType ==
    ASSUME NEW r \in Runs, NEW e \in Events, e.type = "run.started" => r = NewRun
    PROVE  Decide(r, e).run \in Runs /\ Decide(r, e).fx \in Seq(Effects)
<1>1. CASE r.status \in Terminal
  <2>1. Decide(r, e) = Result(r, <<>>)
    BY <1>1 DEF Decide
  <2> QED
    BY <2>1 DEF Result
<1>2. CASE r.status \notin Terminal
  <2>1. Handled(r, e, Decide(r, e))
    BY <1>2, Decided
  <2> QED
    BY <2>1 DEF Handled
<1> QED
  BY <1>1, <1>2

-----------------------------------------------------------------------------
(* The state of the loop.                                                  *)

LoopType ==
    /\ run \in Runs /\ queue \in Seq(Events)
    /\ armed \subseteq StageNumbers /\ inputs \in Nat

LoopInv == LoopType /\ LeadsOnce(run, queue)

(* The first event of the log: a run starts only while it is new.          *)
LEMMA FirstEvents ==
    ASSUME LoopInv
    PROVE  /\ \A i \in DOMAIN queue : queue[i] \in Events
           /\ \A i \in DOMAIN queue : queue[i].type = "run.started" => run = NewRun /\ i = 1
           /\ DOMAIN queue = 1 .. Len(queue) /\ Len(queue) \in Nat
<1>1. queue \in Seq(Events) /\ LeadsOnce(run, queue)
  BY DEF LoopInv, LoopType
<1>2. DOMAIN queue = 1 .. Len(queue) /\ Len(queue) \in Nat /\ \A i \in DOMAIN queue : queue[i] \in Events
  BY <1>1
<1>3. ASSUME NEW i \in DOMAIN queue, queue[i].type = "run.started" PROVE run = NewRun /\ i = 1
  BY <1>1, <1>3 DEF LeadsOnce, Queueing, HumanTypes
<1> QED
  BY <1>2, <1>3

Deciding(f, r, q) == f = [n \in 0 .. Len(q) |-> IF n = 0 THEN r ELSE Decide(f[n - 1], q[n]).run]

LEMMA TipType ==
    ASSUME LoopInv
    PROVE  Tip \in Runs
<1> DEFINE N == Len(queue)
           started == Decide(run, queue[1]).run
           G == [i \in 1 .. N |-> [r \in Runs |-> IF i = 1 THEN started ELSE Decide(r, queue[i]).run]]
<1>1. /\ N \in Nat /\ run \in Runs /\ \A i \in 1 .. N : queue[i] \in Events
      /\ \A i \in 1 .. N : queue[i].type = "run.started" => run = NewRun /\ i = 1
  BY FirstEvents DEF LoopInv, LoopType
<1>2. 1 \in 1 .. N => started \in Runs
  BY <1>1, DecideType
<1>3. ASSUME NEW i \in 1 .. N, i # 1, NEW r \in Runs PROVE Decide(r, queue[i]).run \in Runs
  BY <1>1, <1>3, DecideType
<1> HIDE DEF started
<1>4. G \in [1 .. N -> [Runs -> Runs]]
  BY <1>2, <1>3
<1>5. /\ \A i \in 1 .. N : i # 1 => \A r \in Runs : G[i][r] = Decide(r, queue[i]).run
      /\ \A i \in 1 .. N : i = 1 => \A r \in Runs : G[i][r] = started
  OBVIOUS
<1>6. PICK g : Recurses(g, Runs, run, N, G)
  <2> HIDE DEF G, N
  <2> QED
    BY <1>1, <1>4, Recursion
<1> HIDE DEF G
<1>7. g \in [0 .. N -> Runs] /\ g[0] = run /\ \A i \in 1 .. N : g[i] = G[i][g[i - 1]]
  BY <1>6 DEF Recurses
<1>8. ASSUME NEW i \in 1 .. N
      PROVE  i - 1 \in 0 .. N /\ g[i - 1] \in Runs /\ i # 0 /\ i \in 0 .. N /\ g[i] = Decide(g[i - 1], queue[i]).run
  <2>1. i - 1 \in 0 .. N /\ i # 0 /\ i \in 0 .. N
    BY <1>1
  <2>2. g[i - 1] \in Runs
    BY <1>7, <2>1
  <2>3. CASE i = 1
    <3>1. i - 1 = 0
      BY <2>3
    <3>2. g[i] = started /\ g[i - 1] = run
      BY <1>5, <1>7, <2>2, <2>3, <3>1
    <3> QED
      BY <2>1, <2>2, <2>3, <3>2 DEF started
  <2>4. CASE i # 1
    <3>1. g[i] = Decide(g[i - 1], queue[i]).run
      BY <1>5, <1>7, <2>2, <2>4
    <3> QED
      BY <2>1, <2>2, <3>1
  <2> QED
    BY <2>3, <2>4
<1>9. Deciding(g, run, queue)
  <2> DEFINE h == [n \in 0 .. Len(queue) |-> IF n = 0 THEN run ELSE Decide(g[n - 1], queue[n]).run]
  <2>1. ASSUME NEW i \in 0 .. N PROVE g[i] = h[i]
    <3>1. CASE i = 0
      BY <1>7, <3>1
    <3>2. CASE i # 0
      <4>1. i \in 1 .. N
        BY <1>1, <3>2
      <4> QED
        BY <1>8, <4>1
    <3> QED
      BY <3>1, <3>2
  <2> QED
    BY <1>7, <2>1 DEF Deciding
<1>10. Tip = (CHOOSE f : Deciding(f, run, queue))[N]
  BY DEF Tip, Deciding
<1>11. PICK f : f = CHOOSE h : Deciding(h, run, queue)
  OBVIOUS
<1>12. Deciding(f, run, queue)
  BY <1>9, <1>11
<1>13. f[0] = run
  BY <1>1, <1>12 DEF Deciding
<1>14. ASSUME NEW n \in 1 .. N PROVE f[n] = Decide(f[n - 1], queue[n]).run
  BY <1>8, <1>12 DEF Deciding
<1> DEFINE Q == {k \in 0 .. N : f[k] \in Runs}
<1>15. 0 \in Q
  BY <1>1, <1>13
<1>16. ASSUME NEW n \in 1 .. N, n - 1 \in Q PROVE n \in Q
  <2>1. f[n - 1] \in Runs /\ n \in 0 .. N
    BY <1>8, <1>16
  <2>2. CASE n = 1
    <3>1. n - 1 = 0
      BY <2>2
    <3>2. f[n] = started
      BY <1>13, <1>14, <2>2, <3>1 DEF started
    <3> QED
      BY <1>2, <2>1, <2>2, <3>2
  <2>3. CASE n # 1
    BY <1>3, <1>14, <2>1, <2>3
  <2> QED
    BY <2>2, <2>3
<1>17. \A n \in 0 .. N : n \in Q
  <2> HIDE DEF Q, N
  <2> QED
    BY <1>1, <1>15, <1>16, UpTo
<1>18. N \in Q
  BY <1>1, <1>17
<1> QED
  BY <1>10, <1>11, <1>18

(* A step of the loop: d is decided and new appended.                      *)
Steps(d, new) ==
    /\ queue # <<>> /\ d = Decide(run, queue[1]) /\ d.run \in Runs /\ d.fx \in Seq(Effects) /\ Adds(d.fx, new)
    /\ run' = d.run /\ Advances(queue', queue, new) /\ inputs' = inputs
    /\ armed' = (armed \ Timers(d.fx, "cancel_timer")) \cup Timers(d.fx, "set_timer")

LEMMA StepIs ==
    ASSUME LoopInv, Step
    PROVE  \E d, new : Steps(d, new)
<1> DEFINE e == queue[1]
<1>1. queue # <<>> /\ queue \in Seq(Events) /\ run \in Runs /\ Head(queue) = e /\ 1 \in DOMAIN queue
  <2>1. queue # <<>> /\ queue \in Seq(Events) /\ run \in Runs
    BY DEF Step, LoopInv, LoopType
  <2> QED
    BY <2>1
<1>2. e \in Events /\ (e.type = "run.started" => run = NewRun)
  BY <1>1, FirstEvents
<1>3. PICK d \in {Decide(run, Head(queue))} : \E results \in Results(d.fx) :
          /\ run' = d.run
          /\ queue' = Tail(queue) \o FlattenSeq([i \in DOMAIN d.fx |-> Produced(d.fx[i], results[i])])
          /\ armed' = (armed \ Timers(d.fx, "cancel_timer")) \cup Timers(d.fx, "set_timer")
  BY DEF Step
<1>4. PICK results \in Results(d.fx) :
          /\ run' = d.run
          /\ queue' = Tail(queue) \o FlattenSeq([i \in DOMAIN d.fx |-> Produced(d.fx[i], results[i])])
          /\ armed' = (armed \ Timers(d.fx, "cancel_timer")) \cup Timers(d.fx, "set_timer")
  BY <1>3
<1> DEFINE new == FlattenSeq([i \in DOMAIN d.fx |-> Produced(d.fx[i], results[i])])
<1>5. d = Decide(run, e) /\ d.run \in Runs /\ d.fx \in Seq(Effects)
  BY <1>1, <1>2, <1>3, DecideType
<1>6. Adds(d.fx, new)
  BY <1>5, Appended
<1>7. queue' = Tail(queue) \o new
  BY <1>4
<1> HIDE DEF new
<1>8. Advances(queue', queue, new)
  <2>1. new \in Seq(Events)
    BY <1>6 DEF Adds
  <2>2. Advances(Tail(queue) \o new, queue, new)
    BY <1>1, <2>1, QueueAdvances
  <2> QED
    BY <1>7, <2>2
<1>9. inputs' = inputs
  BY DEF Step
<1>10. Steps(d, new)
  BY <1>1, <1>4, <1>5, <1>6, <1>8, <1>9 DEF Steps
<1> QED
  BY <1>10

(* People append one event, and change nothing else.                       *)
Adding(e) ==
    /\ e \in Events /\ queue' = Append(queue, e) /\ run' = run /\ inputs' \in Nat /\ armed' \subseteq armed

LEMMA HumanEvents ==
    ASSUME NEW type \in HumanTypes, NEW n \in Nat, NEW id \in Ids
    PROVE  Human(type, n, id) \in Events /\ Human(type, n, id).type = type
<1> DEFINE x == Event(type, Nobody, "human", 0, n)
<1>1. /\ type \in EventTypes /\ type \notin TurnTypes \cup ToolTypes \cup MadeTypes
      /\ type \notin {"stage.entered", "stage.advanced", "timer.tick", "agent.activated", "agent.failed", "inbox.created"}
  BY DEF HumanTypes, EventTypes, TurnTypes, ToolTypes, MadeTypes
<1>2. 0 \in Depths
  BY LimitFacts DEF Depths
<1>3. x \in Events /\ x.type = type
  BY <1>1, <1>2, EventFacts
<1>4. x.actor = Nobody /\ x.to = Nobody
  BY DEF Event
<1> HIDE DEF x
<1>5. [x EXCEPT !.id = id] \in Events /\ [x EXCEPT !.id = id].type = type
  BY <1>3 DEF Events, EventOK
<1> QED
  BY <1>5 DEF Human, x

LEMMA PeopleAdd ==
    ASSUME LoopInv, People
    PROVE  \E e : Adding(e) /\ e.type \in HumanTypes
<1>1. /\ inputs \in Nat /\ inputs < MaxInputs /\ MaxInputs \in Nat /\ inputs + 1 \in Ids
  BY ActorsAssumption DEF LoopInv, LoopType, People, Ids
<1>2. Tip \in Runs
  BY TipType
<1>3. PICK tip \in Runs : Prompt(tip) \/ Pause(tip) \/ Unpause(tip) \/ UnpauseRaising(tip) \/ Cancel(tip) \/ Reply(tip)
  BY <1>2 DEF People
<1>4. ASSUME NEW act, NEW type \in HumanTypes, NEW n \in Nat, Says(act, type, n)
      PROVE  \E e : Adding(e) /\ e.type \in HumanTypes
  <2> DEFINE e == Human(type, n, inputs + 1)
  <2>1. PICK id \in Ids : id = inputs + 1
    BY <1>1
  <2>2. Human(type, n, id) \in Events /\ Human(type, n, id).type = type
    BY HumanEvents
  <2>3. queue' = Append(queue, Human(type, n, id)) /\ run' = run /\ inputs' \in Nat /\ armed' \subseteq armed
    BY <1>1, <1>4, <2>1 DEF Says
  <2>4. Adding(Human(type, n, id))
    BY <2>2, <2>3 DEF Adding
  <2> QED
    BY <2>2, <2>4
<1>5. /\ "run.prompt" \in HumanTypes /\ "run.paused" \in HumanTypes /\ "run.unpaused" \in HumanTypes
      /\ "run.cancelled" \in HumanTypes /\ "inbox.replied" \in HumanTypes /\ 0 \in Nat
  BY DEF HumanTypes
<1>6. CASE Prompt(tip)
  BY <1>4, <1>5, <1>6 DEF Prompt
<1>7. CASE Pause(tip)
  BY <1>4, <1>5, <1>7 DEF Pause
<1>8. CASE Unpause(tip)
  BY <1>4, <1>5, <1>8 DEF Unpause
<1>9. CASE UnpauseRaising(tip)
  <2>1. tip.budget + Raise \in Nat
    BY ActorsAssumption, RunFields
  <2> QED
    BY <1>4, <1>5, <1>9, <2>1 DEF UnpauseRaising
<1>10. CASE Cancel(tip)
  BY <1>4, <1>5, <1>10 DEF Cancel
<1>11. CASE Reply(tip)
  <2>1. PICK i \in DOMAIN tip.inbox : Says("reply", "inbox.replied", i)
    BY <1>11 DEF Reply
  <2>2. i \in Nat
    BY RunFields
  <2> QED
    BY <1>4, <1>5, <2>1, <2>2
<1> QED
  BY <1>3, <1>6, <1>7, <1>8, <1>9, <1>10, <1>11

LEMMA TickEvents ==
    ASSUME NEW s \in StageNumbers
    PROVE  LET e == Event("timer.tick", Nobody, "runtime", 0, s)
           IN e \in Events /\ e.type = "timer.tick"
<1>1. s \in Nat /\ 0 \in Depths
  BY LimitFacts, StageFacts DEF Depths, StageNumbers
<1>2. "timer.tick" \in EventTypes /\ "timer.tick" \notin TurnTypes \cup ToolTypes
  BY DEF EventTypes, TurnTypes, ToolTypes
<1> QED
  BY <1>1, <1>2, EventFacts

LEMMA TickAdds ==
    ASSUME LoopInv, Tick
    PROVE  \E e : Adding(e) /\ e.type = "timer.tick" /\ e.n \in armed /\ armed' = armed \ {e.n}
<1>1. PICK s \in armed : /\ queue' = queue \o <<Event("timer.tick", Nobody, "runtime", 0, s)>>
                         /\ armed' = armed \ {s}
  BY DEF Tick
<1> DEFINE e == Event("timer.tick", Nobody, "runtime", 0, s)
<1>2. s \in StageNumbers /\ queue \in Seq(Events)
  BY DEF LoopInv, LoopType
<1>3. e \in Events /\ e.type = "timer.tick"
  BY <1>2, TickEvents
<1>4. e.n = s
  BY DEF Event
<1> HIDE DEF e
<1>5. queue \o <<e>> = Append(queue, e)
  BY <1>2, <1>3
<1>6. Adding(e) /\ armed' = armed \ {s}
  BY <1>1, <1>3, <1>5 DEF Adding, Tick, LoopInv, LoopType, e
<1> QED
  BY <1>3, <1>4, <1>6

(* One event at the end of a log.                                          *)
LEMMA OneMore ==
    ASSUME NEW q \in Seq(Events), NEW e \in Events
    PROVE  LET t == Append(q, e)
           IN /\ t \in Seq(Events) /\ Len(t) = Len(q) + 1 /\ DOMAIN t = 1 .. Len(t) /\ DOMAIN q = 1 .. Len(q)
              /\ DOMAIN q \subseteq DOMAIN t /\ \A i \in DOMAIN q : t[i] = q[i]
              /\ Len(t) \in DOMAIN t /\ t[Len(t)] = e /\ \A i \in DOMAIN t : i \in DOMAIN q \/ i = Len(t)
              /\ Len(q) \in Nat
OBVIOUS

LEMMA MoreLeadsOnce ==
    ASSUME NEW r, NEW q \in Seq(Events), LeadsOnce(r, q), NEW e \in Events,
           \/ e.type \in HumanTypes
           \/ r.status # "new" /\ e.type = "timer.tick"
    PROVE  LeadsOnce(r, Append(q, e))
<1> DEFINE t == Append(q, e)
<1>1. /\ DOMAIN t = 1 .. Len(t) /\ DOMAIN q = 1 .. Len(q) /\ t \in Seq(Events)
      /\ DOMAIN q \subseteq DOMAIN t /\ \A i \in DOMAIN q : t[i] = q[i]
      /\ Len(t) \in DOMAIN t /\ t[Len(t)] = e /\ \A i \in DOMAIN t : i \in DOMAIN q \/ i = Len(t)
      /\ Len(t) = Len(q) + 1 /\ Len(q) \in Nat
  BY OneMore
<1> HIDE DEF t
<1>2. e.type \notin Big \cup {"run.started", "stage.advanced"}
  BY DEF Big, HumanTypes
<1>3. ASSUME NEW types, e.type \notin types PROVE Queueing(t, types) = Queueing(q, types)
  BY <1>1, <1>3 DEF Queueing
<1>4. /\ Queueing(t, Big) = Queueing(q, Big) /\ Queueing(t, {"run.started"}) = Queueing(q, {"run.started"})
      /\ Queueing(t, {"stage.advanced"}) = Queueing(q, {"stage.advanced"})
  BY <1>2, <1>3
<1>5. ASSUME r.status = "new"
      PROVE  /\ r = NewRun /\ t # <<>> /\ t[1].type = "run.started"
             /\ \A i \in DOMAIN t \ {1} : t[i].type \in HumanTypes
  <2>1. /\ r = NewRun /\ q # <<>> /\ q[1].type = "run.started"
        /\ \A i \in DOMAIN q \ {1} : q[i].type \in HumanTypes
    BY <1>5 DEF LeadsOnce
  <2>2. 1 \in DOMAIN q
    BY <2>1
  <2>3. t # <<>>
    BY <1>1, <2>2
  <2> QED
    BY <1>1, <1>5, <2>1, <2>2, <2>3
<1>6. LeadsOnce(r, t)
  BY <1>4, <1>5 DEF LeadsOnce
<1> QED
  BY <1>6 DEF t

(* The state keeps its shape, the log behind the cursor starts a new run   *)
(* and no other, and holds one next stage or result at most: there is one  *)
(* while the stage is resolved, and otherwise only in front of the first   *)
(* stage (applyRunStarted, applyStageSubmitted, applyStageTimeout).        *)
THEOREM LoopInvariant == Spec => []LoopInv
<1>1. Init => LoopInv
  <2> SUFFICES ASSUME Init PROVE LoopInv
    OBVIOUS
  <2> DEFINE x == Event("run.started", Nobody, "human", 0, 0)
             e == Human("run.started", 0, 0)
  <2>1. x \in Events /\ x.type = "run.started"
    <3>1. "run.started" \in EventTypes /\ "run.started" \notin TurnTypes \cup ToolTypes \cup MadeTypes
      BY DEF EventTypes, TurnTypes, ToolTypes, MadeTypes
    <3>2. 0 \in Depths
      BY LimitFacts DEF Depths
    <3> QED
      BY <3>1, <3>2, EventFacts
  <2>2. 0 \in Ids
    BY ActorsAssumption DEF Ids
  <2> HIDE DEF x
  <2>3. e \in Events /\ e.type = "run.started"
    BY <2>1, <2>2 DEF Events, EventOK, Human, x
  <2> HIDE DEF e
  <2>4. queue = <<e>> /\ queue \in Seq(Events) /\ DOMAIN queue = {1} /\ queue[1] = e /\ queue # <<>>
    BY <2>3 DEF Init, e
  <2>5. run = NewRun /\ run \in Runs
    BY NewRunType DEF Init
  <2>6. LoopType
    BY <2>4, <2>5 DEF Init, LoopType
  <2>7. run.status = "new" /\ run.stage = 0 /\ run.resolved = FALSE
    BY <2>5 DEF NewRun
  <2>8. LeadsOnce(run, queue)
    BY <2>3, <2>4, <2>5, <2>7 DEF LeadsOnce, Queueing, Big
  <2> QED
    BY <2>6, <2>8 DEF LoopInv
<1>2. LoopInv /\ [Next]_vars => LoopInv'
  <2> SUFFICES ASSUME LoopInv, [Next]_vars PROVE LoopInv'
    OBVIOUS
  <2>1. /\ run \in Runs /\ queue \in Seq(Events) /\ armed \subseteq StageNumbers /\ inputs \in Nat
        /\ LeadsOnce(run, queue)
    BY DEF LoopInv, LoopType
  <2>2. CASE Step
    <3>1. PICK d, new : Steps(d, new)
      BY <2>2, StepIs
    <3>2. run' = d.run /\ d.run \in Runs /\ queue' \in Seq(Events) /\ inputs' = inputs
      BY <3>1 DEF Steps, Advances
    <3>3. armed' \subseteq StageNumbers
      <4>1. Timers(d.fx, "set_timer") \subseteq StageNumbers
        <5>1. \A i \in DOMAIN d.fx : d.fx[i] \in Effects
          BY <3>1 DEF Steps
        <5>2. \A f \in Effects : f.op = "set_timer" => f.stage \in StageNumbers
          BY DEF Effects
        <5> QED
          BY <5>1, <5>2 DEF Timers
      <4> QED
        BY <2>1, <3>1, <4>1 DEF Steps
    <3>4. LeadsOnce(run', queue')
      <4>1. CASE run.status \notin Terminal
        <5>1. queue[1] \in Events /\ (queue[1].type = "run.started" => run = NewRun)
          BY <3>1, FirstEvents DEF Steps
        <5>2. Handled(run, queue[1], d)
          BY <2>1, <3>1, <4>1, <5>1, Decided DEF Steps
        <5>3. queue # <<>> /\ Adds(d.fx, new) /\ Advances(queue', queue, new)
          BY <3>1 DEF Steps
        <5>4. LeadsOnce(d.run, queue')
          BY <2>1, <4>1, <5>2, <5>3, StepLeadsOnce
        <5> QED
          BY <3>2, <5>4
      <4>2. CASE run.status \in Terminal
        <5>1. d = Result(run, <<>>)
          BY <3>1, <4>2 DEF Steps, Decide
        <5>2. d.run = run /\ d.fx = <<>>
          BY <5>1 DEF Result
        <5>3. run' = run /\ run.status # "new"
          BY <3>2, <4>2, <5>2 DEF Terminal
        <5>4. Emitting(d.fx, Big) = {}
          BY <5>2 DEF Emitting
        <5>5. /\ Queueing(new, Big) = {} /\ Queueing(new, {"run.started"}) = {}
          BY <3>1, <5>4 DEF Steps, Adds, Queueing
        <5>6. ASSUME NEW types, Queueing(new, types) = {}
              PROVE  \A k \in Queueing(queue', types) : k \in Nat /\ k + 1 \in Queueing(queue, types)
          BY <3>1, <5>6 DEF Steps, Advances, Queueing
        <5>7. ASSUME NEW k \in Queueing(queue', Big), NEW l \in Queueing(queue', Big) PROVE k = l
          <6> DEFINE K == k + 1
                     L == l + 1
          <6>1. K \in Queueing(queue, Big) /\ L \in Queueing(queue, Big) /\ k \in Nat /\ l \in Nat
            BY <5>5, <5>6
          <6> HIDE DEF K, L
          <6>2. K = L
            BY <2>1, <6>1 DEF LeadsOnce
          <6> QED
            BY <6>1, <6>2 DEF K, L
        <5>8. Queueing(queue, {"run.started"}) = {}
          BY <2>1, <5>3 DEF LeadsOnce
        <5>9. Queueing(queue', {"run.started"}) = {}
          BY <5>5, <5>6, <5>8
        <5> QED
          BY <4>2, <5>3, <5>7, <5>9 DEF LeadsOnce
      <4> QED
        BY <4>1, <4>2
    <3> QED
      BY <2>1, <3>2, <3>3, <3>4 DEF LoopInv, LoopType
  <2>3. ASSUME NEW e, Adding(e), e.type \in HumanTypes \/ (run.status # "new" /\ e.type = "timer.tick")
        PROVE  LoopInv'
    <3>1. e \in Events /\ queue' = Append(queue, e) /\ run' = run /\ inputs' \in Nat /\ armed' \subseteq armed
      BY <2>3 DEF Adding
    <3>2. LeadsOnce(run, Append(queue, e))
      BY <2>1, <2>3, <3>1, MoreLeadsOnce
    <3>3. queue' \in Seq(Events)
      BY <2>1, <3>1
    <3> QED
      BY <2>1, <3>1, <3>2, <3>3 DEF LoopInv, LoopType
  <2>4. CASE Tick
    <3>1. PICK e : Adding(e) /\ e.type = "timer.tick"
      BY <2>4, TickAdds
    <3>2. run.status # "new"
      BY <2>1, <2>4 DEF Tick, LeadsOnce
    <3> QED
      BY <2>3, <3>1, <3>2
  <2>5. CASE Recover
    BY <2>1, <2>5 DEF Recover, LoopInv, LoopType
  <2>6. CASE People
    <3>1. PICK e : Adding(e) /\ e.type \in HumanTypes
      BY <2>6, PeopleAdd
    <3> QED
      BY <2>3, <3>1
  <2>7. CASE UNCHANGED vars
    BY <2>1, <2>7 DEF vars, LoopInv, LoopType
  <2> QED
    BY <2>2, <2>4, <2>5, <2>6, <2>7 DEF Next
<1> QED
  BY <1>1, <1>2, PTL DEF Spec

(* A stage resolves once, whatever the members submit and whenever its     *)
(* timeout comes: never are two next stages, or a next stage and the       *)
(* result, in the log to be decided (applyStageSubmitted,                  *)
(* applyStageTimeout).                                                     *)
THEOREM StagesResolveOnce == Spec => []StageResolvesOnce
<1>1. LoopInv => StageResolvesOnce
  <2> SUFFICES ASSUME LoopInv PROVE StageResolvesOnce
    OBVIOUS
  <2> DEFINE Q == Queueing(queue, Big)
  <2>1. \A i, j \in Q : i = j
    BY DEF LoopInv, LeadsOnce
  <2>2. Queued({"stage.entered", "run.result"}) = Q
    BY DEF Queued, Queueing, Big
  <2> HIDE DEF Q
  <2>3. Cardinality(Q) <= 1
    <3>1. CASE Q = {}
      BY <3>1, FS_EmptySet
    <3>2. CASE Q # {}
      <4>1. PICK x \in Q : TRUE
        BY <3>2
      <4>2. Q = {x}
        BY <2>1, <4>1
      <4>3. Cardinality({x}) = 1
        BY FS_Singleton
      <4> QED
        BY <4>2, <4>3
    <3> QED
      BY <3>1, <3>2
  <2> QED
    BY <2>2, <2>3 DEF StageResolvesOnce
<1> QED
  BY <1>1, LoopInvariant, PTL

-----------------------------------------------------------------------------
(* The turns in the log stay whole.                                        *)
LEMMA StepLinked ==
    ASSUME NEW q \in Seq(Events), q # <<>>, Linked(q), Preceded(q),
           NEW new \in Seq(Events), Linked(new), Preceded(new), Whole(new),
           NEW t, Advances(t, q, new)
    PROVE  Linked(t) /\ Preceded(t)
<1> DEFINE L == Len(q) - 1
<1>1. /\ L \in Nat /\ Len(q) = L + 1 /\ DOMAIN q = 1 .. L + 1
      /\ DOMAIN new = 1 .. Len(new) /\ Len(new) \in Nat
  OBVIOUS
<1> HIDE DEF L
<1>2. /\ DOMAIN t = 1 .. Len(t) /\ Len(t) \in Nat
      /\ \A k \in DOMAIN t :
            \/ k <= L /\ k + 1 \in DOMAIN q \ {1} /\ t[k] = q[k + 1]
            \/ k > L /\ k - L \in DOMAIN new /\ t[k] = new[k - L]
      /\ \A i \in DOMAIN q \ {1} : i - 1 \in DOMAIN t /\ t[i - 1] = q[i]
      /\ \A j \in DOMAIN new : L + j \in DOMAIN t /\ t[L + j] = new[j]
  <2>1. t \in Seq(Events) /\ DOMAIN t = 1 .. Len(t) /\ Len(t) \in Nat
    BY DEF Advances
  <2>2. ASSUME NEW k \in DOMAIN t
        PROVE  \/ k <= L /\ k + 1 \in DOMAIN q \ {1} /\ t[k] = q[k + 1]
               \/ k > L /\ k - L \in DOMAIN new /\ t[k] = new[k - L]
    <3>1. \/ k < Len(q) /\ k + 1 \in DOMAIN q \ {1} /\ t[k] = q[k + 1]
          \/ k >= Len(q) /\ k - (Len(q) - 1) \in DOMAIN new /\ t[k] = new[k - (Len(q) - 1)]
      BY DEF Advances
    <3>2. k \in Nat
      BY <2>1
    <3> QED
      BY <1>1, <3>1, <3>2 DEF L
  <2> QED
    BY <1>1, <2>1, <2>2 DEF Advances, L
<1>3. \A k \in DOMAIN t : k \in Nat \ {0}
  BY <1>2
(* Where an element of the log was, and what is behind it.                 *)
<1>4. ASSUME NEW k \in DOMAIN t, k <= L
      PROVE  /\ k + 1 \in DOMAIN q /\ k + 1 # 1 /\ t[k] = q[k + 1]
             /\ \A i \in DOMAIN q : i > k + 1 => i - 1 \in DOMAIN t /\ i - 1 > k /\ t[i - 1] = q[i]
             /\ k + 1 + 1 \in DOMAIN q => k + 1 \in DOMAIN t /\ t[k + 1] = q[k + 1 + 1]
  <2>1. k \in Nat \ {0}
    BY <1>3
  <2>2. k + 1 \in DOMAIN q /\ k + 1 # 1 /\ t[k] = q[k + 1]
    BY <1>1, <1>2, <1>4, <2>1
  <2>3. ASSUME NEW i \in DOMAIN q, i > k + 1 PROVE i - 1 \in DOMAIN t /\ i - 1 > k /\ t[i - 1] = q[i]
    <3>1. i \in Nat /\ i # 1
      BY <1>1, <2>1, <2>3
    <3> QED
      BY <1>2, <2>1, <2>3, <3>1
  <2>4. k + 1 + 1 > k + 1 /\ k + 1 + 1 - 1 = k + 1
    BY <2>1
  <2> DEFINE n == k + 1 + 1
  <2>5. n \in DOMAIN q => n - 1 \in DOMAIN t /\ t[n - 1] = q[n]
    <3> HIDE DEF n
    <3>1. n > k + 1
      BY <2>4 DEF n
    <3> QED
      BY <2>3, <3>1
  <2> QED
    BY <2>2, <2>3, <2>4, <2>5
<1>5. ASSUME NEW k \in DOMAIN t, k > L
      PROVE  \E n \in DOMAIN new :
                /\ n \in Nat /\ k = L + n /\ t[k] = new[n]
                /\ \A i \in DOMAIN new : i > n => L + i \in DOMAIN t /\ L + i > k /\ t[L + i] = new[i]
                /\ n + 1 \in DOMAIN new => k + 1 \in DOMAIN t /\ t[k + 1] = new[n + 1]
  <2> DEFINE n == k - L
  <2>1. k \in Nat \ {0}
    BY <1>3
  <2>2. n \in DOMAIN new /\ t[k] = new[n] /\ n \in Nat /\ k = L + n
    BY <1>1, <1>2, <1>5, <2>1
  <2> HIDE DEF n
  <2>3. \A i \in DOMAIN new : i > n => L + i \in DOMAIN t /\ L + i > k /\ t[L + i] = new[i]
    BY <1>1, <1>2, <2>2
  <2>4. n + 1 \in DOMAIN new => k + 1 \in DOMAIN t /\ t[k + 1] = new[n + 1]
    <3>1. k + 1 = L + (n + 1)
      BY <1>1, <2>2
    <3> QED
      BY <1>2, <3>1
  <2> QED
    BY <2>2, <2>3, <2>4
<1>6. ASSUME NEW k \in DOMAIN t
      PROVE  /\ t[k].type = "agent.activated" =>
                   /\ Follows(t, k, {"llm.response", "tool.call"})
                   /\ \E j \in DOMAIN t : j > k /\ t[j].type \in Ends /\ t[j].actor = t[k].actor
             /\ t[k].type = "tool.call" => Follows(t, k, {"tool.call_denied"})
  <2>1. CASE k <= L
    <3>1. /\ k + 1 \in DOMAIN q /\ k + 1 # 1 /\ t[k] = q[k + 1]
          /\ \A i \in DOMAIN q : i > k + 1 => i - 1 \in DOMAIN t /\ i - 1 > k /\ t[i - 1] = q[i]
          /\ k + 1 + 1 \in DOMAIN q => k + 1 \in DOMAIN t /\ t[k + 1] = q[k + 1 + 1]
      BY <1>4, <2>1
    <3>2. \A types : Follows(q, k + 1, types) => Follows(t, k, types)
      BY <3>1 DEF Follows
    <3>3. /\ q[k + 1].type = "agent.activated" =>
                /\ Follows(q, k + 1, {"llm.response", "tool.call"})
                /\ \E j \in DOMAIN q : j > k + 1 /\ q[j].type \in Ends /\ q[j].actor = q[k + 1].actor
          /\ q[k + 1].type = "tool.call" => Follows(q, k + 1, {"tool.call_denied"})
      BY <3>1 DEF Linked
    <3> QED
      BY <3>1, <3>2, <3>3
  <2>2. CASE k > L
    <3>1. PICK n \in DOMAIN new :
                /\ n \in Nat /\ k = L + n /\ t[k] = new[n]
                /\ \A i \in DOMAIN new : i > n => L + i \in DOMAIN t /\ L + i > k /\ t[L + i] = new[i]
                /\ n + 1 \in DOMAIN new => k + 1 \in DOMAIN t /\ t[k + 1] = new[n + 1]
      BY <1>5, <2>2
    <3>2. \A types : Follows(new, n, types) => Follows(t, k, types)
      BY <3>1 DEF Follows
    <3>3. /\ new[n].type = "agent.activated" =>
                /\ Follows(new, n, {"llm.response", "tool.call"})
                /\ \E j \in DOMAIN new : j > n /\ new[j].type \in Ends /\ new[j].actor = new[n].actor
          /\ new[n].type = "tool.call" => Follows(new, n, {"tool.call_denied"})
      BY DEF Linked
    <3> QED
      BY <3>1, <3>2, <3>3
  <2> QED
    BY <1>1, <1>3, <2>1, <2>2
<1>7. ASSUME NEW k \in DOMAIN t, k # 1
      PROVE  /\ t[k].type \in Turning => t[k].actor = t[k - 1].actor
             /\ t[k].type = "llm.response" => t[k - 1].type \in {"agent.activated", "tool.call_denied"}
             /\ t[k].type = "tool.call" => t[k - 1].type = "agent.activated"
             /\ t[k].type = "stage.submitted" => t[k - 1].type = "llm.response"
             /\ t[k].type = "tool.call_denied" /\ k + 1 \in DOMAIN t /\ t[k + 1].type = "llm.response" =>
                   t[k - 1].type = "tool.call" /\ t[k].actor = t[k - 1].actor
  <2>1. CASE k <= L
    <3>1. k \in Nat \ {0} /\ k \in DOMAIN q \ {1}
      BY <1>1, <1>3, <1>7, <2>1
    <3>2. k + 1 \in DOMAIN q \ {1} /\ t[k] = q[k + 1] /\ t[k - 1] = q[k] /\ k + 1 - 1 = k
      BY <1>2, <1>4, <2>1, <3>1
    <3>3. k + 1 \in DOMAIN t /\ t[k + 1].type = "llm.response" => k + 1 + 1 \in DOMAIN q /\ t[k + 1] = q[k + 1 + 1]
      <4>1. CASE k + 1 <= L
        <5>1. k + 1 + 1 \in DOMAIN q
          BY <1>1, <3>1, <4>1
        <5> QED
          BY <1>4, <2>1, <5>1
      <4>2. CASE ~(k + 1 <= L)
        <5>1. k + 1 = L + 1 /\ k + 1 - L = 1
          BY <1>1, <2>1, <3>1, <4>2
        <5>2. k + 1 \in DOMAIN t => 1 \in DOMAIN new /\ t[k + 1] = new[1]
          BY <1>2, <4>2, <5>1
        <5>3. 1 \in DOMAIN new => new[1].type \notin Turning
          BY DEF Whole
        <5> QED
          BY <5>2, <5>3 DEF Turning
      <4> QED
        BY <4>1, <4>2
    <3> DEFINE i == k + 1
    <3>4. /\ q[i].type \in Turning => q[i].actor = q[i - 1].actor
          /\ q[i].type = "llm.response" => q[i - 1].type \in {"agent.activated", "tool.call_denied"}
          /\ q[i].type = "tool.call" => q[i - 1].type = "agent.activated"
          /\ q[i].type = "stage.submitted" => q[i - 1].type = "llm.response"
          /\ q[i].type = "tool.call_denied" /\ i + 1 \in DOMAIN q /\ q[i + 1].type = "llm.response" =>
                q[i - 1].type = "tool.call" /\ q[i].actor = q[i - 1].actor
      <4>1. i \in DOMAIN q \ {1}
        BY <3>2
      <4> HIDE DEF i
      <4> QED
        BY <4>1 DEF Preceded
    <3>5. t[k] = q[i] /\ t[k - 1] = q[i - 1]
      BY <3>2
    <3>6. k + 1 \in DOMAIN t /\ t[k + 1].type = "llm.response" =>
             i + 1 \in DOMAIN q /\ q[i + 1].type = "llm.response"
      BY <3>3
    <3> HIDE DEF i
    <3> QED
      BY <3>4, <3>5, <3>6
  <2>2. CASE k > L
    <3>1. PICK n \in DOMAIN new :
                /\ n \in Nat /\ k = L + n /\ t[k] = new[n]
                /\ \A i \in DOMAIN new : i > n => L + i \in DOMAIN t /\ L + i > k /\ t[L + i] = new[i]
                /\ n + 1 \in DOMAIN new => k + 1 \in DOMAIN t /\ t[k + 1] = new[n + 1]
      BY <1>5, <2>2
    <3>2. k + 1 \in DOMAIN t => n + 1 \in DOMAIN new /\ t[k + 1] = new[n + 1]
      <4>1. k + 1 > L /\ (k + 1) - L = n + 1 /\ k + 1 \in Nat /\ n \in Nat
        BY <1>1, <1>3, <3>1
      <4>2. ~(k + 1 <= L)
        BY <1>1, <4>1
      <4> DEFINE K == k + 1
      <4>3. ~(K <= L) /\ K - L = n + 1
        BY <4>1, <4>2
      <4> HIDE DEF K
      <4>4. K \in DOMAIN t => K - L \in DOMAIN new /\ t[K] = new[K - L]
        BY <1>2, <4>3
      <4>5. K \in DOMAIN t => n + 1 \in DOMAIN new /\ t[K] = new[n + 1]
        BY <4>3, <4>4
      <4> QED
        BY <4>5 DEF K
    <3>3. CASE n = 1
      <4>1. /\ new[1].type \notin Turning
            /\ ~(new[1].type = "tool.call_denied" /\ 2 \in DOMAIN new /\ new[2].type = "llm.response")
        BY <3>3 DEF Whole
      <4>2. n + 1 = 2
        BY <3>3
      <4> QED
        BY <3>1, <3>2, <3>3, <4>1, <4>2 DEF Turning
    <3>4. CASE n # 1
      <4>1. n - 1 \in DOMAIN new /\ k - 1 = L + (n - 1) /\ n \in DOMAIN new \ {1}
        BY <1>1, <3>1, <3>4
      <4>2. t[k - 1] = new[n - 1]
        BY <1>2, <4>1
      <4>3. /\ new[n].type \in Turning => new[n].actor = new[n - 1].actor
            /\ new[n].type = "llm.response" => new[n - 1].type \in {"agent.activated", "tool.call_denied"}
            /\ new[n].type = "tool.call" => new[n - 1].type = "agent.activated"
            /\ new[n].type = "stage.submitted" => new[n - 1].type = "llm.response"
            /\ new[n].type = "tool.call_denied" /\ n + 1 \in DOMAIN new /\ new[n + 1].type = "llm.response" =>
                  new[n - 1].type = "tool.call" /\ new[n].actor = new[n - 1].actor
        BY <4>1 DEF Preceded
      <4> QED
        BY <3>1, <3>2, <4>2, <4>3
    <3> QED
      BY <3>3, <3>4
  <2> QED
    BY <1>1, <1>3, <2>1, <2>2
<1> QED
  BY <1>6, <1>7 DEF Linked, Preceded

(* The first event of a log is one of these, of member m.                  *)
FirstIs(q, types, m) == q # <<>> /\ q[1].type \in types /\ q[1].actor = m

(* A member works only while the next event is of its turn, and the end of *)
(* its open turn is in the log.                                            *)
Attends(x, q, m) ==
    /\ x.state = "thinking" => FirstIs(q, {"llm.response", "tool.call"}, m) /\ x.open
    /\ x.state = "tool" => FirstIs(q, {"tool.call_denied"}, m) /\ x.open
    /\ FirstIs(q, Turning, m) => x.open
    /\ FirstIs(q, {"tool.call_denied"}, m) /\ 2 \in DOMAIN q /\ q[2].type = "llm.response" => x.open
    /\ x.open => \E j \in DOMAIN q : q[j].type \in Ends /\ q[j].actor = m

Attended(r, q) == r.status \notin Terminal => \A m \in Names : Attends(r.members[m], q, m)

LEMMA AttendsSanely ==
    ASSUME NEW q \in Seq(Events), q # <<>>, NEW x, NEW m, Attends(x, q, m)
    PROVE  Sane(x, q[1], m)
BY DEF Attends, FirstIs, Sane, Turning

LEMMA StepAttends ==
    ASSUME NEW r \in Runs, NEW q \in Seq(Events), q # <<>>, Linked(q), Preceded(q),
           NEW m \in Names, Attends(r.members[m], q, m),
           NEW d, Moved(r, q[1], d, m), NEW new, Adds(d.fx, new), NEW t, Advances(t, q, new)
    PROVE  Attends(d.run.members[m], t, m)
<1> DEFINE e == q[1]
           x == r.members[m]
           y == d.run.members[m]
           mine == e.actor = m
<1>1. /\ new \in Seq(Events) /\ Whole(new)
      /\ m \in Begun(d.fx) => \E k \in DOMAIN new : new[k].type \in Ends /\ new[k].actor = m
  BY DEF Adds
<1>2. /\ 1 \in DOMAIN q /\ Len(q) \in Nat \ {0} /\ DOMAIN q = 1 .. Len(q)
      /\ t \in Seq(Events) /\ DOMAIN t = 1 .. Len(t)
      /\ \A k \in DOMAIN t :
            \/ k < Len(q) /\ k + 1 \in DOMAIN q \ {1} /\ t[k] = q[k + 1]
            \/ k >= Len(q) /\ k - (Len(q) - 1) \in DOMAIN new /\ t[k] = new[k - (Len(q) - 1)]
      /\ \A i \in DOMAIN q \ {1} : i - 1 \in DOMAIN t /\ t[i - 1] = q[i]
      /\ \A j \in DOMAIN new : Len(q) - 1 + j \in DOMAIN t /\ t[Len(q) - 1 + j] = new[j]
  BY DEF Advances
<1>3. Sane(x, e, m)
  BY AttendsSanely
<1>4. /\ y.open => x.open \/ m \in Begun(d.fx) \/ (e.type = "agent.activated" /\ mine)
      /\ x.open /\ ~y.open => e.type \in Ends /\ mine
      /\ e.type \in Ends /\ mine /\ y.open => m \in Begun(d.fx)
      /\ e.type = "agent.activated" /\ mine => y.open
      /\ y.state = "thinking" =>
            \/ e.type = "agent.activated" /\ mine
            \/ x.state = "thinking" /\ ~(e.type \in {"llm.response", "tool.call"} /\ mine)
            \/ x.state = "tool" /\ e.type = "tool.call_completed" /\ mine
      /\ y.state = "tool" =>
            \/ e.type = "tool.call" /\ mine
            \/ x.state = "tool" /\ ~(e.type = "tool.call_denied" /\ mine)
      /\ y.state \in {"thinking", "tool"} => y.open
  BY <1>3 DEF Moved
<1>5. /\ x.state = "thinking" => e.type \in {"llm.response", "tool.call"} /\ mine
      /\ x.state = "tool" => e.type = "tool.call_denied" /\ mine
      /\ e.type \in Turning /\ mine => x.open
      /\ e.type = "tool.call_denied" /\ mine /\ 2 \in DOMAIN q /\ q[2].type = "llm.response" => x.open
      /\ x.open => \E j \in DOMAIN q : q[j].type \in Ends /\ q[j].actor = m
  BY DEF Attends, FirstIs
<1>6. /\ 2 \in DOMAIN q => t # <<>> /\ t[1] = q[2]
      /\ 2 \notin DOMAIN q /\ t # <<>> => 1 \in DOMAIN new /\ t[1] = new[1]
  <2>1. 2 \in DOMAIN q => 1 \in DOMAIN t /\ t[1] = q[2]
    <3>1. 2 \in DOMAIN q => 2 - 1 \in DOMAIN t /\ t[2 - 1] = q[2]
      BY <1>2
    <3> QED
      BY <3>1
  <2>2. t # <<>> => 1 \in DOMAIN t
    BY <1>2
  <2>3. ASSUME 2 \notin DOMAIN q, 1 \in DOMAIN t PROVE 1 \in DOMAIN new /\ t[1] = new[1]
    <3>1. Len(q) = 1
      BY <1>2, <2>3
    <3>2. 1 - (Len(q) - 1) = 1
      BY <3>1
    <3> QED
      BY <1>2, <2>3, <3>1, <3>2
  <2>4. 1 \in DOMAIN t => t # <<>>
    BY <1>2
  <2> QED
    BY <2>1, <2>2, <2>3, <2>4
<1>7. 1 \in DOMAIN new => new[1].type \notin Turning
  BY DEF Whole, Adds
<1> HIDE DEF e, x, y, mine
(* What comes behind the first event, when it is of the same turn.         *)
<1>8. ASSUME FirstIs(t, Turning, m) PROVE y.open
  <2>1. 2 \in DOMAIN q /\ t[1] = q[2]
    BY <1>6, <1>7, <1>8 DEF FirstIs
  <2>2. q[2].type \in Turning /\ q[2].actor = m
    BY <1>8, <2>1 DEF FirstIs
  <2>3. /\ q[2].actor = e.actor
        /\ q[2].type = "llm.response" => e.type \in {"agent.activated", "tool.call_denied"}
        /\ q[2].type = "tool.call" => e.type = "agent.activated"
        /\ q[2].type = "stage.submitted" => e.type = "llm.response"
    <3>1. 2 \in DOMAIN q \ {1} /\ 2 - 1 = 1
      BY <2>1
    <3> QED
      BY <2>2, <3>1 DEF Preceded, e
  <2>4. mine
    BY <2>2, <2>3 DEF mine
  <2>5. CASE e.type = "agent.activated"
    BY <1>4, <2>4, <2>5
  <2>6. CASE e.type # "agent.activated"
    <3>1. x.open /\ e.type \notin Ends
      BY <1>5, <2>1, <2>2, <2>3, <2>4, <2>6 DEF Turning, Ends
    <3> QED
      BY <1>4, <3>1
  <2> QED
    BY <2>5, <2>6
<1>9. ASSUME FirstIs(t, {"tool.call_denied"}, m), 2 \in DOMAIN t, t[2].type = "llm.response" PROVE y.open
  <2>1. CASE 2 \in DOMAIN q
    <3>1. t[1] = q[2] /\ q[2].type = "tool.call_denied" /\ q[2].actor = m
      BY <1>6, <1>9, <2>1 DEF FirstIs
    <3>2. 3 \in DOMAIN q /\ t[2] = q[3]
      <4>1. CASE 2 < Len(q)
        <5>1. 3 \in DOMAIN q \ {1} /\ 3 - 1 = 2
          BY <1>2, <4>1
        <5>2. t[3 - 1] = q[3]
          BY <1>2, <5>1
        <5> QED
          BY <5>1, <5>2
      <4>2. CASE ~(2 < Len(q))
        <5>1. Len(q) = 2 /\ 2 - (Len(q) - 1) = 1
          BY <1>2, <2>1, <4>2
        <5>2. 1 \in DOMAIN new /\ t[2] = new[1]
          BY <1>2, <1>9, <4>2, <5>1
        <5> QED
          BY <1>7, <1>9, <5>2 DEF Turning
      <4> QED
        BY <4>1, <4>2
    <3>3. e.type = "tool.call" /\ q[2].actor = e.actor
      <4>1. 2 \in DOMAIN q \ {1} /\ 2 - 1 = 1 /\ 2 + 1 = 3
        BY <2>1
      <4> QED
        BY <1>9, <3>1, <3>2, <4>1 DEF Preceded, e
    <3>4. x.open /\ e.type \notin Ends
      BY <1>5, <3>1, <3>3 DEF Turning, Ends, mine
    <3> QED
      BY <1>4, <3>4
  <2>2. CASE 2 \notin DOMAIN q
    <3>1. 1 \in DOMAIN new /\ t[1] = new[1] /\ Len(q) = 1
      BY <1>2, <1>6, <1>9, <2>2 DEF FirstIs
    <3>2. 2 \in DOMAIN new /\ t[2] = new[2]
      <4>1. ~(2 < Len(q)) /\ 2 - (Len(q) - 1) = 2
        BY <3>1
      <4> QED
        BY <1>2, <1>9, <4>1
    <3>3. new # <<>>
      BY <3>1
    <3> QED
      BY <1>1, <1>9, <3>1, <3>2, <3>3 DEF Whole, FirstIs
  <2> QED
    BY <2>1, <2>2
<1>10. ASSUME NEW types, Follows(q, 1, types), mine PROVE FirstIs(t, types, m)
  <2>1. 1 + 1 = 2
    OBVIOUS
  <2>2. 2 \in DOMAIN q /\ q[2].type \in types /\ q[2].actor = m
    BY <1>10, <2>1 DEF Follows, mine, e
  <2> QED
    BY <1>6, <2>2 DEF FirstIs
<1>11. ASSUME y.state = "thinking" PROVE FirstIs(t, {"llm.response", "tool.call"}, m)
  <2>1. e.type = "agent.activated" /\ mine
    BY <1>4, <1>5, <1>11
  <2>2. Follows(q, 1, {"llm.response", "tool.call"})
    BY <1>2, <2>1 DEF Linked, e
  <2> QED
    BY <1>10, <2>1, <2>2
<1>12. ASSUME y.state = "tool" PROVE FirstIs(t, {"tool.call_denied"}, m)
  <2>1. e.type = "tool.call" /\ mine
    BY <1>4, <1>5, <1>12
  <2>2. Follows(q, 1, {"tool.call_denied"})
    BY <1>2, <2>1 DEF Linked, e
  <2> QED
    BY <1>10, <2>1, <2>2
<1>13. ASSUME y.open PROVE \E j \in DOMAIN t : t[j].type \in Ends /\ t[j].actor = m
  <2>1. CASE m \in Begun(d.fx)
    <3>1. PICK k \in DOMAIN new : new[k].type \in Ends /\ new[k].actor = m
      BY <1>1, <2>1
    <3> QED
      BY <1>2, <3>1
  <2>2. CASE \E j \in DOMAIN q \ {1} : q[j].type \in Ends /\ q[j].actor = m
    BY <1>2, <2>2
  <2>3. CASE e.type = "agent.activated" /\ mine
    <3>1. PICK j \in DOMAIN q : j > 1 /\ q[j].type \in Ends /\ q[j].actor = m
      BY <1>2, <2>3 DEF Linked, e, mine
    <3> QED
      BY <2>2, <3>1
  <2>4. CASE x.open /\ m \notin Begun(d.fx)
    <3>1. PICK j \in DOMAIN q : q[j].type \in Ends /\ q[j].actor = m
      BY <1>5, <2>4
    <3>2. j # 1
      BY <1>4, <1>13, <2>4, <3>1 DEF e, mine
    <3> QED
      BY <2>2, <3>1, <3>2
  <2> QED
    BY <1>4, <1>13, <2>1, <2>3, <2>4
<1> QED
  BY <1>4, <1>8, <1>9, <1>11, <1>12, <1>13 DEF Attends, y

(* One event of a person or of the clock at the end of the log.            *)
LEMMA MoreAttends ==
    ASSUME NEW q \in Seq(Events), NEW e \in Events, e.type \in HumanTypes \cup {"timer.tick"}, Linked(q), Preceded(q)
    PROVE  /\ Linked(Append(q, e)) /\ Preceded(Append(q, e))
           /\ \A x, m : Attends(x, q, m) => Attends(x, Append(q, e), m)
<1> DEFINE t == Append(q, e)
<1>1. /\ DOMAIN t = 1 .. Len(t) /\ DOMAIN q = 1 .. Len(q) /\ t \in Seq(Events)
      /\ DOMAIN q \subseteq DOMAIN t /\ \A i \in DOMAIN q : t[i] = q[i]
      /\ Len(t) \in DOMAIN t /\ t[Len(t)] = e /\ \A i \in DOMAIN t : i \in DOMAIN q \/ i = Len(t)
      /\ Len(t) = Len(q) + 1 /\ Len(q) \in Nat
  BY OneMore
<1> HIDE DEF t
<1>2. e.type \notin Turning \cup {"agent.activated", "tool.call_denied"} \cup Ends
  BY DEF Turning, HumanTypes, Ends
<1>3. \A i \in DOMAIN t : i \notin DOMAIN q => t[i] = e
  BY <1>1
<1>4. ASSUME NEW i \in DOMAIN q PROVE \A types : Follows(q, i, types) => Follows(t, i, types)
  BY <1>1 DEF Follows
<1>5. Linked(t)
  <2> SUFFICES ASSUME NEW i \in DOMAIN t
               PROVE  /\ t[i].type = "agent.activated" =>
                            /\ Follows(t, i, {"llm.response", "tool.call"})
                            /\ \E j \in DOMAIN t : j > i /\ t[j].type \in Ends /\ t[j].actor = t[i].actor
                      /\ t[i].type = "tool.call" => Follows(t, i, {"tool.call_denied"})
    BY DEF Linked
  <2>1. CASE i \in DOMAIN q
    <3>1. /\ q[i].type = "agent.activated" =>
                /\ Follows(q, i, {"llm.response", "tool.call"})
                /\ \E j \in DOMAIN q : j > i /\ q[j].type \in Ends /\ q[j].actor = q[i].actor
          /\ q[i].type = "tool.call" => Follows(q, i, {"tool.call_denied"})
      BY <2>1 DEF Linked
    <3>2. t[i] = q[i]
      BY <1>1, <2>1
    <3>3. \A types : Follows(q, i, types) => Follows(t, i, types)
      BY <1>4, <2>1
    <3>4. ASSUME NEW j \in DOMAIN q PROVE j \in DOMAIN t /\ t[j] = q[j]
      BY <1>1
    <3> QED
      BY <3>1, <3>2, <3>3, <3>4
  <2>2. CASE i \notin DOMAIN q
    BY <1>2, <1>3, <2>2 DEF Turning
  <2> QED
    BY <2>1, <2>2
<1>6. Preceded(t)
  <2> SUFFICES ASSUME NEW i \in DOMAIN t \ {1}
               PROVE  /\ t[i].type \in Turning => t[i].actor = t[i - 1].actor
                      /\ t[i].type = "llm.response" => t[i - 1].type \in {"agent.activated", "tool.call_denied"}
                      /\ t[i].type = "tool.call" => t[i - 1].type = "agent.activated"
                      /\ t[i].type = "stage.submitted" => t[i - 1].type = "llm.response"
                      /\ t[i].type = "tool.call_denied" /\ i + 1 \in DOMAIN t /\ t[i + 1].type = "llm.response" =>
                            t[i - 1].type = "tool.call" /\ t[i].actor = t[i - 1].actor
    BY DEF Preceded
  <2>1. CASE i \in DOMAIN q
    <3>1. /\ q[i].type \in Turning => q[i].actor = q[i - 1].actor
          /\ q[i].type = "llm.response" => q[i - 1].type \in {"agent.activated", "tool.call_denied"}
          /\ q[i].type = "tool.call" => q[i - 1].type = "agent.activated"
          /\ q[i].type = "stage.submitted" => q[i - 1].type = "llm.response"
          /\ q[i].type = "tool.call_denied" /\ i + 1 \in DOMAIN q /\ q[i + 1].type = "llm.response" =>
                q[i - 1].type = "tool.call" /\ q[i].actor = q[i - 1].actor
      BY <2>1 DEF Preceded
    <3>2. i - 1 \in DOMAIN q
      BY <1>1, <2>1
    <3>3. t[i] = q[i] /\ t[i - 1] = q[i - 1]
      BY <1>1, <2>1, <3>2
    <3>4. i + 1 \in DOMAIN t /\ t[i + 1].type = "llm.response" => i + 1 \in DOMAIN q /\ q[i + 1].type = "llm.response"
      BY <1>1, <1>2, <1>3 DEF Turning
    <3> QED
      BY <3>1, <3>3, <3>4
  <2>2. CASE i \notin DOMAIN q
    BY <1>2, <1>3, <2>2 DEF Turning
  <2> QED
    BY <2>1, <2>2
<1>7. ASSUME NEW x, NEW m, Attends(x, q, m) PROVE Attends(x, t, m)
  <2>1. q # <<>> => 1 \in DOMAIN q /\ t # <<>> /\ t[1] = q[1]
    BY <1>1
  <2>2. q = <<>> => t[1] = e
    BY <1>1
  <2>3. \A types : FirstIs(q, types, m) => FirstIs(t, types, m)
    BY <2>1 DEF FirstIs
  <2>4. FirstIs(t, Turning, m) => FirstIs(q, Turning, m)
    BY <1>2, <2>1, <2>2 DEF FirstIs
  <2>5. FirstIs(t, {"tool.call_denied"}, m) => FirstIs(q, {"tool.call_denied"}, m)
    BY <1>2, <2>1, <2>2 DEF FirstIs
  <2>6. 2 \in DOMAIN t /\ t[2].type = "llm.response" => 2 \in DOMAIN q /\ q[2].type = "llm.response"
    BY <1>1, <1>2, <1>3 DEF Turning
  <2>7. (\E j \in DOMAIN q : q[j].type \in Ends /\ q[j].actor = m)
           => \E j \in DOMAIN t : t[j].type \in Ends /\ t[j].actor = m
    BY <1>1
  <2> QED
    BY <1>7, <2>3, <2>4, <2>5, <2>6, <2>7 DEF Attends
<1> QED
  BY <1>5, <1>6, <1>7 DEF t

TurnInv == LoopInv /\ Linked(queue) /\ Preceded(queue) /\ Attended(run, queue)

(* What a step does to a run that goes on.                                 *)
LEMMA StepHandles ==
    ASSUME LoopInv, NEW d, NEW new, Steps(d, new), run.status \notin Terminal
    PROVE  Handled(run, queue[1], d)
<1>1. run \in Runs /\ 1 \in DOMAIN queue
  BY DEF LoopInv, LoopType, Steps
<1>2. queue[1] \in Events /\ (queue[1].type = "run.started" => run = NewRun)
  BY <1>1, FirstEvents
<1> QED
  BY <1>1, <1>2, Decided DEF Steps

LEMMA EndedRunStays ==
    ASSUME NEW d, NEW new, Steps(d, new), run.status \in Terminal
    PROVE  run' = run /\ d.fx = <<>>
<1>1. d = Result(run, <<>>)
  BY DEF Steps, Decide
<1> QED
  BY <1>1 DEF Result, Steps

(* The turns in the log stay whole, whatever else is appended in between:  *)
(* a member works only while the next event is of its own turn, and while  *)
(* its turn is open the end of it is in the log (Member.TurnOpen,          *)
(* applyTurnDone).                                                         *)
THEOREM TurnInvariant == Spec => []TurnInv
<1>1. Init => Linked(queue) /\ Preceded(queue) /\ Attended(run, queue)
  <2> SUFFICES ASSUME Init PROVE Linked(queue) /\ Preceded(queue) /\ Attended(run, queue)
    OBVIOUS
  <2> DEFINE e == Human("run.started", 0, 0)
  <2>1. e.type = "run.started"
    BY DEF Human, Event
  <2> HIDE DEF e
  <2>2. queue = <<e>> /\ DOMAIN queue = {1} /\ queue[1] = e
    BY DEF Init, e
  <2>3. Linked(queue) /\ Preceded(queue)
    BY <2>1, <2>2 DEF Linked, Preceded
  <2>4. ASSUME NEW m \in Names PROVE run.members[m].state \in {"inactive", "idle"} /\ run.members[m].open = FALSE
    BY DEF Init, NewRun, NewMember
  <2>5. ASSUME NEW m \in Names PROVE Attends(run.members[m], queue, m)
    BY <2>1, <2>2, <2>4 DEF Attends, FirstIs, Turning
  <2> QED
    BY <2>3, <2>5 DEF Attended
<1>2. TurnInv /\ LoopInv' /\ [Next]_vars => TurnInv'
  <2> SUFFICES ASSUME TurnInv, LoopInv', [Next]_vars PROVE TurnInv'
    OBVIOUS
  <2>1. /\ LoopInv /\ run \in Runs /\ queue \in Seq(Events)
        /\ Linked(queue) /\ Preceded(queue) /\ Attended(run, queue)
    BY DEF TurnInv, LoopInv, LoopType
  <2>2. CASE Step
    <3>1. PICK d, new : Steps(d, new)
      BY <2>1, <2>2, StepIs
    <3>2. /\ queue # <<>> /\ Adds(d.fx, new) /\ Advances(queue', queue, new) /\ run' = d.run
          /\ new \in Seq(Events) /\ Linked(new) /\ Preceded(new) /\ Whole(new)
      BY <3>1 DEF Steps, Adds
    <3>3. Linked(queue') /\ Preceded(queue')
      BY <2>1, <3>2, StepLinked
    <3>4. ASSUME run'.status \notin Terminal, NEW m \in Names PROVE Attends(run'.members[m], queue', m)
      <4>1. run.status \notin Terminal
        BY <3>1, <3>4, EndedRunStays
      <4>2. Moved(run, queue[1], d, m)
        BY <2>1, <3>1, <4>1, StepHandles DEF Handled
      <4>3. Attends(run.members[m], queue, m)
        BY <2>1, <4>1 DEF Attended
      <4>4. Attends(d.run.members[m], queue', m)
        BY <2>1, <3>2, <4>2, <4>3, StepAttends
      <4> QED
        BY <3>2, <4>4
    <3> QED
      BY <3>3, <3>4 DEF TurnInv, Attended
  <2>3. ASSUME NEW e, Adding(e), e.type \in HumanTypes \cup {"timer.tick"} PROVE TurnInv'
    <3>1. e \in Events /\ queue' = Append(queue, e) /\ run' = run
      BY <2>3 DEF Adding
    <3>2. /\ Linked(Append(queue, e)) /\ Preceded(Append(queue, e))
          /\ \A x, m : Attends(x, queue, m) => Attends(x, Append(queue, e), m)
      BY <2>1, <2>3, <3>1, MoreAttends
    <3>3. Linked(queue') /\ Preceded(queue')
      BY <3>1, <3>2
    <3>4. ASSUME run.status \notin Terminal, NEW m \in Names PROVE Attends(run'.members[m], queue', m)
      BY <2>1, <3>1, <3>2, <3>4 DEF Attended
    <3> QED
      BY <3>1, <3>3, <3>4 DEF TurnInv, Attended
  <2>4. CASE Tick
    BY <2>1, <2>3, <2>4, TickAdds
  <2>5. CASE Recover
    BY <2>1, <2>5 DEF Recover, TurnInv
  <2>6. CASE People
    BY <2>1, <2>3, <2>6, PeopleAdd
  <2>7. CASE UNCHANGED vars
    BY <2>1, <2>7 DEF vars, TurnInv
  <2> QED
    BY <2>2, <2>4, <2>5, <2>6, <2>7 DEF Next
<1>3. Spec => []LoopInv
  BY LoopInvariant
<1>4. Init /\ LoopInv => TurnInv
  BY <1>1 DEF TurnInv
<1> QED
  BY <1>2, <1>3, <1>4, PTL DEF Spec

(* The next event is one after which the reducer forgets parked causes.    *)
Disturbed == queue # <<>> /\ Disturbs(run, queue[1])

ParkedInv == run.status = "running" => \A m \in Names : Served(run.members[m])

(* As long as no member's question is answered while the run is blocked on *)
(* another one, and no watcher's tool is denied while its member waits or  *)
(* has failed, nobody is stranded: in a running run with nothing left to   *)
(* decide no member is taken for working and none has causes that nothing  *)
(* will give it (applyTurnDone, drainParked, checkQuiescence).             *)
THEOREM NobodyStranded == Spec /\ []~Disturbed => []NobodyIsStranded
<1>1. Init => ParkedInv
  BY DEF Init, NewRun, ParkedInv
<1>2. TurnInv /\ ~Disturbed /\ ParkedInv /\ [Next]_vars => ParkedInv'
  <2> SUFFICES ASSUME TurnInv, ~Disturbed, ParkedInv, [Next]_vars, run'.status = "running", NEW m \in Names
               PROVE  Served(run'.members[m])
    BY DEF ParkedInv
  <2>1. LoopInv /\ run \in Runs /\ queue \in Seq(Events) /\ Attended(run, queue)
    BY DEF TurnInv, LoopInv, LoopType
  <2>2. CASE Step
    <3>1. PICK d, new : Steps(d, new)
      BY <2>1, <2>2, StepIs
    <3>2. queue # <<>> /\ run' = d.run
      BY <3>1 DEF Steps
    <3>3. run.status \notin Terminal
      <4>1. "running" \notin Terminal
        BY DEF Terminal
      <4> QED
        BY <3>1, <4>1, EndedRunStays
    <3>4. Moved(run, queue[1], d, m)
      BY <2>1, <3>1, <3>3, StepHandles DEF Handled
    <3>5. Attends(run.members[m], queue, m)
      BY <2>1, <3>3 DEF Attended
    <3>6. Sane(run.members[m], queue[1], m)
      BY <2>1, <3>2, <3>5, AttendsSanely
    <3>7. ~Disturbs(run, queue[1]) /\ (run.status = "running" => Served(run.members[m]))
      BY <3>2 DEF Disturbed, ParkedInv
    <3>8. d.run.status = "running"
      BY <3>2
    <3>9. Served(d.run.members[m])
      BY <3>4, <3>6, <3>7, <3>8 DEF Moved
    <3> QED
      BY <3>2, <3>9
  <2>3. ASSUME run' = run PROVE Served(run'.members[m])
    BY <2>3 DEF ParkedInv
  <2>4. CASE Tick
    BY <2>3, <2>4 DEF Tick
  <2>5. CASE Recover
    BY <2>3, <2>5 DEF Recover
  <2>6. CASE People
    BY <2>1, <2>3, <2>6, PeopleAdd DEF Adding
  <2>7. CASE UNCHANGED vars
    BY <2>3, <2>7 DEF vars
  <2> QED
    BY <2>2, <2>4, <2>5, <2>6, <2>7 DEF Next
<1>3. TurnInv /\ ParkedInv => NobodyIsStranded
  <2> SUFFICES ASSUME TurnInv, ParkedInv, queue = <<>>, run.status = "running", NEW m \in Names
               PROVE  ~Busy(run.members[m]) /\ ~Runnable(run.members[m])
    BY DEF NobodyIsStranded
  <2>1. Attends(run.members[m], queue, m)
    BY DEF TurnInv, Attended, Terminal
  <2>2. ~run.members[m].open /\ run.members[m].state \notin {"thinking", "tool"}
    BY <2>1 DEF Attends, FirstIs
  <2>3. Served(run.members[m])
    BY DEF ParkedInv
  <2> QED
    BY <2>2, <2>3 DEF Served, Busy, Runnable
<1> QED
  BY <1>1, <1>2, <1>3, TurnInvariant, PTL DEF Spec

-----------------------------------------------------------------------------
(* The deadline of the run: the clock has it, or its tick is undecided.    *)
ClockInv ==
    run.status \notin Terminal /\ run.timer # 0 =>
        run.timer \in armed \/ \E i \in Queued({"timer.tick"}) : queue[i].n = run.timer

LEMMA StepKeepsTime ==
    ASSUME LoopInv, ClockInv, NEW d, NEW new, Steps(d, new)
    PROVE  ClockInv'
<1> SUFFICES ASSUME run'.status \notin Terminal, run'.timer # 0
             PROVE  \/ run'.timer \in armed'
                    \/ \E i \in DOMAIN queue' : queue'[i].type = "timer.tick" /\ queue'[i].n = run'.timer
  BY DEF ClockInv, Queued
<1>1. /\ run' = d.run /\ Advances(queue', queue, new)
      /\ armed' = (armed \ Timers(d.fx, "cancel_timer")) \cup Timers(d.fx, "set_timer")
  BY DEF Steps
<1>2. run.status \notin Terminal
  BY EndedRunStays
<1>3. Timed(run, queue[1], d)
  BY <1>2, StepHandles DEF Handled
<1>4. Timers(d.fx, "cancel_timer") = {}
  BY <1>1, <1>3 DEF Timed, Timers
<1>5. CASE \E i \in DOMAIN d.fx : d.fx[i].op = "set_timer" /\ d.fx[i].stage = d.run.timer
  BY <1>1, <1>5 DEF Timers
<1>6. CASE d.run.timer = run.timer
  <2>1. CASE run.timer \in armed
    BY <1>1, <1>4, <1>6, <2>1
  <2>2. CASE \E i \in Queued({"timer.tick"}) : queue[i].n = run.timer
    <3>1. PICK i \in DOMAIN queue : queue[i].type = "timer.tick" /\ queue[i].n = run.timer
      BY <2>2 DEF Queued
    <3>2. i # 1
      BY <1>1, <1>3, <1>6, <3>1 DEF Timed
    <3>3. i - 1 \in DOMAIN queue' /\ queue'[i - 1] = queue[i]
      BY <1>1, <3>1, <3>2 DEF Advances
    <3> QED
      BY <1>1, <1>6, <3>1, <3>3
  <2> QED
    BY <1>1, <1>2, <1>6, <2>1, <2>2 DEF ClockInv
<1> QED
  BY <1>1, <1>3, <1>5, <1>6 DEF Timed

(* A stage never loses its deadline: while the run has one, the clock      *)
(* fires for it or its tick is in the log (applyStageEntered,              *)
(* applyTimerTick), as long as nobody recovers the run with a new clock.   *)
THEOREM DeadlinesKept ==
    ASSUME ~ClockForgets
    PROVE  Spec => []ClockInv
<1>1. Init => ClockInv
  BY DEF Init, NewRun, ClockInv
<1>2. LoopInv /\ ClockInv /\ [Next]_vars => ClockInv'
  <2> SUFFICES ASSUME LoopInv, ClockInv, [Next]_vars PROVE ClockInv'
    OBVIOUS
  <2>1. queue \in Seq(Events)
    BY DEF LoopInv, LoopType
  <2>2. CASE Step
    <3>1. PICK d, new : Steps(d, new)
      BY <2>2, StepIs
    <3> QED
      BY <3>1, StepKeepsTime
  <2>3. ASSUME NEW e, Adding(e), \A s \in armed : s \in armed' \/ (e.type = "timer.tick" /\ e.n = s)
        PROVE  ClockInv'
    <3>1. e \in Events /\ queue' = Append(queue, e) /\ run' = run
      BY <2>3 DEF Adding
    <3>2. /\ \A i \in DOMAIN queue : i \in DOMAIN queue' /\ queue'[i] = queue[i]
          /\ \E i \in DOMAIN queue' : queue'[i] = e
      BY <2>1, <3>1, OneMore
    <3> QED
      BY <2>3, <3>1, <3>2 DEF ClockInv, Queued
  <2>4. CASE Tick
    <3>1. PICK e : Adding(e) /\ e.type = "timer.tick" /\ e.n \in armed /\ armed' = armed \ {e.n}
      BY <2>4, TickAdds
    <3> QED
      BY <2>3, <3>1
  <2>5. CASE Recover
    BY <2>5 DEF Recover
  <2>6. CASE People
    <3>1. PICK e : Adding(e)
      BY <2>6, PeopleAdd
    <3>2. armed' = armed
      BY <2>6 DEF People, Prompt, Pause, Unpause, UnpauseRaising, Cancel, Reply, Says
    <3> QED
      BY <2>3, <3>1, <3>2
  <2>7. CASE UNCHANGED vars
    BY <2>7 DEF vars, ClockInv, Queued
  <2> QED
    BY <2>2, <2>4, <2>5, <2>6, <2>7 DEF Next
<1> QED
  BY <1>1, <1>2, LoopInvariant, PTL DEF Spec

-----------------------------------------------------------------------------
(* An event after which nothing is left to be done, of a run that goes on, *)
(* has the run diagnosed, unless somebody was asked.                       *)
LEMMA Diagnoses ==
    ASSUME NEW r \in Runs, NEW e \in Events, e.type = "run.started" => r = NewRun, r.status \notin Terminal,
           NEW d, d = Decide(r, e), d.run.status = "running", d.run.timer = 0, ~d.run.resolved,
           \A i \in DOMAIN d.fx : d.fx[i].op = "cancel_timer",
           \A m \in Names : ~Busy(d.run.members[m]) /\ ~Runnable(d.run.members[m])
    PROVE  d.run.quiescent \/ Listed(d.run) # {}
<1> DEFINE seen == Watched(Apply(r, e), e)
           t == [seen.run EXCEPT !.quiescent = TRUE]
           noted == seen.fx \o <<Emit(Derived(e, "run.quiescent", 0))>>
<1>1. Handled(r, e, seen)
  BY Seen
<1>2. seen.run \in Runs /\ seen.fx \in Seq(Effects)
  BY <1>1 DEF Handled
<1>3. d = IF Quiet(seen.run, e, seen.fx) THEN Result(t, OrderEffects(noted))
          ELSE Result(seen.run, OrderEffects(seen.fx))
  BY DEF Decide, Concluded
<1>4. t.quiescent = TRUE
  BY <1>2 DEF Runs
<1> HIDE DEF seen, t, noted
<1>5. CASE Quiet(seen.run, e, seen.fx)
  <2>1. d.run = t
    BY <1>3, <1>5 DEF Result
  <2> QED
    BY <1>4, <2>1
<1>6. CASE ~Quiet(seen.run, e, seen.fx)
  <2>1. d.run = seen.run /\ d.fx = OrderEffects(seen.fx)
    BY <1>3, <1>6 DEF Result
  <2>2. ASSUME NEW i \in DOMAIN seen.fx PROVE seen.fx[i].op = "cancel_timer"
    <3>1. PICK k \in DOMAIN OrderEffects(seen.fx) : OrderEffects(seen.fx)[k] = seen.fx[i]
      BY <1>2, OrderKeeps
    <3> QED
      BY <2>1, <3>1
  <2>3. e.type # "run.quiescent"
    <3> SUFFICES ASSUME e.type = "run.quiescent" PROVE FALSE
      OBVIOUS
    <3> DEFINE w == Wake(r, e)
               failed == [w.run EXCEPT !.status = "failed"]
    <3>1. seen = RunQuiescent(r, e)
      BY DEF seen, Watched, Apply, WatcherDispatched
    <3>2. seen = IF w.fx = <<>> THEN Result(failed, <<>>) ELSE w
      BY <3>1 DEF RunQuiescent, Diagnosed
    <3>3. PICK A, B : Woken(r, w, A, B)
      BY WakeFacts
    <3>4. failed.status = "failed"
      BY <3>3 DEF Woken, SameButMembers, Runs
    <3> HIDE DEF w, failed
    <3>5. CASE w.fx = <<>>
      <4>1. seen.run = failed
        BY <3>2, <3>5 DEF Result
      <4> QED
        BY <2>1, <3>4, <4>1
    <3>6. CASE w.fx # <<>>
      <4>1. seen.fx = w.fx /\ w.fx \in Seq(Effects)
        BY <3>2, <3>3, <3>6 DEF Woken
      <4>2. 1 \in DOMAIN w.fx
        BY <3>6, <4>1
      <4>3. w.fx[1].op \in {"spawn", "call"}
        BY <3>3, <4>2 DEF Woken
      <4> QED
        BY <2>2, <4>1, <4>2, <4>3
    <3> QED
      BY <3>5, <3>6
  <2>4. \/ seen.run.quiescent
        \/ \E i \in DOMAIN seen.run.inbox : seen.run.inbox[i].listed /\ ~seen.run.inbox[i].replied
    BY <1>6, <2>1, <2>2, <2>3 DEF Quiet
  <2> QED
    BY <2>1, <2>4 DEF Listed
<1> QED
  BY <1>5, <1>6

(* As long as no tool call is lost, nobody recovers the run with a new     *)
(* clock, and the reducer forgets no parked cause, a running run never     *)
(* stands still unnoticed: with nothing left to decide and no timer to     *)
(* wait for it was diagnosed or waits for an answer (checkQuiescence).     *)
THEOREM SilenceDiagnosed ==
    ASSUME ~ClockForgets, "lost" \notin CallKinds
    PROVE  Spec /\ []~Disturbed => []SilenceIsDiagnosed
<1>1. Init => SilenceIsDiagnosed
  BY DEF Init, SilenceIsDiagnosed
<1>2. /\ SilenceIsDiagnosed /\ LoopInv /\ (LoopInv /\ ClockInv /\ NobodyIsStranded)' /\ [Next]_vars
      => SilenceIsDiagnosed'
  <2> SUFFICES ASSUME SilenceIsDiagnosed, LoopInv, LoopInv', ClockInv', NobodyIsStranded', [Next]_vars,
                      queue' = <<>>, armed' = {}, run'.status = "running"
               PROVE  run'.quiescent \/ Listed(run') # {}
    BY DEF SilenceIsDiagnosed, Listed
  <2>1. CASE Step
    <3>1. PICK d, new : Steps(d, new)
      BY <2>1, StepIs
    <3>2. /\ queue # <<>> /\ run' = d.run /\ d = Decide(run, queue[1]) /\ d.fx \in Seq(Effects) /\ Adds(d.fx, new)
          /\ armed' = (armed \ Timers(d.fx, "cancel_timer")) \cup Timers(d.fx, "set_timer")
          /\ Advances(queue', queue, new)
      BY <3>1 DEF Steps
    <3>3. run.status \notin Terminal /\ run'.status \notin Terminal
      <4>1. "running" \notin Terminal
        BY DEF Terminal
      <4> QED
        BY <3>1, <4>1, EndedRunStays
    <3>4. run \in Runs /\ queue[1] \in Events /\ (queue[1].type = "run.started" => run = NewRun)
      <4>1. queue \in Seq(Events) /\ run \in Runs
        BY DEF LoopInv, LoopType
      <4>2. 1 \in DOMAIN queue
        BY <3>2, <4>1
      <4> QED
        BY <4>1, <4>2, FirstEvents
    <3>5. new = <<>>
      <4>1. DOMAIN queue' = {}
        OBVIOUS
      <4>2. DOMAIN new = {}
        BY <3>2, <4>1 DEF Advances
      <4>3. new \in Seq(Events)
        BY <3>2 DEF Adds
      <4> QED
        BY <4>2, <4>3
    <3>6. ASSUME NEW i \in DOMAIN d.fx PROVE d.fx[i].op = "cancel_timer"
      <4>1. d.fx[i].op \notin {"emit", "spawn", "ask", "call"}
        BY <3>2, <3>5 DEF Adds, Speaking
      <4>2. d.fx[i].op # "set_timer"
        <5>1. Timers(d.fx, "set_timer") = {}
          BY <3>2
        <5>2. d.fx[i].op = "set_timer" => d.fx[i].stage \in Timers(d.fx, "set_timer")
          BY DEF Timers
        <5> QED
          BY <5>1, <5>2
      <4>3. d.fx[i] \in Effects
        BY <3>2
      <4> QED
        BY <4>1, <4>2, <4>3 DEF Effects
    <3>7. run'.timer = 0
      BY <3>3 DEF ClockInv, Queued
    <3>8. ~run'.resolved
      <4>1. run'.resolved => Queueing(queue', Big) # {}
        BY <3>3 DEF LoopInv, LeadsOnce
      <4> QED
        BY <4>1 DEF Queueing
    <3>9. \A m \in Names : ~Busy(run'.members[m]) /\ ~Runnable(run'.members[m])
      BY DEF NobodyIsStranded, Busy, Runnable
    <3>10. d.run.quiescent \/ Listed(d.run) # {}
      BY <3>2, <3>3, <3>4, <3>6, <3>7, <3>8, <3>9, Diagnoses
    <3> QED
      BY <3>2, <3>10
  <2>2. ASSUME NEW e, Adding(e) PROVE FALSE
    BY <2>2 DEF Adding, LoopInv, LoopType
  <2>3. CASE Tick
    BY <2>2, <2>3, TickAdds
  <2>4. CASE Recover
    BY <2>4 DEF Recover
  <2>5. CASE People
    BY <2>2, <2>5, PeopleAdd
  <2>6. CASE UNCHANGED vars
    BY <2>6 DEF vars, SilenceIsDiagnosed
  <2> QED
    BY <2>1, <2>3, <2>4, <2>5, <2>6 DEF Next
<1>3. Spec => []ClockInv
  BY DeadlinesKept
<1> QED
  BY <1>1, <1>2, <1>3, LoopInvariant, NobodyStranded, PTL DEF Spec

-----------------------------------------------------------------------------
(* One turn at a time.  Two handlers begin a turn without asking whether   *)
(* one is open: a stage that is entered, for members still busy with the   *)
(* last one, and an answer, for the member that asked.                     *)
Overlaps(r, e) ==
    /\ r.status \notin Terminal \cup {"paused"}
    /\ \E m \in Names :
          /\ r.members[m].open
          /\ \/ /\ e.type = "stage.entered" /\ r.status # "blocked"
                /\ m \in Participants(e.n) /\ r.members[m].state \notin {"failed", "waiting"}
             \/ e.type = "inbox.replied" /\ r.members[m].on = e.n

(* The turns that begin are of members that have none, one for each.       *)
Single(r, e, fx) ==
    /\ Lone(fx)
    /\ \A m \in Begun(fx) : r.members[m].open => Overlaps(r, e) \/ (e.type \in Ends /\ e.actor = m)

OnceEach(fx, who) ==
    Lone(fx) /\ Begun(fx) \subseteq who /\ fx \in Seq({fx[i] : i \in DOMAIN fx})

Silent(fx) == \A i \in DOMAIN fx : fx[i].op # "spawn"

LEMMA SilentIsSingle ==
    ASSUME NEW fx, Silent(fx)
    PROVE  Lone(fx) /\ Begun(fx) = {} /\ \A r, e : Single(r, e, fx)
<1>1. Begun(fx) = {}
  BY NoneBegun DEF Silent
<1>2. Lone(fx)
  BY DEF Silent, Lone
<1> QED
  BY <1>1, <1>2 DEF Single

LEMMA SilentEffects ==
    /\ Silent(<<>>)
    /\ \A f : f.op # "spawn" => Silent(<<f>>)
    /\ \A f, g : f.op # "spawn" /\ g.op # "spawn" => Silent(<<f, g>>)
BY DEF Silent

LEMMA TurnsEach ==
    ASSUME NEW who, who \subseteq Names, NEW fx,
           fx = [i \in DOMAIN InOrder(who) |-> fx[i]],
           \A i \in DOMAIN InOrder(who) : fx[i].op = "spawn" /\ fx[i].agent = InOrder(who)[i]
    PROVE  OnceEach(fx, who)
<1> DEFINE order == InOrder(who)
<1>1. order \in Seq(who)
  BY RosterOrder
<1>2. DOMAIN fx = DOMAIN order
  OBVIOUS
<1>3. Spawns(fx, who)
  BY <1>2, OneTurnEach
<1>4. Begun(fx) = who
  BY <1>3, BegunIs
<1>5. Lone(fx)
  BY <1>3 DEF Spawns, Lone
<1>6. fx \in Seq({fx[i] : i \in DOMAIN fx})
  <2> HIDE DEF order
  <2>1. DOMAIN fx = 1 .. Len(order) /\ Len(order) \in Nat
    BY <1>1, <1>2
  <2>2. fx = [i \in 1 .. Len(order) |-> fx[i]]
    BY <1>1, <2>1 DEF order
  <2>3. \A i \in 1 .. Len(order) : fx[i] \in {fx[j] : j \in DOMAIN fx}
    BY <2>1
  <2> DEFINE S == {fx[j] : j \in DOMAIN fx}
  <2> HIDE DEF S
  <2>4. fx \in [1 .. Len(order) -> S]
    BY <2>2, <2>3 DEF S
  <2>5. fx \in Seq(S)
    BY <2>1, <2>4
  <2> QED
    BY <2>5 DEF S
<1> QED
  BY <1>4, <1>5, <1>6 DEF OnceEach

LEMMA EmptyTurns == OnceEach(<<>>, {})
<1>1. DOMAIN <<>> = {}
  OBVIOUS
<1> QED
  BY <1>1, NoneBegun DEF OnceEach, Lone

LEMMA SpawnsEach ==
    ASSUME NEW r, NEW who, who \subseteq Names, NEW e
    PROVE  OnceEach(Spawn(r, who, e).fx, IF Halted(r) THEN {} ELSE who)
<1> DEFINE order == InOrder(who)
           fx == [i \in DOMAIN order |-> SpawnTurn(order[i], {e.id} \cup {}, r, e)]
<1>1. CASE Halted(r)
  <2>1. Spawn(r, who, e).fx = <<>>
    BY <1>1 DEF Spawn, SpawnCauses, Result
  <2> QED
    BY <1>1, <2>1, EmptyTurns
<1>2. CASE ~Halted(r)
  <2>1. Spawn(r, who, e).fx = fx
    BY <1>2 DEF Spawn, SpawnCauses, Result
  <2>2. \A i \in DOMAIN order : fx[i].op = "spawn" /\ fx[i].agent = order[i]
    BY DEF SpawnTurn
  <2>3. fx = [i \in DOMAIN order |-> fx[i]]
    OBVIOUS
  <2> HIDE DEF fx
  <2>4. OnceEach(fx, who)
    BY <2>2, <2>3, TurnsEach
  <2> QED
    BY <1>2, <2>1, <2>4
<1> QED
  BY <1>1, <1>2

LEMMA DrainsEach ==
    ASSUME NEW r, NEW who, who \subseteq Names, NEW e
    PROVE  OnceEach(Drain(r, who, e).fx, who)
<1> DEFINE s == With(r, who, LAMBDA x : [x EXCEPT !.pending = {}])
           order == InOrder(who)
           fx == [i \in DOMAIN order |-> SpawnTurn(order[i], {e.id} \cup r.members[order[i]].pending, s, e)]
<1>1. CASE Halted(s)
  <2>1. Drain(r, who, e).fx = <<>>
    BY <1>1 DEF Drain, SpawnCauses, Result
  <2> QED
    BY <2>1, EmptyTurns DEF OnceEach
<1>2. CASE ~Halted(s)
  <2>1. Drain(r, who, e).fx = fx
    BY <1>2 DEF Drain, SpawnCauses, Result
  <2>2. \A i \in DOMAIN order : fx[i].op = "spawn" /\ fx[i].agent = order[i]
    BY DEF SpawnTurn
  <2>3. fx = [i \in DOMAIN order |-> fx[i]]
    OBVIOUS
  <2> HIDE DEF fx
  <2>4. OnceEach(fx, who)
    BY <2>2, <2>3, TurnsEach
  <2> QED
    BY <2>1, <2>4
<1> QED
  BY <1>1, <1>2

LEMMA JoinedLone ==
    ASSUME NEW S, NEW p \in Seq(S), NEW q \in Seq(S), Lone(p), Lone(q), Begun(p) \cap Begun(q) = {}
    PROVE  Lone(p \o q) /\ Begun(p \o q) = Begun(p) \cup Begun(q)
<1> DEFINE s == p \o q
<1>1. /\ Len(p) \in Nat /\ Len(q) \in Nat /\ Len(s) = Len(p) + Len(q)
      /\ DOMAIN s = 1 .. Len(s) /\ DOMAIN p = 1 .. Len(p) /\ DOMAIN q = 1 .. Len(q)
      /\ \A i \in 1 .. Len(p) : s[i] = p[i]
      /\ \A i \in 1 .. Len(q) : s[Len(p) + i] = q[i]
  OBVIOUS
<1> HIDE DEF s
<1> DEFINE L == Len(p)
<1>2. ASSUME NEW i \in DOMAIN s
      PROVE  \/ i \in DOMAIN p /\ s[i] = p[i]
             \/ \E k \in DOMAIN q : i = L + k /\ s[i] = q[k]
  <2>1. CASE i \in 1 .. L
    BY <1>1, <2>1
  <2>2. CASE i \notin 1 .. L
    <3>1. i - L \in 1 .. Len(q) /\ L + (i - L) = i
      BY <1>1, <2>2
    <3>2. s[i] = q[i - L]
      BY <1>1, <3>1
    <3> QED
      BY <1>1, <3>1, <3>2
  <2> QED
    BY <2>1, <2>2
<1>3. ASSUME NEW i \in DOMAIN s, NEW j \in DOMAIN s,
             s[i].op = "spawn", s[j].op = "spawn", s[i].agent = s[j].agent
      PROVE  i = j
  <2>1. \/ i \in DOMAIN p /\ s[i] = p[i]
        \/ \E k \in DOMAIN q : i = L + k /\ s[i] = q[k]
    BY <1>2
  <2>2. \/ j \in DOMAIN p /\ s[j] = p[j]
        \/ \E k \in DOMAIN q : j = L + k /\ s[j] = q[k]
    BY <1>2
  <2> HIDE DEF L
  <2>3. \A k \in DOMAIN p : p[k].op = "spawn" => p[k].agent \in Begun(p)
    BY DEF Begun
  <2>4. \A k \in DOMAIN q : q[k].op = "spawn" => q[k].agent \in Begun(q)
    BY DEF Begun
  <2>5. ~(s[i].agent \in Begun(p) /\ s[i].agent \in Begun(q))
    OBVIOUS
  <2> QED
    BY <1>3, <2>1, <2>2, <2>3, <2>4, <2>5 DEF Lone
<1>4. ASSUME NEW m \in Begun(s) PROVE m \in Begun(p) \cup Begun(q)
  <2>1. PICK i \in DOMAIN s : s[i].op = "spawn" /\ s[i].agent = m
    BY DEF Begun
  <2> QED
    BY <1>2, <2>1 DEF Begun
<1>5. ASSUME NEW m \in Begun(p) PROVE m \in Begun(s)
  <2>1. PICK k \in DOMAIN p : p[k].op = "spawn" /\ p[k].agent = m
    BY DEF Begun
  <2>2. k \in DOMAIN s /\ s[k] = p[k]
    BY <1>1
  <2> QED
    BY <2>1, <2>2 DEF Begun
<1>6. ASSUME NEW m \in Begun(q) PROVE m \in Begun(s)
  <2>1. PICK k \in DOMAIN q : q[k].op = "spawn" /\ q[k].agent = m
    BY DEF Begun
  <2>2. L + k \in DOMAIN s /\ s[L + k] = q[k]
    BY <1>1
  <2> QED
    BY <2>1, <2>2 DEF Begun
<1>7. Lone(s)
  BY <1>3 DEF Lone
<1> QED
  BY <1>4, <1>5, <1>6, <1>7 DEF s

LEMMA OrderLone ==
    ASSUME NEW f \in Seq(Effects), Lone(f)
    PROVE  Lone(OrderEffects(f)) /\ Begun(OrderEffects(f)) = Begun(f)
<1> DEFINE g == OrderEffects(f)
<1>1. g \in Seq(Effects) /\ \E p : Places(g, f, 1 .. Len(f), p)
  BY OrderedPlaces
<1>2. PICK p : Places(g, f, 1 .. Len(f), p)
  BY <1>1
<1> HIDE DEF g
<1>3. DOMAIN f = 1 .. Len(f) /\ DOMAIN g = 1 .. Len(g)
  BY <1>1
<1>4. /\ \A k \in DOMAIN g : p[k] \in DOMAIN f /\ g[k] = f[p[k]]
      /\ \A k, l \in DOMAIN g : p[k] = p[l] => k = l
  BY <1>2, <1>3 DEF Places
<1>5. Lone(g)
  BY <1>4 DEF Lone
<1> QED
  BY <1>5, OrderKeeps DEF g

LEMMA TakesShut ==
    ASSUME NEW r \in Runs, NEW m \in Names, Takes(r.members[m]), r.members[m].state # "failed"
    PROVE  ~r.members[m].open
BY DEF Takes, Busy

(* Turns of members that could take one.                                   *)
LEMMA FreeTurns ==
    ASSUME NEW r, NEW e, NEW fx, NEW who, OnceEach(fx, who), \A m \in who : ~r.members[m].open
    PROVE  Single(r, e, fx)
BY DEF OnceEach, Single

LEMMA PromptSingly ==
    ASSUME NEW r \in Runs, NEW e \in Events, e.type = "run.prompt"
    PROVE  Single(r, e, Injected(r, e).fx)
<1> DEFINE to == IF e.to = Nobody THEN SteerTarget ELSE e.to
           reached == IF to = "*" THEN {m \in Names : r.members[m].state # "inactive"} ELSE {to}
           later == {m \in reached : ~Takes(r.members[m])}
           now == {m \in reached \ later : r.members[m].state # "failed"}
           R == With(Park(r, later, e), now, LAMBDA x : [x EXCEPT !.state = "idle", !.submitted = FALSE])
<1>1. to \in Names \cup {"*"}
  <2>1. e.to = Nobody
    BY DEF Events, EventOK
  <2> QED
    BY <2>1, RosterFacts
<1>2. reached \subseteq Names
  BY <1>1
<1>3. Injected(r, e) = Spawn(R, now, e)
  BY DEF Injected
<1> HIDE DEF reached
<1>4. now \subseteq Names /\ \A m \in now : ~r.members[m].open
  BY <1>2, TakesShut
<1> HIDE DEF now, R
<1>5. OnceEach(Spawn(R, now, e).fx, IF Halted(R) THEN {} ELSE now)
  BY <1>4, SpawnsEach
<1> QED
  BY <1>3, <1>4, <1>5, FreeTurns

(* The causes that are drained are of members that can take a turn.        *)
LEMMA DrainSingly ==
    ASSUME NEW r \in Runs, NEW e, NEW s, s.members = r.members
    PROVE  Single(r, e, DrainParked(s, e).fx)
<1> DEFINE who == {m \in Names : s.members[m].pending # {} /\ Takes(s.members[m])
                                  /\ s.members[m].state # "failed"}
           R == With(s, who, Idle)
<1>1. DrainParked(s, e) = Drain(R, who, e)
  BY DEF DrainParked
<1>2. who \subseteq Names /\ \A m \in who : ~r.members[m].open
  BY TakesShut
<1> HIDE DEF who, R
<1>3. OnceEach(Drain(R, who, e).fx, who)
  BY <1>2, DrainsEach
<1> QED
  BY <1>1, <1>2, <1>3, FreeTurns

LEMMA ResumeSingly ==
    ASSUME NEW r \in Runs, NEW e \in Events
    PROVE  Single(r, e, Unpaused(r, e).fx)
<1> DEFINE t == RaiseBudget(r, e)
           s == [t EXCEPT !.status = "running"]
<1>1. t \in Runs /\ t.members = r.members
  <2>1. e.n \in Nat
    BY DEF Events
  <2> QED
    BY <2>1 DEF RaiseBudget, Runs
<1> HIDE DEF t
<1>2. s.members = r.members
  BY <1>1 DEF Runs
<1> HIDE DEF s
<1>3. Single(r, e, DrainParked(s, e).fx)
  BY <1>2, DrainSingly
<1> QED
  BY <1>3 DEF Unpaused, s, t

LEMMA AnswerSingly ==
    ASSUME NEW r \in Runs, NEW e \in Events, e.type = "inbox.replied", r.status \notin Terminal
    PROVE  Single(r, e, InboxReplied(r, e).fx)
<1> DEFINE t == [r.inbox EXCEPT ![e.n].replied = TRUE]
           answered == [r EXCEPT !.inbox[e.n].replied = TRUE]
           freed == {m \in Names : r.members[m].on = e.n}
           running == [answered EXCEPT !.status = IF @ = "blocked" THEN "running" ELSE @]
           f == [m \in Names |-> IF m \in freed THEN [r.members[m] EXCEPT !.state = "idle", !.on = 0] ELSE r.members[m]]
           R == With(running, freed, LAMBDA x : [x EXCEPT !.state = "idle", !.on = 0])
           b == InboxReplied(r, e)
<1>1. t \in Seq(Items)
  BY MarkedInbox
<1>2. answered = [r EXCEPT !.inbox = t]
  BY DEF Runs
<1> HIDE DEF t
<1>3. answered \in Runs /\ answered.members = r.members /\ answered.status = r.status
  <2> HIDE DEF answered
  <2> QED
    BY <1>1, <1>2 DEF Runs
<1>4. b = IF freed # {} THEN Spawn(R, freed, e)
          ELSE IF r.status = "blocked" THEN DrainParked(running, e) ELSE Result(answered, <<>>)
  BY DEF InboxReplied
<1> HIDE DEF answered
<1>5. /\ running \in Runs /\ running.members = r.members
      /\ running.status = IF r.status = "blocked" THEN "running" ELSE r.status
  BY <1>3 DEF Runs, Statuses
<1>6. R = [running EXCEPT !.members = f]
  <2> HIDE DEF running, freed
  <2> QED
    BY <1>5 DEF With
<1> HIDE DEF running, f, R, b
<1>7. R.status = running.status
  BY <1>5, <1>6 DEF Runs
<1>8. CASE freed # {}
  <2>1. freed \subseteq Names /\ b = Spawn(R, freed, e)
    BY <1>4, <1>8
  <2>2. OnceEach(b.fx, IF Halted(R) THEN {} ELSE freed)
    <3> HIDE DEF freed
    <3> QED
      BY <2>1, SpawnsEach
  <2>3. ASSUME NEW m \in Begun(b.fx), r.members[m].open PROVE Overlaps(r, e)
    <3>1. ~Halted(R) /\ m \in freed
      BY <2>2, <2>3 DEF OnceEach
    <3>2. r.status # "paused"
      BY <1>5, <1>7, <3>1 DEF Halted
    <3> QED
      BY <2>3, <3>1, <3>2 DEF Overlaps
  <2> QED
    BY <2>2, <2>3 DEF Single, OnceEach, b
<1>9. CASE freed = {} /\ r.status = "blocked"
  <2>1. b = DrainParked(running, e)
    BY <1>4, <1>9
  <2>2. Single(r, e, DrainParked(running, e).fx)
    BY <1>5, DrainSingly
  <2> QED
    BY <2>1, <2>2 DEF b
<1>10. CASE freed = {} /\ r.status # "blocked"
  <2>1. b = Result(answered, <<>>)
    BY <1>4, <1>10
  <2>2. b.fx = <<>>
    BY <2>1 DEF Result
  <2> QED
    BY <2>2, SilentEffects, SilentIsSingle DEF b
<1> QED
  BY <1>8, <1>9, <1>10

LEMMA SeqWider ==
    ASSUME NEW S, NEW T, S \subseteq T, NEW q \in Seq(S)
    PROVE  q \in Seq(T)
<1>1. q = [i \in 1 .. Len(q) |-> q[i]] /\ Len(q) \in Nat /\ \A i \in 1 .. Len(q) : q[i] \in S
  OBVIOUS
<1>2. \A i \in 1 .. Len(q) : q[i] \in T
  BY <1>1
<1> QED
  BY <1>1, <1>2

LEMMA StageSingly ==
    ASSUME NEW r \in Runs, NEW e \in Events, e.type = "stage.entered", r.status \notin Terminal
    PROVE  Single(r, e, StageEntered(r, e).fx)
<1> DEFINE timed == Stages[e.n].timed
           reached == {m \in Participants(e.n) : r.members[m].state # "failed"}
           later == {m \in reached : r.members[m].state = "waiting"}
           now == reached \ later
           t == [r EXCEPT !.stage = e.n, !.resolved = FALSE, !.timer = IF timed THEN e.n ELSE @]
           g == [m \in Names |-> [r.members[m] EXCEPT !.submitted = FALSE]]
           entered == [t EXCEPT !.members = g]
           f1 == [m \in Names |-> IF m \in later THEN [g[m] EXCEPT !.pending = @ \cup {e.id}] ELSE g[m]]
           f2 == [m \in Names |-> IF m \in now THEN Idle(f1[m]) ELSE f1[m]]
           R == [[entered EXCEPT !.members = f1] EXCEPT !.members = f2]
           pre == IF timed THEN <<SetTimer(e.n)>> ELSE <<>>
           q == Spawn(R, now, e).fx
           b == StageEntered(r, e)
<1>1. b.fx = pre \o q
  <2>1. t.members = r.members
    BY DEF Runs
  <2>2. With(t, Names, LAMBDA x : [x EXCEPT !.submitted = FALSE]) = entered
    BY <2>1 DEF With
  <2>3. entered.members = g
    BY DEF Runs
  <2>4. Park(entered, later, e) = [entered EXCEPT !.members = f1]
    <3> HIDE DEF entered, g, later
    <3> QED
      BY <2>3 DEF Park, With
  <2>5. [entered EXCEPT !.members = f1].members = f1
    BY DEF Runs
  <2>6. With([entered EXCEPT !.members = f1], now, Idle) = R
    <3> HIDE DEF entered, f1, now
    <3> QED
      BY <2>5 DEF With
  <2>7. With(Park(With(t, Names, LAMBDA x : [x EXCEPT !.submitted = FALSE]), later, e), now, Idle) = R
    BY <2>2, <2>4, <2>6
  <2> QED
    BY <2>7 DEF StageEntered, Result
<1>2. R.status = r.status
  <2> HIDE DEF g, f1, f2
  <2> QED
    BY DEF Runs
<1>3. now \subseteq Names /\ \A m \in now : m \in Participants(e.n) /\ r.members[m].state \notin {"failed", "waiting"}
  <2>1. Participants(e.n) \subseteq Names
    <3>1. e.n \in StageNumbers
      BY DEF Events, EventOK
    <3> QED
      BY <3>1, StageFacts DEF Participants
  <2> QED
    BY <2>1
<1> HIDE DEF timed, now, R, b
<1>4. OnceEach(q, IF Halted(R) THEN {} ELSE now)
  BY <1>3, SpawnsEach
<1> HIDE DEF q
<1>5. Silent(pre) /\ \E T : pre \in Seq(T)
  <2>1. CASE timed
    <3>1. pre = <<SetTimer(e.n)>> /\ SetTimer(e.n).op # "spawn"
      BY <2>1 DEF SetTimer
    <3> DEFINE f == SetTimer(e.n)
    <3> HIDE DEF f
    <3>2. <<f>> \in Seq({f})
      OBVIOUS
    <3> QED
      BY <3>1, <3>2, SilentEffects DEF f
  <2>2. CASE ~timed
    <3>1. pre = <<>> /\ <<>> \in Seq({})
      BY <2>2
    <3> QED
      BY <3>1, SilentEffects
  <2> QED
    BY <2>1, <2>2
<1> HIDE DEF pre
<1>6. PICK T : pre \in Seq(T)
  BY <1>5
<1> DEFINE U == {q[i] : i \in DOMAIN q}
           W == T \cup U
<1>7. q \in Seq(U)
  BY <1>4 DEF OnceEach
<1> HIDE DEF U
<1>8. T \subseteq W /\ U \subseteq W
  OBVIOUS
<1> HIDE DEF W
<1>9. pre \in Seq(W) /\ q \in Seq(W)
  BY <1>6, <1>7, <1>8, SeqWider
<1>10. Lone(pre) /\ Begun(pre) = {}
  BY <1>5, SilentIsSingle
<1>11. Lone(q) /\ Begun(pre) \cap Begun(q) = {}
  BY <1>4, <1>10 DEF OnceEach
<1>12. Lone(pre \o q) /\ Begun(pre \o q) = Begun(q)
  <2>1. Lone(pre) /\ Lone(q) /\ Begun(pre) \cap Begun(q) = {}
    BY <1>10, <1>11
  <2>2. Lone(pre \o q) /\ Begun(pre \o q) = Begun(pre) \cup Begun(q)
    BY <1>9, <2>1, JoinedLone
  <2> QED
    BY <1>10, <2>2
<1>13. ASSUME NEW m \in Begun(q), r.members[m].open PROVE Overlaps(r, e)
  <2>1. ~Halted(R) /\ m \in now
    BY <1>4, <1>13 DEF OnceEach
  <2>2. r.status \notin {"blocked", "paused"}
    BY <1>2, <2>1 DEF Halted
  <2> QED
    BY <1>3, <1>13, <2>1, <2>2 DEF Overlaps
<1> QED
  BY <1>1, <1>12, <1>13 DEF Single, b

LEMMA EndSingly ==
    ASSUME NEW r \in Runs, NEW e \in Events, e.type = "agent.turn_done"
    PROVE  Single(r, e, TurnDone(r, e).fx)
<1> DEFINE a == e.actor
           m == r.members[a]
           closed == With(r, {a}, LAMBDA x : [x EXCEPT !.open = FALSE])
           back == With(closed, IF m.submitted THEN {} ELSE {a}, Idle)
           b == TurnDone(r, e)
<1>1. \/ b = Drain(back, {a}, e)
      \/ \E s : b = Result(s, <<>>)
  BY DEF TurnDone
<1>2. {a} \subseteq Names
  BY ActorFacts DEF TurnTypes
<1> HIDE DEF back, b
<1>3. CASE b = Drain(back, {a}, e)
  <2>1. OnceEach(b.fx, {a})
    BY <1>2, <1>3, DrainsEach
  <2> QED
    BY <2>1 DEF OnceEach, Single, Ends, b
<1>4. ASSUME NEW s, b = Result(s, <<>>) PROVE Single(r, e, b.fx)
  <2>1. b.fx = <<>>
    BY <1>4 DEF Result
  <2> QED
    BY <2>1, SilentEffects, SilentIsSingle
<1> QED
  BY <1>1, <1>3, <1>4 DEF b

(* The turns of watchers are of members that can take one.                 *)
LEMMA WokenAlone ==
    ASSUME NEW r \in Runs, NEW w, NEW A, NEW B, Woken(r, w, A, B)
    PROVE  Lone(w.fx) /\ w.fx \in Seq(Effects) /\ \A m \in Begun(w.fx) : ~r.members[m].open
<1>1. Spawns(w.fx, IF Halted(r) THEN {} ELSE A) /\ w.fx \in Seq(Effects)
  BY DEF Woken
<1>2. Begun(w.fx) \subseteq A
  BY <1>1, BegunIs
<1>3. Lone(w.fx)
  BY <1>1 DEF Spawns, Lone
<1>4. \A m \in A : m \in Names /\ Takes(r.members[m]) /\ r.members[m].state # "failed"
  BY DEF Woken
<1> QED
  BY <1>1, <1>2, <1>3, <1>4, TakesShut

LEMMA JoinedSilent ==
    ASSUME NEW S, NEW p \in Seq(S), NEW q \in Seq(S), Silent(p), Silent(q)
    PROVE  Silent(p \o q)
<1>1. Joins(p \o q, p, q)
  BY JoinedParts
<1> DEFINE s == p \o q
<1>2. \A i \in DOMAIN s : (\E k \in DOMAIN p : s[i] = p[k]) \/ (\E k \in DOMAIN q : s[i] = q[k])
  BY <1>1 DEF Joins
<1> HIDE DEF s
<1>3. \A i \in DOMAIN s : s[i].op # "spawn"
  BY <1>2 DEF Silent
<1> QED
  BY <1>3 DEF Silent, s

LEMMA SubmittedSilently ==
    ASSUME NEW r \in Runs, NEW e \in Events, e.type = "stage.submitted"
    PROVE  Silent(StageSubmitted(r, e).fx)
<1> DEFINE said == With(r, {e.actor}, LAMBDA x : [x EXCEPT !.submitted = TRUE, !.state = "submitted"])
           p == IF r.timer # 0 THEN <<CancelTimer(r.timer)>> ELSE <<>>
           b == StageSubmitted(r, e)
<1>1. IF Resolves(said) THEN b.fx = p \o Onward(r, e) ELSE b.fx = <<>>
  BY DEF StageSubmitted, Result
<1>2. said.stage = r.stage
  BY DEF With, Runs
<1> HIDE DEF said, b
<1>3. CASE ~Resolves(said)
  BY <1>1, <1>3, SilentEffects DEF b
<1>4. CASE Resolves(said)
  <2>1. r.stage # 0
    BY <1>2, <1>4 DEF Resolves
  <2>2. Onward(r, e) \in Seq(Effects) /\ \A i \in DOMAIN Onward(r, e) : Onward(r, e)[i].op = "emit"
    BY <2>1, OnwardFacts
  <2>3. Silent(Onward(r, e))
    BY <2>2 DEF Silent
  <2>4. p \in Seq(Effects) /\ Silent(p)
    <3>1. CASE r.timer # 0
      <4> DEFINE f == CancelTimer(r.timer)
      <4>1. f \in Effects /\ f.op # "spawn"
        BY <3>1, RunFields DEF CancelTimer, Effects
      <4> HIDE DEF f
      <4>2. <<f>> \in Seq(Effects) /\ Silent(<<f>>)
        BY <4>1, SilentEffects
      <4> QED
        BY <3>1, <4>2 DEF f
    <3>2. CASE r.timer = 0
      BY <3>2, SilentEffects
    <3> QED
      BY <3>1, <3>2
  <2> HIDE DEF p
  <2>5. Silent(p \o Onward(r, e))
    BY <2>2, <2>3, <2>4, JoinedSilent
  <2> QED
    BY <1>1, <1>4, <2>5 DEF b
<1> QED
  BY <1>3, <1>4

LEMMA WakeSingly ==
    ASSUME NEW r \in Runs, NEW e \in Events, NEW s \in Runs, s.members = r.members
    PROVE  Single(r, e, Wake(s, e).fx)
<1> DEFINE w == Wake(s, e)
<1>1. PICK A, B : Woken(s, w, A, B)
  BY WakeFacts
<1> HIDE DEF w
<1>2. Lone(w.fx) /\ \A m \in Begun(w.fx) : ~s.members[m].open
  BY <1>1, WokenAlone
<1> QED
  BY <1>2 DEF Single, w

LEMMA BlockedSilently ==
    ASSUME NEW r, NEW kind, NEW e
    PROVE  Silent(BlockAndAsk(r, kind, e).fx)
<1>1. BlockAndAsk(r, kind, e).fx = <<AskHuman(NextInboxId(r), Nobody, e)>>
  BY DEF BlockAndAsk, Result
<1>2. AskHuman(NextInboxId(r), Nobody, e).op # "spawn"
  BY DEF AskHuman
<1> QED
  BY <1>1, <1>2, SilentEffects

LEMMA TimeoutSingly ==
    ASSUME NEW r \in Runs, NEW e \in Events
    PROVE  Single(r, e, StageTimeout(r, e).fx)
<1> DEFINE off == [r EXCEPT !.timer = 0]
           action == IF r.stage = 0 THEN "escalate" ELSE Stages[r.stage].onTimeout
           w == Wake(off, e)
           b == StageTimeout(r, e)
<1>1. off \in Runs /\ off.members = r.members
  BY DEF Runs
<1>2. \/ \E s : b = Result(s, <<>>)
      \/ r.stage # 0 /\ \E s : b = Result(s, Onward(r, e))
      \/ b = Escalated(w, e)
  <2> HIDE DEF w
  <2>1. CASE r.resolved
    BY <2>1 DEF StageTimeout
  <2>2. CASE ~r.resolved /\ action = "fail"
    BY <2>2 DEF StageTimeout
  <2>3. CASE ~r.resolved /\ action = "advance"
    <3>1. r.stage # 0
      BY <2>3
    <3> QED
      BY <2>3, <3>1 DEF StageTimeout
  <2>4. CASE ~r.resolved /\ action \notin {"fail", "advance"}
    BY <2>4 DEF StageTimeout, w
  <2> QED
    BY <2>1, <2>2, <2>3, <2>4
<1> HIDE DEF off, b
<1>3. Single(r, e, w.fx)
  BY <1>1, WakeSingly
<1> HIDE DEF w
<1>4. ASSUME NEW s, b = Result(s, <<>>) PROVE Silent(b.fx)
  <2>1. b.fx = <<>>
    BY <1>4 DEF Result
  <2> QED
    BY <2>1, SilentEffects
<1>5. ASSUME r.stage # 0, NEW s, b = Result(s, Onward(r, e)) PROVE Silent(b.fx)
  <2>1. b.fx = Onward(r, e)
    BY <1>5 DEF Result
  <2>2. \A i \in DOMAIN Onward(r, e) : Onward(r, e)[i].op = "emit"
    BY <1>5, OnwardFacts
  <2> QED
    BY <2>1, <2>2 DEF Silent
<1>6. ASSUME b = Escalated(w, e) PROVE Silent(b.fx) \/ b.fx = w.fx
  <2>1. b = w \/ b = BlockAndAsk(w.run, "stage_timeout", e)
    BY <1>6 DEF Escalated
  <2> QED
    BY <2>1, BlockedSilently
<1>7. Silent(b.fx) \/ b.fx = w.fx
  BY <1>2, <1>4, <1>5, <1>6
<1> QED
  BY <1>3, <1>7, SilentIsSingle DEF b

LEMMA QuiescentSingly ==
    ASSUME NEW r \in Runs, NEW e \in Events
    PROVE  Single(r, e, RunQuiescent(r, e).fx)
<1> DEFINE w == Wake(r, e)
           b == RunQuiescent(r, e)
<1>1. Single(r, e, w.fx)
  BY WakeSingly
<1>2. b = w \/ \E s : b = Result(s, <<>>)
  BY DEF RunQuiescent, Diagnosed
<1> HIDE DEF w, b
<1>3. ASSUME NEW s, b = Result(s, <<>>) PROVE Silent(b.fx)
  <2>1. b.fx = <<>>
    BY <1>3 DEF Result
  <2> QED
    BY <2>1, SilentEffects
<1> QED
  BY <1>1, <1>2, <1>3, SilentIsSingle DEF b

(* A handler begins one turn for a member, and none over an open one,      *)
(* unless it is one of the two that do not ask.                            *)
LEMMA AppliedSingly ==
    ASSUME NEW r \in Runs, NEW e \in Events, r.status \notin Terminal
    PROVE  Single(r, e, Apply(r, e).fx)
<1> DEFINE b == Apply(r, e)
<1>1. CASE e.type \in {"run.paused", "run.cancelled", "run.expired", "run.result", "stage.advanced", "inbox.created",
                       "agent.failed", "tool.call", "tool.call_completed"}
  <2>1. b.fx = <<>>
    BY <1>1 DEF Apply, Result, AgentFailed, ToolCalled, ToolCompleted
  <2> QED
    BY <2>1, SilentEffects, SilentIsSingle
<1>2. CASE e.type = "run.started"
  <2> DEFINE f == Emit(Derived(e, "stage.entered", 1))
  <2>1. b.fx = <<>> \/ b.fx = <<f>>
    BY <1>2 DEF Apply, Started, Result
  <2>2. f.op # "spawn"
    BY DEF Emit
  <2> HIDE DEF f, b
  <2>3. Silent(b.fx)
    BY <2>1, <2>2, SilentEffects
  <2> QED
    BY <2>3, SilentIsSingle DEF b
<1>3. CASE e.type = "run.prompt"
  BY <1>3, PromptSingly DEF Apply
<1>4. CASE e.type = "run.unpaused"
  BY <1>4, ResumeSingly DEF Apply
<1>5. CASE e.type = "run.quiescent"
  BY <1>5, QuiescentSingly DEF Apply
<1>6. CASE e.type = "stage.entered"
  BY <1>6, StageSingly DEF Apply
<1>7. CASE e.type = "stage.submitted"
  <2>1. b = StageSubmitted(r, e)
    BY <1>7 DEF Apply
  <2> QED
    BY <1>7, <2>1, SubmittedSilently, SilentIsSingle
<1>8. CASE e.type = "stage.timeout"
  BY <1>8, TimeoutSingly DEF Apply
<1>9. CASE e.type = "agent.activated"
  <2> DEFINE f == Emit(Derived(e, "run.expired", 0))
  <2>1. b.fx = <<>> \/ b.fx = <<f>>
    BY <1>9 DEF Apply, Activated, Result
  <2>2. f.op # "spawn"
    BY DEF Emit
  <2> HIDE DEF f, b
  <2>3. Silent(b.fx)
    BY <2>1, <2>2, SilentEffects
  <2> QED
    BY <2>3, SilentIsSingle DEF b
<1>10. CASE e.type = "agent.turn_done"
  BY <1>10, EndSingly DEF Apply
<1>11. CASE e.type = "tool.call_denied"
  <2> DEFINE f == AskHuman(NextInboxId(r), e.actor, e)
  <2>1. b.fx = <<>> \/ b.fx = <<f>>
    BY <1>11 DEF Apply, ToolDenied, Result
  <2>2. f.op # "spawn"
    BY DEF AskHuman
  <2> HIDE DEF f, b
  <2>3. Silent(b.fx)
    BY <2>1, <2>2, SilentEffects
  <2> QED
    BY <2>3, SilentIsSingle DEF b
<1>12. CASE e.type = "llm.response"
  <2> DEFINE f == Emit(Derived(e, "budget.exceeded", 0))
  <2>1. b.fx = <<>> \/ b.fx = <<f>>
    <3> DEFINE paid == With([r EXCEPT !.spent = @ + e.n], {e.actor}, LAMBDA x : IF x.state = "thinking" THEN Idle(x) ELSE x)
    <3>1. b = CASE r.budget = 0 -> Result(paid, <<>>)
                [] r.budget # 0 /\ paid.spent >= r.budget /\ ~r.overBudget -> Result([paid EXCEPT !.overBudget = TRUE], <<f>>)
                [] OTHER -> Result([paid EXCEPT !.overBudget = paid.spent >= r.budget], <<>>)
      BY <1>12 DEF Apply, Charged
    <3> HIDE DEF paid, f, b
    <3> QED
      BY <3>1 DEF Result
  <2>2. f.op # "spawn"
    BY DEF Emit
  <2> HIDE DEF f, b
  <2>3. Silent(b.fx)
    BY <2>1, <2>2, SilentEffects
  <2> QED
    BY <2>3, SilentIsSingle DEF b
<1>13. CASE e.type = "budget.exceeded"
  <2>1. b = BlockAndAsk(r, "budget", e)
    BY <1>13 DEF Apply
  <2> QED
    BY <2>1, BlockedSilently, SilentIsSingle
<1>14. CASE e.type = "inbox.replied"
  BY <1>14, AnswerSingly DEF Apply
<1>15. CASE e.type = "timer.tick"
  <2> DEFINE f == Emit(Derived(e, "stage.timeout", r.stage))
  <2>1. b.fx = <<>> \/ b.fx = <<f>>
    BY <1>15 DEF Apply, TimerTick, Result
  <2>2. f.op # "spawn"
    BY DEF Emit
  <2> HIDE DEF f, b
  <2>3. Silent(b.fx)
    BY <2>1, <2>2, SilentEffects
  <2> QED
    BY <2>3, SilentIsSingle DEF b
<1>16. e.type \in EventTypes
  BY DEF Events
<1> HIDE DEF b
<1> QED
  BY <1>1, <1>2, <1>3, <1>4, <1>5, <1>6, <1>7, <1>8, <1>9, <1>10, <1>11, <1>12,
     <1>13, <1>14, <1>15, <1>16 DEF EventTypes, HumanTypes, TurnTypes, ToolTypes, MadeTypes, b

(* So do the watchers that see what it did, and what concludes it.         *)
LEMMA SeenSingly ==
    ASSUME NEW r \in Runs, NEW e \in Events, r.status \notin Terminal, e.type = "run.started" => r = NewRun
    PROVE  Single(r, e, Watched(Apply(r, e), e).fx)
<1> DEFINE b == Apply(r, e)
           w == Wake(b.run, e)
           seen == Watched(b, e)
<1>1. Single(r, e, b.fx)
  BY AppliedSingly
<1>2. Handled(r, e, b)
  BY Applied
<1>3. seen = b \/ seen = Result(w.run, b.fx \o w.fx)
  BY DEF Watched
<1> HIDE DEF b
<1>4. b.run \in Runs /\ b.fx \in Seq(Effects) /\ \A m \in Names : Moved(r, e, b, m)
  BY <1>2 DEF Handled
<1>5. PICK A, B : Woken(b.run, w, A, B)
  BY <1>4, WakeFacts
<1> HIDE DEF w, seen
<1>6. /\ Lone(w.fx) /\ w.fx \in Seq(Effects) /\ \A m \in Begun(w.fx) : ~b.run.members[m].open
      /\ Begun(w.fx) \subseteq Names
  <2>1. Begun(w.fx) \subseteq A /\ A \subseteq Names
    BY <1>5, BegunIs DEF Woken
  <2> QED
    BY <1>4, <1>5, <2>1, WokenAlone
<1>7. CASE seen = Result(w.run, b.fx \o w.fx)
  <2>1. seen.fx = b.fx \o w.fx
    BY <1>7 DEF Result
  <2>2. \A m \in Begun(b.fx) \cap Names : b.run.members[m].open
    BY <1>4 DEF Moved
  <2>3. Lone(b.fx) /\ Begun(b.fx) \cap Begun(w.fx) = {}
    BY <1>1, <1>6, <2>2 DEF Single
  <2>4. Lone(b.fx \o w.fx) /\ Begun(b.fx \o w.fx) = Begun(b.fx) \cup Begun(w.fx)
    BY <1>4, <1>6, <2>3, JoinedLone
  <2>5. ASSUME NEW m \in Begun(w.fx), r.members[m].open PROVE e.type \in Ends /\ e.actor = m
    <3>1. m \in Names /\ ~b.run.members[m].open
      BY <1>6
    <3> QED
      BY <1>4, <2>5, <3>1 DEF Moved
  <2>6. Lone(seen.fx) /\ Begun(seen.fx) = Begun(b.fx) \cup Begun(w.fx)
    BY <2>1, <2>4
  <2>7. ASSUME NEW m \in Begun(seen.fx), r.members[m].open
        PROVE  Overlaps(r, e) \/ (e.type \in Ends /\ e.actor = m)
    BY <1>1, <2>5, <2>6, <2>7 DEF Single
  <2> QED
    BY <2>6, <2>7 DEF Single, seen, b
<1> QED
  BY <1>1, <1>3, <1>7 DEF seen, b

LEMMA DecidedSingly ==
    ASSUME NEW r \in Runs, NEW e \in Events, r.status \notin Terminal, e.type = "run.started" => r = NewRun
    PROVE  Single(r, e, Decide(r, e).fx)
<1> DEFINE seen == Watched(Apply(r, e), e)
           f == Emit(Derived(e, "run.quiescent", 0))
           p == seen.fx
           q == p \o <<f>>
           d == Concluded(seen, e)
<1>1. Single(r, e, p) /\ p \in Seq(Effects)
  BY SeenSingly, Seen DEF Handled
<1>2. f \in Effects /\ f.op # "spawn"
  <2>1. "run.quiescent" \in MadeTypes /\ 0 \in Nat /\ "run.quiescent" \notin {"stage.entered", "stage.advanced"}
    BY DEF MadeTypes
  <2> QED
    BY <2>1, MadeEvents DEF Emit, Derived
<1>3. Decide(r, e) = d
  BY DEF Decide
<1>4. d.fx = OrderEffects(q) \/ d.fx = OrderEffects(p)
  BY DEF Concluded, Result
<1> HIDE DEF seen, f, d
<1>5. <<f>> \in Seq(Effects) /\ Lone(<<f>>) /\ Begun(<<f>>) = {}
  <2>1. Silent(<<f>>)
    BY <1>2, SilentEffects
  <2> QED
    BY <1>2, <2>1, SilentIsSingle
<1> HIDE DEF p
<1>6. q \in Seq(Effects) /\ Lone(q) /\ Begun(q) = Begun(p)
  <2> DEFINE g == <<f>>
  <2>1. g \in Seq(Effects) /\ Lone(g) /\ Begun(g) = {} /\ q = p \o g
    BY <1>5
  <2> HIDE DEF g, q
  <2>2. Lone(p) /\ Begun(p) \cap Begun(g) = {}
    BY <1>1, <2>1 DEF Single
  <2>3. Lone(p \o g) /\ Begun(p \o g) = Begun(p) \cup Begun(g)
    BY <1>1, <2>1, <2>2, JoinedLone
  <2>4. p \o g \in Seq(Effects)
    BY <1>1, <2>1
  <2> QED
    BY <2>1, <2>3, <2>4
<1> HIDE DEF q
<1>7. /\ Lone(OrderEffects(p)) /\ Begun(OrderEffects(p)) = Begun(p)
      /\ Lone(OrderEffects(q)) /\ Begun(OrderEffects(q)) = Begun(q)
  BY <1>1, <1>6, OrderLone DEF Single
<1> QED
  BY <1>1, <1>3, <1>4, <1>6, <1>7 DEF Single

(* Every end of a turn in the log is of an open turn, and no member has    *)
(* two.                                                                    *)
Marks(r, q) == EndsOnce(q) /\ \A i \in Queueing(q, Ends) : r.members[q[i].actor].open

LEMMA StepMarks ==
    ASSUME NEW r, NEW q \in Seq(Events), q # <<>>, Marks(r, q), ~Overlaps(r, q[1]),
           NEW d, \A m \in Names : Moved(r, q[1], d, m), Single(r, q[1], d.fx),
           NEW new, Adds(d.fx, new), NEW t, Advances(t, q, new)
    PROVE  Marks(d.run, t)
<1> DEFINE e == q[1]
           L == Len(q) - 1
           Old(k) == k < Len(q) /\ k + 1 \in DOMAIN q \ {1} /\ t[k] = q[k + 1]
           New(k) == k >= Len(q) /\ k - L \in DOMAIN new /\ t[k] = new[k - L]
<1>1. /\ Len(q) \in Nat \ {0} /\ DOMAIN q = 1 .. Len(q) /\ L \in Nat
      /\ \A i \in DOMAIN q : q[i] \in Events
      /\ t \in Seq(Events) /\ DOMAIN t = 1 .. Len(t) /\ \A k \in DOMAIN t : t[k] \in Events
      /\ \A k \in DOMAIN t : k \in Nat /\ (Old(k) \/ New(k))
  BY DEF Advances
<1>2. \A k \in Queueing(new, Ends) : new[k].actor \in Begun(d.fx)
  BY DEF Adds
<1>3. \A k, l \in DOMAIN new :
         new[k].type \in Ends /\ new[l].type \in Ends /\ new[k].actor = new[l].actor => k = l
  <2>1. EndsOnce(new)
    BY DEF Adds, Single
  <2> QED
    BY <2>1 DEF EndsOnce, Queueing
<1>4. \A i, j \in DOMAIN q :
         q[i].type \in Ends /\ q[j].type \in Ends /\ q[i].actor = q[j].actor => i = j
  BY DEF Marks, EndsOnce, Queueing
<1>5. ASSUME NEW k \in DOMAIN t, t[k].type \in Ends PROVE t[k].actor \in Names
  <2>1. t[k] \in Events /\ t[k].type \in TurnTypes
    BY <1>1, <1>5 DEF TurnTypes, Ends
  <2> QED
    BY <2>1 DEF Events, EventOK
<1>6. 1 \in DOMAIN q
  BY <1>1
<1>7. ASSUME NEW k \in DOMAIN t, t[k].type \in Ends, Old(k)
      PROVE  d.run.members[t[k].actor].open /\ t[k].actor \notin Begun(d.fx)
  <2> DEFINE a == t[k].actor
             K == k + 1
  <2>1. K \in DOMAIN q /\ K # 1 /\ q[K] = t[k]
    BY <1>7
  <2> HIDE DEF K
  <2>2. r.members[a].open
    BY <1>7, <2>1 DEF Marks, Queueing
  <2>3. ~(e.type \in Ends /\ e.actor = a)
    BY <1>4, <1>6, <1>7, <2>1
  <2>4. a \in Names
    BY <1>5, <1>7
  <2> HIDE DEF a, e
  <2>5. d.run.members[a].open
    BY <2>2, <2>3, <2>4 DEF Moved, e
  <2>6. a \notin Begun(d.fx)
    BY <2>2, <2>3 DEF Single, e
  <2> QED
    BY <2>5, <2>6 DEF a
<1>8. ASSUME NEW k \in DOMAIN t, t[k].type \in Ends, New(k)
      PROVE  d.run.members[t[k].actor].open /\ t[k].actor \in Begun(d.fx)
  <2>1. t[k].actor \in Begun(d.fx)
    BY <1>2, <1>8 DEF Queueing
  <2>2. t[k].actor \in Names
    BY <1>5, <1>8
  <2> QED
    BY <2>1, <2>2 DEF Moved
<1>9. ASSUME NEW k \in DOMAIN t, NEW l \in DOMAIN t, t[k].type \in Ends, t[l].type \in Ends, t[k].actor = t[l].actor
      PROVE  k = l
  <2>1. CASE Old(k) /\ Old(l)
    <3> DEFINE K == k + 1
               M == l + 1
    <3>1. K \in DOMAIN q /\ M \in DOMAIN q /\ q[K] = t[k] /\ q[M] = t[l]
      BY <2>1
    <3> HIDE DEF K, M
    <3>2. K = M
      BY <1>4, <1>9, <3>1
    <3> QED
      BY <1>1, <3>2 DEF K, M
  <2>2. CASE New(k) /\ New(l)
    <3> DEFINE K == k - L
               M == l - L
    <3>1. K \in DOMAIN new /\ M \in DOMAIN new /\ new[K] = t[k] /\ new[M] = t[l]
      BY <2>2
    <3> HIDE DEF K, M
    <3>2. K = M
      BY <1>3, <1>9, <3>1
    <3>3. k \in Nat /\ l \in Nat /\ L \in Nat
      BY <1>1
    <3> HIDE DEF L
    <3> QED
      BY <3>2, <3>3 DEF K, M
  <2>3. CASE (Old(k) /\ New(l)) \/ (New(k) /\ Old(l))
    BY <1>7, <1>8, <1>9, <2>3
  <2> QED
    BY <1>1, <2>1, <2>2, <2>3
<1>10. EndsOnce(t)
  BY <1>9 DEF EndsOnce, Queueing
<1>11. \A k \in Queueing(t, Ends) : d.run.members[t[k].actor].open
  BY <1>1, <1>7, <1>8 DEF Queueing
<1> QED
  BY <1>10, <1>11 DEF Marks

LEMMA MoreMarks ==
    ASSUME NEW r, NEW q \in Seq(Events), Marks(r, q), NEW e \in Events, e.type \in HumanTypes \cup {"timer.tick"}
    PROVE  Marks(r, Append(q, e))
<1> DEFINE t == Append(q, e)
<1>1. /\ \A i \in DOMAIN q : t[i] = q[i]
      /\ t[Len(t)] = e /\ \A i \in DOMAIN t : i \in DOMAIN q \/ i = Len(t)
  BY OneMore
<1> HIDE DEF t
<1>2. e.type \notin Ends
  BY DEF HumanTypes, Ends
<1>3. ASSUME NEW i \in Queueing(t, Ends) PROVE i \in Queueing(q, Ends) /\ t[i] = q[i]
  BY <1>1, <1>2 DEF Queueing
<1>4. EndsOnce(t)
  BY <1>3 DEF Marks, EndsOnce
<1>5. \A i \in Queueing(t, Ends) : r.members[t[i].actor].open
  BY <1>3 DEF Marks
<1> QED
  BY <1>4, <1>5 DEF Marks, t

(* The next event begins a turn for a member whose turn is open.           *)
Overlapping == queue # <<>> /\ Overlaps(run, queue[1])

MarkerInv == run.status \notin Terminal => Marks(run, queue)

(* Nobody is given two turns, as long as no event overlaps them.           *)
LEMMA MarkersHold == Spec /\ []~Overlapping => []MarkerInv
<1>1. Init => MarkerInv
  <2> SUFFICES ASSUME Init PROVE Marks(run, queue)
    BY DEF MarkerInv
  <2> DEFINE e == Human("run.started", 0, 0)
  <2>1. e.type \notin Ends
    BY DEF Human, Event, Ends
  <2> HIDE DEF e
  <2>2. DOMAIN queue = {1} /\ queue[1] = e
    BY DEF Init, e
  <2>3. Queueing(queue, Ends) = {}
    BY <2>1, <2>2 DEF Queueing
  <2> QED
    BY <2>3 DEF Marks, EndsOnce
<1>2. LoopInv /\ ~Overlapping /\ MarkerInv /\ [Next]_vars => MarkerInv'
  <2> SUFFICES ASSUME LoopInv, ~Overlapping, MarkerInv, [Next]_vars, run'.status \notin Terminal
               PROVE  Marks(run', queue')
    BY DEF MarkerInv
  <2>1. run \in Runs /\ queue \in Seq(Events)
    BY DEF LoopInv, LoopType
  <2>2. CASE Step
    <3>1. PICK d, new : Steps(d, new)
      BY <2>2, StepIs
    <3>2. run.status \notin Terminal
      BY <3>1, EndedRunStays
    <3>3. /\ queue # <<>> /\ Adds(d.fx, new) /\ Advances(queue', queue, new) /\ run' = d.run
          /\ d = Decide(run, queue[1])
      BY <3>1 DEF Steps
    <3>4. \A m \in Names : Moved(run, queue[1], d, m)
      BY <3>1, <3>2, StepHandles DEF Handled
    <3>5. 1 \in DOMAIN queue
      BY <2>1, <3>3
    <3>6. queue[1] \in Events /\ (queue[1].type = "run.started" => run = NewRun)
      BY <3>5, FirstEvents
    <3>7. Single(run, queue[1], d.fx)
      BY <2>1, <3>2, <3>3, <3>6, DecidedSingly
    <3>8. Marks(run, queue) /\ ~Overlaps(run, queue[1])
      BY <3>2, <3>3 DEF MarkerInv, Overlapping
    <3>9. Marks(d.run, queue')
      BY <2>1, <3>3, <3>4, <3>7, <3>8, StepMarks
    <3> QED
      BY <3>3, <3>9
  <2>3. ASSUME NEW e, Adding(e), e.type \in HumanTypes \cup {"timer.tick"} PROVE Marks(run', queue')
    <3>1. e \in Events /\ queue' = Append(queue, e) /\ run' = run
      BY <2>3 DEF Adding
    <3>2. Marks(run, queue)
      BY <3>1 DEF MarkerInv
    <3>3. Marks(run, Append(queue, e))
      BY <2>1, <2>3, <3>1, <3>2, MoreMarks
    <3> QED
      BY <3>1, <3>3
  <2>4. CASE Tick
    BY <2>3, <2>4, TickAdds
  <2>5. CASE Recover
    BY <2>5 DEF Recover, MarkerInv
  <2>6. CASE People
    BY <2>3, <2>6, PeopleAdd
  <2>7. CASE UNCHANGED vars
    BY <2>7 DEF vars, MarkerInv
  <2> QED
    BY <2>2, <2>4, <2>5, <2>6, <2>7 DEF Next
<1> QED
  BY <1>1, <1>2, LoopInvariant, PTL DEF Spec

(* As long as no stage is entered and no question answered while a member  *)
(* it gives a turn has one open, the marker of a member's open turn is     *)
(* exact: it is set precisely while the end of its turn is in the log to   *)
(* be decided, and there is one such end and no more (Member.TurnOpen,     *)
(* applyTurnDone).                                                         *)
THEOREM MarkersAreExact == Spec /\ []~Overlapping => []TurnMarkerIsExact
<1>1. TurnInv /\ MarkerInv => TurnMarkerIsExact
  <2> SUFFICES ASSUME TurnInv, MarkerInv, run.status \notin Terminal, NEW m \in Names
               PROVE  LET ends == {i \in Queued(Ends) : queue[i].actor = m}
                      IN IF run.members[m].open THEN Cardinality(ends) = 1 ELSE ends = {}
    BY DEF TurnMarkerIsExact, Ends
  <2> DEFINE ends == {i \in Queued(Ends) : queue[i].actor = m}
  <2>1. Queued(Ends) = Queueing(queue, Ends)
    BY DEF Queued, Queueing
  <2>2. Marks(run, queue)
    BY DEF MarkerInv
  <2>3. CASE run.members[m].open
    <3>1. Attends(run.members[m], queue, m)
      BY DEF TurnInv, Attended
    <3>2. PICK j \in DOMAIN queue : queue[j].type \in Ends /\ queue[j].actor = m
      BY <2>3, <3>1 DEF Attends
    <3>3. ends = {j}
      BY <2>1, <2>2, <3>2 DEF Marks, EndsOnce, Queueing
    <3>4. Cardinality(ends) = 1
      BY <3>3, FS_Singleton
    <3> QED
      BY <2>3, <3>4
  <2>4. CASE ~run.members[m].open
    <3>1. ends = {}
      BY <2>1, <2>2, <2>4 DEF Marks
    <3> QED
      BY <2>4, <3>1
  <2> QED
    BY <2>3, <2>4
<1> QED
  BY <1>1, TurnInvariant, MarkersHold, PTL

-----------------------------------------------------------------------------
(* Who waits, and for what.                                                *)
Held(r, m) ==
    LET x == r.members[m]
    IN /\ x.state = "waiting" <=> x.on # 0
       /\ x.on # 0 => x.on \in DOMAIN r.inbox /\ r.inbox[x.on].agent = m /\ ~r.inbox[x.on].replied

(* Member m waits in s if it does in r, for the same answer.               *)
Steady(r, s, m) ==
    LET x == r.members[m]
        y == s.members[m]
    IN /\ y.on = x.on /\ (y.state = "waiting" <=> x.state = "waiting")
       /\ x.on \in DOMAIN r.inbox =>
             /\ x.on \in DOMAIN s.inbox
             /\ s.inbox[x.on].agent = r.inbox[x.on].agent /\ s.inbox[x.on].replied = r.inbox[x.on].replied

(* What an event leaves of a member's waiting, unless the event sets to    *)
(* work a member that waits: it goes on, it ends, or the event begins it.  *)
Keeps(r, e, b, m) ==
    LET x == r.members[m]
        y == b.run.members[m]
    IN Held(r, m) /\ (e.type \in Starting /\ e.actor = m => x.state # "waiting") =>
         \/ Steady(r, b.run, m) /\ (m \in Begun(b.fx) => x.state # "waiting")
         \/ y.on = 0 /\ y.state # "waiting"
         \/ /\ e.type = "tool.call_denied" /\ e.actor = m
            /\ y.state = "waiting" /\ Held(b.run, m) /\ m \notin Begun(b.fx)

LEMMA SteadyHeld ==
    ASSUME NEW r, NEW s, NEW m, Steady(r, s, m), Held(r, m)
    PROVE  Held(s, m)
BY DEF Steady, Held

LEMMA KeepsHeld ==
    ASSUME NEW r, NEW e, NEW b, NEW m, Keeps(r, e, b, m), Held(r, m),
           e.type \in Starting /\ e.actor = m => r.members[m].state # "waiting"
    PROVE  /\ Held(b.run, m)
           /\ b.run.members[m].state = "waiting" =>
                 /\ m \notin Begun(b.fx)
                 /\ r.members[m].state = "waiting" \/ (e.type = "tool.call_denied" /\ e.actor = m)
<1>1. CASE Steady(r, b.run, m) /\ (m \in Begun(b.fx) => r.members[m].state # "waiting")
  BY <1>1, SteadyHeld DEF Steady
<1>2. CASE b.run.members[m].on = 0 /\ b.run.members[m].state # "waiting"
  BY <1>2 DEF Held
<1>3. CASE /\ e.type = "tool.call_denied" /\ e.actor = m
           /\ b.run.members[m].state = "waiting" /\ Held(b.run, m) /\ m \notin Begun(b.fx)
  BY <1>3
<1> QED
  BY <1>1, <1>2, <1>3 DEF Keeps

(* What a handler leaves, and something behind it leaves again.            *)
LEMMA KeepsOn ==
    ASSUME NEW r, NEW e, NEW b, NEW m, Keeps(r, e, b, m), NEW d, Steady(b.run, d.run, m),
           NEW who, Begun(d.fx) \subseteq Begun(b.fx) \cup who,
           m \in who => b.run.members[m].state # "waiting"
    PROVE  Keeps(r, e, d, m)
<1> SUFFICES ASSUME Held(r, m), e.type \in Starting /\ e.actor = m => r.members[m].state # "waiting"
             PROVE  \/ Steady(r, d.run, m) /\ (m \in Begun(d.fx) => r.members[m].state # "waiting")
                    \/ d.run.members[m].on = 0 /\ d.run.members[m].state # "waiting"
                    \/ /\ e.type = "tool.call_denied" /\ e.actor = m
                       /\ d.run.members[m].state = "waiting" /\ Held(d.run, m) /\ m \notin Begun(d.fx)
  BY DEF Keeps
<1>1. CASE Steady(r, b.run, m) /\ (m \in Begun(b.fx) => r.members[m].state # "waiting")
  <2>1. Steady(r, d.run, m)
    BY <1>1 DEF Steady
  <2>2. m \in who => r.members[m].state # "waiting"
    BY <1>1 DEF Steady
  <2> QED
    BY <1>1, <2>1, <2>2
<1>2. CASE b.run.members[m].on = 0 /\ b.run.members[m].state # "waiting"
  BY <1>2 DEF Steady
<1>3. CASE /\ e.type = "tool.call_denied" /\ e.actor = m
           /\ b.run.members[m].state = "waiting" /\ Held(b.run, m) /\ m \notin Begun(b.fx)
  <2>1. Held(d.run, m)
    BY <1>3, SteadyHeld
  <2>2. d.run.members[m].state = "waiting" /\ m \notin who
    BY <1>3 DEF Steady
  <2> QED
    BY <1>3, <2>1, <2>2
<1> QED
  BY <1>1, <1>2, <1>3 DEF Keeps

(* Every question is where it was.                                         *)
InboxKept(r, s) ==
    \A i \in DOMAIN r.inbox :
        i \in DOMAIN s.inbox /\ s.inbox[i].agent = r.inbox[i].agent /\ s.inbox[i].replied = r.inbox[i].replied

LEMMA SteadyMembers ==
    ASSUME NEW r, NEW s, InboxKept(r, s), NEW m, s.members[m].on = r.members[m].on,
           s.members[m].state = "waiting" <=> r.members[m].state = "waiting"
    PROVE  Steady(r, s, m)
BY DEF InboxKept, Steady

LEMMA PlainKeeps ==
    ASSUME NEW r, NEW e, NEW b, InboxKept(r, b.run), b.run.members = r.members, Silent(b.fx)
    PROVE  \A m \in Names : Keeps(r, e, b, m)
<1> TAKE m \in Names
<1>1. Steady(r, b.run, m)
  BY SteadyMembers
<1>2. Begun(b.fx) = {}
  BY SilentIsSingle
<1> QED
  BY <1>1, <1>2 DEF Keeps

(* An event of one member, which begins no turn.                           *)
LEMMA ActorKeeps ==
    ASSUME NEW r, NEW e, NEW b, InboxKept(r, b.run), Silent(b.fx),
           \A m \in Names \ {e.actor} : b.run.members[m] = r.members[m],
           b.run.members[e.actor].on = r.members[e.actor].on,
           e.type \notin Starting \/ r.members[e.actor].state # "waiting" =>
              (b.run.members[e.actor].state = "waiting" <=> r.members[e.actor].state = "waiting")
    PROVE  \A m \in Names : Keeps(r, e, b, m)
<1> TAKE m \in Names
<1>1. Begun(b.fx) = {}
  BY SilentIsSingle
<1>2. ASSUME e.type \in Starting /\ e.actor = m => r.members[m].state # "waiting" PROVE Steady(r, b.run, m)
  <2>1. /\ b.run.members[m].on = r.members[m].on
        /\ b.run.members[m].state = "waiting" <=> r.members[m].state = "waiting"
    BY <1>2
  <2> QED
    BY <2>1, SteadyMembers
<1> QED
  BY <1>1, <1>2 DEF Keeps

(* Members take turns, or are told why they should.                        *)
LEMMA TurnsSteady ==
    ASSUME NEW s \in Runs, NEW who, who \subseteq Names, NEW e \in Events,
           NEW d, d \in {Spawn(s, who, e), Drain(s, who, e)}
    PROVE  /\ Begun(d.fx) \subseteq who /\ d.fx \in Seq(Effects) /\ SameButMembers(s, d.run)
           /\ \A m \in Names : Steady(s, d.run, m)
<1>1. Spawned(s, d, who, e) \/ Drained(s, d, who, e)
  BY SpawnFacts, DrainFacts
<1>2. Turned(s, d, who, e)
  BY <1>1 DEF Spawned, Drained
<1>3. Begun(d.fx) \subseteq who
  BY <1>2, BegunIs DEF Turned
<1>4. SameButMembers(s, d.run) /\ d.run.inbox = s.inbox
  BY <1>2, SameFields DEF Turned
<1>5. ASSUME NEW m \in Names PROVE Steady(s, d.run, m)
  <2> DEFINE x == s.members[m]
  <2>1. x \in MemberRecords
    BY RunFields
  <2>2. d.run.members[m] \in {x, Parking(x, e), Opening(x), Serving(x)}
    BY <1>1 DEF Spawned, Drained
  <2> HIDE DEF x
  <2>3. d.run.members[m].on = x.on /\ d.run.members[m].state = x.state
    <3> DEFINE y == d.run.members[m]
    <3>1. /\ Parking(x, e).on = x.on /\ Opening(x).on = x.on /\ Serving(x).on = x.on
          /\ Parking(x, e).state = x.state /\ Opening(x).state = x.state /\ Serving(x).state = x.state
      BY <2>1, MemberMoves
    <3>2. y = x \/ y = Parking(x, e) \/ y = Opening(x) \/ y = Serving(x)
      BY <2>2
    <3> HIDE DEF y
    <3>3. y.on = x.on /\ y.state = x.state
      BY <3>1, <3>2
    <3> QED
      BY <3>3 DEF y
  <2>4. InboxKept(s, d.run)
    BY <1>4 DEF InboxKept
  <2> QED
    BY <2>3, <2>4, SteadyMembers DEF x
<1> QED
  BY <1>2, <1>3, <1>4, <1>5 DEF Turned

(* What was parked is taken up.                                            *)
LEMMA ParkedSteady ==
    ASSUME NEW s \in Runs, ~Halted(s), NEW e \in Events
    PROVE  \A m \in Names :
              /\ Steady(s, DrainParked(s, e).run, m)
              /\ m \in Begun(DrainParked(s, e).fx) => s.members[m].state # "waiting"
<1> DEFINE d == DrainParked(s, e)
<1>1. PICK who : Freed(s, d, who)
  BY DrainParkedFacts
<1> HIDE DEF d
<1>2. d.run.inbox = s.inbox /\ Begun(d.fx) = who
  BY <1>1, SameFields DEF Freed
<1>3. InboxKept(s, d.run)
  BY <1>2 DEF InboxKept
<1>4. ASSUME NEW m \in Names PROVE Steady(s, d.run, m) /\ (m \in who => s.members[m].state # "waiting")
  <2>1. /\ m \in who => /\ d.run.members[m].state = "idle" /\ d.run.members[m].on = s.members[m].on
                        /\ s.members[m].state # "waiting"
        /\ m \notin who => d.run.members[m] = s.members[m]
    BY <1>1 DEF Freed, Takes
  <2> QED
    BY <1>3, <2>1, SteadyMembers
<1> QED
  BY <1>2, <1>4 DEF d

LEMMA ParkedKeeps ==
    ASSUME NEW r, NEW e \in Events, NEW s \in Runs, ~Halted(s),
           \A m \in Names : Keeps(r, e, Result(s, <<>>), m)
    PROVE  \A m \in Names : Keeps(r, e, DrainParked(s, e), m)
<1> DEFINE b == Result(s, <<>>)
           d == DrainParked(s, e)
<1> TAKE m \in Names
<1>1. b.run = s /\ Keeps(r, e, b, m)
  BY DEF Result
<1>2. Steady(s, d.run, m) /\ (m \in Begun(d.fx) => s.members[m].state # "waiting")
  BY ParkedSteady
<1> HIDE DEF b, d
<1>3. Begun(d.fx) \subseteq Begun(b.fx) \cup Begun(d.fx)
  OBVIOUS
<1>4. Keeps(r, e, d, m)
  BY <1>1, <1>2, <1>3, KeepsOn
<1> QED
  BY <1>4 DEF d

(* Members that do not wait take turns.                                    *)
LEMMA TurnsKeep ==
    ASSUME NEW r, NEW e \in Events, NEW s \in Runs, NEW who, who \subseteq Names,
           \A m \in Names : Keeps(r, e, Result(s, <<>>), m),
           \A m \in who : s.members[m].state # "waiting",
           NEW g, g \in {Spawn(s, who, e), Drain(s, who, e)},
           NEW d, d.run = g.run, Begun(d.fx) \subseteq Begun(g.fx)
    PROVE  \A m \in Names : Keeps(r, e, d, m)
<1> DEFINE b == Result(s, <<>>)
<1> TAKE m \in Names
<1>1. b.run = s /\ Keeps(r, e, b, m)
  BY DEF Result
<1>2. Steady(s, g.run, m) /\ Begun(g.fx) \subseteq who
  BY TurnsSteady
<1> HIDE DEF b
<1>3. Begun(d.fx) \subseteq Begun(b.fx) \cup who /\ Steady(b.run, d.run, m)
  BY <1>1, <1>2
<1> QED
  BY <1>1, <1>3, KeepsOn

LEMMA PromptKeeps ==
    ASSUME NEW r \in Runs, NEW e \in Events, e.type = "run.prompt"
    PROVE  \A m \in Names : Keeps(r, e, Injected(r, e), m)
<1> DEFINE to == IF e.to = Nobody THEN SteerTarget ELSE e.to
           reached == IF to = "*" THEN {m \in Names : r.members[m].state # "inactive"} ELSE {to}
           later == {m \in reached : ~Takes(r.members[m])}
           now == {m \in reached \ later : r.members[m].state # "failed"}
           g == Park(r, later, e)
           f == [m \in Names |-> IF m \in now THEN [g.members[m] EXCEPT !.state = "idle", !.submitted = FALSE]
                                 ELSE g.members[m]]
           R == [g EXCEPT !.members = f]
           b == Injected(r, e)
<1>1. to \in Names \cup {"*"}
  <2>1. e.to = Nobody
    BY DEF Events, EventOK
  <2> QED
    BY <2>1, RosterFacts
<1>2. reached \subseteq Names
  BY <1>1
<1>3. b = Spawn(R, now, e)
  BY DEF Injected, With
<1> HIDE DEF reached, b
<1>4. later \subseteq Names /\ now \subseteq Names /\ \A m \in now : m \notin later /\ r.members[m].state # "waiting"
  BY <1>2 DEF Takes
<1> HIDE DEF later, now
<1>5. /\ SameButMembers(r, g)
      /\ \A m \in Names : g.members[m] = IF m \in later THEN Parking(r.members[m], e) ELSE r.members[m]
  BY <1>4, ParkedRun
<1> HIDE DEF g
<1>6. g \in Runs /\ g.inbox = r.inbox
  BY <1>5, SameFields
<1>7. ASSUME NEW m \in Names
      PROVE  /\ f[m] \in MemberRecords /\ f[m].on = r.members[m].on
             /\ f[m].state = IF m \in now THEN "idle" ELSE r.members[m].state
  <2> DEFINE x == r.members[m]
             z == g.members[m]
  <2>1. x \in MemberRecords /\ z \in MemberRecords
    BY <1>6, RunFields
  <2>2. z.on = x.on /\ z.state = x.state
    <3>1. Parking(x, e).on = x.on /\ Parking(x, e).state = x.state
      BY <2>1, MemberMoves
    <3>2. z = Parking(x, e) \/ z = x
      BY <1>5
    <3> HIDE DEF x, z
    <3> QED
      BY <3>1, <3>2
  <2>3. f[m] = IF m \in now THEN [z EXCEPT !.state = "idle", !.submitted = FALSE] ELSE z
    OBVIOUS
  <2> HIDE DEF x, z, f
  <2>4. /\ f[m] \in MemberRecords /\ f[m].on = x.on
        /\ f[m].state = IF m \in now THEN "idle" ELSE x.state
    BY <2>1, <2>2, <2>3 DEF MemberRecords, MemberStates
  <2> QED
    BY <2>4 DEF x
<1>8. f \in [Names -> MemberRecords]
  BY <1>7
<1> HIDE DEF f
<1>9. SameButMembers(g, R) /\ R.members = f
  BY <1>6, <1>8, MembersChange
<1> HIDE DEF R
<1>10. R \in Runs /\ InboxKept(r, R)
  BY <1>6, <1>9, SameFields DEF InboxKept
<1>11. ASSUME NEW m \in Names PROVE Keeps(r, e, Result(R, <<>>), m)
  <2>1. /\ R.members[m].on = r.members[m].on
        /\ R.members[m].state = "waiting" <=> r.members[m].state = "waiting"
    BY <1>4, <1>7, <1>9
  <2>2. Steady(r, R, m)
    BY <1>10, <2>1, SteadyMembers
  <2>3. Begun(<<>>) = {}
    BY SilentEffects, SilentIsSingle
  <2> QED
    BY <2>2, <2>3 DEF Keeps, Result
<1>12. \A m \in now : R.members[m].state # "waiting"
  BY <1>4, <1>7, <1>9
<1>13. \A m \in Names : Keeps(r, e, b, m)
  BY <1>3, <1>4, <1>10, <1>11, <1>12, TurnsKeep
<1> QED
  BY <1>13 DEF b

LEMMA ResumeKeeps ==
    ASSUME NEW r \in Runs, NEW e \in Events, e.type = "run.unpaused"
    PROVE  \A m \in Names : Keeps(r, e, Unpaused(r, e), m)
<1> DEFINE t == RaiseBudget(r, e)
           s == [t EXCEPT !.status = "running"]
<1>1. t \in Runs /\ t.members = r.members /\ t.inbox = r.inbox
  <2>1. e.n \in Nat
    BY DEF Events
  <2> QED
    BY <2>1 DEF RaiseBudget, Runs
<1> HIDE DEF t
<1>2. s \in Runs /\ s.members = r.members /\ s.inbox = r.inbox /\ s.status = "running"
  BY <1>1 DEF Runs, Statuses
<1> HIDE DEF s
<1>3. ~Halted(s) /\ InboxKept(r, s)
  BY <1>2 DEF Halted, InboxKept
<1>4. \A m \in Names : Keeps(r, e, Result(s, <<>>), m)
  <2>1. InboxKept(r, Result(s, <<>>).run) /\ Result(s, <<>>).run.members = r.members /\ Silent(Result(s, <<>>).fx)
    BY <1>2, <1>3, SilentEffects DEF Result
  <2> QED
    BY <2>1, PlainKeeps
<1>5. \A m \in Names : Keeps(r, e, DrainParked(s, e), m)
  BY <1>2, <1>3, <1>4, ParkedKeeps
<1> QED
  BY <1>5 DEF Unpaused, s, t

LEMMA AnswerKeeps ==
    ASSUME NEW r \in Runs, NEW e \in Events, e.type = "inbox.replied"
    PROVE  \A m \in Names : Keeps(r, e, InboxReplied(r, e), m)
<1> DEFINE t == [r.inbox EXCEPT ![e.n].replied = TRUE]
           answered == [r EXCEPT !.inbox[e.n].replied = TRUE]
           freed == {m \in Names : r.members[m].on = e.n}
           running == [answered EXCEPT !.status = IF @ = "blocked" THEN "running" ELSE @]
           z(m) == [r.members[m] EXCEPT !.state = "idle", !.on = 0]
           f == [m \in Names |-> IF m \in freed THEN z(m) ELSE r.members[m]]
           R == [running EXCEPT !.members = f]
           b == InboxReplied(r, e)
<1>1. t \in Seq(Items)
  BY MarkedInbox
<1>2. \A i \in DOMAIN r.inbox : i \in DOMAIN t /\ t[i].agent = r.inbox[i].agent
                                /\ (i # e.n => t[i].replied = r.inbox[i].replied)
  <2> DEFINE q == r.inbox
  <2>1. q \in Seq(Items)
    BY RunFields
  <2> HIDE DEF q
  <2>2. \A i \in DOMAIN q : q[i] \in Items
    BY <2>1
  <2>3. ASSUME NEW i \in DOMAIN q
        PROVE  LET u == [q EXCEPT ![e.n].replied = TRUE]
               IN i \in DOMAIN u /\ u[i].agent = q[i].agent /\ (i # e.n => u[i].replied = q[i].replied)
    BY <2>2 DEF Items
  <2> QED
    BY <2>3 DEF q
<1>3. answered = [r EXCEPT !.inbox = t]
  BY DEF Runs
<1> HIDE DEF t
<1>4. answered \in Runs /\ answered.members = r.members /\ answered.inbox = t /\ answered.status = r.status
  <2> HIDE DEF answered
  <2> QED
    BY <1>1, <1>3 DEF Runs
<1>5. freed # {} => b = Spawn(With(running, freed, LAMBDA x : [x EXCEPT !.state = "idle", !.on = 0]), freed, e)
  BY DEF InboxReplied
<1>6. freed = {} => b = IF r.status = "blocked" THEN DrainParked(running, e) ELSE Result(answered, <<>>)
  BY DEF InboxReplied
<1> HIDE DEF answered
<1>7. /\ running \in Runs /\ running.members = r.members /\ running.inbox = t
      /\ running.status = IF r.status = "blocked" THEN "running" ELSE r.status
  BY <1>4 DEF Runs, Statuses
<1>8. With(running, freed, LAMBDA x : [x EXCEPT !.state = "idle", !.on = 0]) = R
  <2> HIDE DEF running, freed
  <2> QED
    BY <1>7 DEF With
<1>9. freed \subseteq Names /\ \A m \in Names \ freed : r.members[m].on # e.n
  OBVIOUS
<1> HIDE DEF running, b, freed
<1>10. Begun(<<>>) = {}
  BY SilentEffects, SilentIsSingle
<1>11. ASSUME NEW s, s.inbox = t, NEW m \in Names \ freed, s.members[m] = r.members[m]
       PROVE  Keeps(r, e, Result(s, <<>>), m)
  <2>1. Steady(r, s, m)
    BY <1>2, <1>9, <1>11 DEF Steady
  <2> QED
    BY <1>10, <2>1 DEF Keeps, Result
<1>12. CASE freed # {}
  <2>1. ASSUME NEW m \in Names PROVE z(m) \in MemberRecords /\ z(m).state = "idle" /\ z(m).on = 0
    <3>1. r.members[m] \in MemberRecords
      BY RunFields
    <3> QED
      BY <3>1 DEF MemberRecords, MemberStates
  <2> HIDE DEF z
  <2>2. f \in [Names -> MemberRecords] /\ \A m \in Names : f[m] = IF m \in freed THEN z(m) ELSE r.members[m]
    BY <2>1, RunFields
  <2> HIDE DEF f
  <2>3. SameButMembers(running, R) /\ R.members = f
    BY <1>7, <2>2, MembersChange
  <2> HIDE DEF R
  <2>4. R \in Runs /\ R.inbox = t
    BY <1>7, <2>3, SameFields
  <2>5. ASSUME NEW m \in Names PROVE Keeps(r, e, Result(R, <<>>), m)
    <3>1. CASE m \in freed
      BY <2>1, <2>2, <2>3, <3>1 DEF Keeps, Result
    <3>2. CASE m \notin freed
      BY <1>11, <2>2, <2>3, <2>4, <3>2
    <3> QED
      BY <3>1, <3>2
  <2>6. \A m \in freed : R.members[m].state # "waiting"
    BY <1>9, <2>1, <2>2, <2>3
  <2>7. b = Spawn(R, freed, e)
    BY <1>5, <1>8, <1>12
  <2> QED
    BY <1>9, <2>4, <2>5, <2>6, <2>7, TurnsKeep DEF b
<1>13. CASE freed = {} /\ r.status = "blocked"
  <2>1. b = DrainParked(running, e) /\ ~Halted(running)
    BY <1>6, <1>7, <1>13 DEF Halted
  <2>2. \A m \in Names : Keeps(r, e, Result(running, <<>>), m)
    BY <1>7, <1>11, <1>13
  <2>3. \A m \in Names : Keeps(r, e, DrainParked(running, e), m)
    BY <1>7, <2>1, <2>2, ParkedKeeps
  <2> QED
    BY <2>1, <2>3 DEF b
<1>14. CASE freed = {} /\ r.status # "blocked"
  <2>1. b = Result(answered, <<>>)
    BY <1>6, <1>14
  <2>2. \A m \in Names : Keeps(r, e, Result(answered, <<>>), m)
    BY <1>4, <1>11, <1>14
  <2> QED
    BY <2>1, <2>2 DEF b
<1> QED
  BY <1>12, <1>13, <1>14

LEMMA StageKeeps ==
    ASSUME NEW r \in Runs, NEW e \in Events, e.type = "stage.entered"
    PROVE  \A m \in Names : Keeps(r, e, StageEntered(r, e), m)
<1> DEFINE timed == Stages[e.n].timed
           reached == {m \in Participants(e.n) : r.members[m].state # "failed"}
           later == {m \in reached : r.members[m].state = "waiting"}
           now == reached \ later
           t == [r EXCEPT !.stage = e.n, !.resolved = FALSE, !.timer = IF timed THEN e.n ELSE @]
           h == [m \in Names |-> [r.members[m] EXCEPT !.submitted = FALSE]]
           entered == [t EXCEPT !.members = h]
           g == Park(entered, later, e)
           f == [m \in Names |-> IF m \in now THEN [g.members[m] EXCEPT !.state = "idle"] ELSE g.members[m]]
           R == [g EXCEPT !.members = f]
           pre == IF timed THEN <<SetTimer(e.n)>> ELSE <<>>
           q == Spawn(R, now, e)
           b == StageEntered(r, e)
<1>1. e.n \in StageNumbers /\ Participants(e.n) \subseteq Names
  <2>1. e.n \in StageNumbers
    BY DEF Events, EventOK
  <2> QED
    BY <2>1, StageFacts DEF Participants
<1>2. t \in Runs /\ t.members = r.members /\ t.inbox = r.inbox
  BY <1>1 DEF Runs
<1>3. b.run = q.run /\ b.fx = pre \o q.fx
  <2>1. With(t, Names, LAMBDA x : [x EXCEPT !.submitted = FALSE]) = entered
    <3> HIDE DEF t
    <3> QED
      BY <1>2 DEF With
  <2>2. With(g, now, Idle) = R
    <3> HIDE DEF g, now
    <3> QED
      BY DEF With, Idle
  <2>3. With(Park(With(t, Names, LAMBDA x : [x EXCEPT !.submitted = FALSE]), later, e), now, Idle) = R
    BY <2>1, <2>2
  <2> QED
    BY <2>3 DEF StageEntered, Result
<1>4. /\ later \subseteq Names /\ now \subseteq Names
      /\ \A m \in now : r.members[m].state # "waiting"
  BY <1>1
<1> HIDE DEF timed, later, now, t, b
<1>5. ASSUME NEW m \in Names
      PROVE  h[m] \in MemberRecords /\ h[m].on = r.members[m].on /\ h[m].state = r.members[m].state
  <2>1. r.members[m] \in MemberRecords
    BY RunFields
  <2> QED
    BY <2>1 DEF MemberRecords
<1>6. h \in [Names -> MemberRecords]
  BY <1>5
<1> HIDE DEF h
<1>7. SameButMembers(t, entered) /\ entered.members = h
  BY <1>2, <1>6, MembersChange
<1> HIDE DEF entered
<1>8. entered \in Runs /\ entered.inbox = r.inbox
  BY <1>2, <1>7, SameFields
<1>9. /\ SameButMembers(entered, g)
      /\ \A m \in Names : g.members[m] = IF m \in later THEN Parking(h[m], e) ELSE h[m]
  BY <1>4, <1>7, <1>8, ParkedRun
<1> HIDE DEF g
<1>10. g \in Runs /\ g.inbox = r.inbox
  BY <1>8, <1>9, SameFields
<1>11. ASSUME NEW m \in Names
       PROVE  /\ f[m] \in MemberRecords /\ f[m].on = r.members[m].on
              /\ f[m].state = IF m \in now THEN "idle" ELSE r.members[m].state
  <2> DEFINE x == h[m]
             z == g.members[m]
  <2>1. x \in MemberRecords /\ z \in MemberRecords
    BY <1>5, <1>10, RunFields
  <2>2. z.on = x.on /\ z.state = x.state
    <3>1. Parking(x, e).on = x.on /\ Parking(x, e).state = x.state
      BY <2>1, MemberMoves
    <3>2. z = Parking(x, e) \/ z = x
      BY <1>9
    <3> HIDE DEF x, z
    <3> QED
      BY <3>1, <3>2
  <2>3. f[m] = IF m \in now THEN [z EXCEPT !.state = "idle"] ELSE z
    OBVIOUS
  <2>4. x.on = r.members[m].on /\ x.state = r.members[m].state
    BY <1>5
  <2> HIDE DEF x, z, f
  <2>5. /\ f[m] \in MemberRecords /\ f[m].on = x.on
        /\ f[m].state = IF m \in now THEN "idle" ELSE x.state
    BY <2>1, <2>2, <2>3 DEF MemberRecords, MemberStates
  <2> QED
    BY <2>4, <2>5
<1>12. f \in [Names -> MemberRecords]
  BY <1>11
<1> HIDE DEF f
<1>13. SameButMembers(g, R) /\ R.members = f
  BY <1>10, <1>12, MembersChange
<1> HIDE DEF R
<1>14. R \in Runs /\ InboxKept(r, R)
  BY <1>10, <1>13, SameFields DEF InboxKept
<1>15. ASSUME NEW m \in Names PROVE Keeps(r, e, Result(R, <<>>), m)
  <2>1. /\ R.members[m].on = r.members[m].on
        /\ R.members[m].state = "waiting" <=> r.members[m].state = "waiting"
    BY <1>4, <1>11, <1>13
  <2>2. Steady(r, R, m)
    BY <1>14, <2>1, SteadyMembers
  <2>3. Begun(<<>>) = {}
    BY SilentEffects, SilentIsSingle
  <2> QED
    BY <2>2, <2>3 DEF Keeps, Result
<1>16. \A m \in now : R.members[m].state # "waiting"
  BY <1>4, <1>11, <1>13
<1>17. pre \in Seq(Effects) /\ Begun(pre) = {}
  <2>1. CASE timed
    <3> DEFINE x == SetTimer(e.n)
    <3>1. x \in Effects /\ x.op # "spawn" /\ pre = <<x>>
      BY <1>1, <2>1 DEF SetTimer, Effects
    <3> HIDE DEF x, pre
    <3>2. pre \in Seq(Effects) /\ Silent(pre)
      BY <3>1, SilentEffects
    <3> QED
      BY <3>2, SilentIsSingle
  <2>2. CASE ~timed
    BY <2>2, SilentEffects, SilentIsSingle
  <2> QED
    BY <2>1, <2>2
<1> HIDE DEF pre
<1>18. q \in {Spawn(R, now, e), Drain(R, now, e)}
  OBVIOUS
<1>19. q.fx \in Seq(Effects)
  BY <1>4, <1>14, <1>18, TurnsSteady
<1> HIDE DEF q
<1>20. Begun(b.fx) \subseteq Begun(q.fx)
  BY <1>3, <1>17, <1>19, JoinedBegun
<1>21. \A m \in Names : Keeps(r, e, b, m)
  BY <1>3, <1>4, <1>14, <1>15, <1>16, <1>18, <1>20, TurnsKeep
<1> QED
  BY <1>21 DEF b

LEMMA SubmittedKeeps ==
    ASSUME NEW r \in Runs, NEW e \in Events, e.type = "stage.submitted"
    PROVE  \A m \in Names : Keeps(r, e, StageSubmitted(r, e), m)
<1> DEFINE a == e.actor
           x == r.members[a]
           y == [x EXCEPT !.submitted = TRUE, !.state = "submitted"]
           said == Acted(r, a, y)
           done == [said EXCEPT !.resolved = TRUE, !.timer = 0]
           b == StageSubmitted(r, e)
<1>1. a \in Names /\ x \in MemberRecords
  BY ActorFacts DEF TurnTypes
<1>2. y \in MemberRecords /\ y.on = x.on /\ y.state = "submitted"
  BY <1>1 DEF MemberRecords, MemberStates
<1>3. With(r, {a}, LAMBDA z : [z EXCEPT !.submitted = TRUE, !.state = "submitted"]) = said
  BY DEF With, Acted
<1>4. b.run \in {said, done}
  BY <1>3 DEF StageSubmitted, Result
<1> HIDE DEF y
<1>5. said \in Runs /\ said.inbox = r.inbox /\ said.members[a] = y /\ \A m \in Names \ {a} : said.members[m] = r.members[m]
  BY <1>1, <1>2, ActedFacts
<1> HIDE DEF said
<1>6. done.inbox = said.inbox /\ done.members = said.members
  BY <1>5 DEF Runs
<1> HIDE DEF done, b
<1>7. b.run.inbox = r.inbox /\ b.run.members[a] = y /\ \A m \in Names \ {a} : b.run.members[m] = r.members[m]
  BY <1>4, <1>5, <1>6
<1>8. InboxKept(r, b.run) /\ Silent(b.fx)
  BY <1>7, SubmittedSilently DEF InboxKept, b
<1>9. e.type \in Starting
  BY DEF Starting
<1>10. \A m \in Names : Keeps(r, e, b, m)
  BY <1>2, <1>7, <1>8, <1>9, ActorKeeps
<1> QED
  BY <1>10 DEF b

(* The events of a turn that only move their member.                       *)
LEMMA MovedKeeps ==
    ASSUME NEW r \in Runs, NEW e \in Events, e.type \in TurnTypes \cup ToolTypes,
           NEW y \in MemberRecords, y.on = r.members[e.actor].on,
           e.type \notin Starting \/ r.members[e.actor].state # "waiting" =>
              (y.state = "waiting" <=> r.members[e.actor].state = "waiting"),
           NEW b, Silent(b.fx), b.run.inbox = r.inbox, b.run.members = Acted(r, e.actor, y).members
    PROVE  \A m \in Names : Keeps(r, e, b, m)
<1> DEFINE s == Acted(r, e.actor, y)
<1>1. e.actor \in Names
  BY ActorFacts
<1>2. s.members[e.actor] = y /\ \A m \in Names \ {e.actor} : s.members[m] = r.members[m]
  BY <1>1, ActedFacts
<1> HIDE DEF s
<1>3. b.run.members[e.actor] = y /\ \A m \in Names \ {e.actor} : b.run.members[m] = r.members[m]
  BY <1>2 DEF s
<1>4. InboxKept(r, b.run)
  BY DEF InboxKept
<1> QED
  BY <1>3, <1>4, ActorKeeps

LEMMA ActivatedKeeps ==
    ASSUME NEW r \in Runs, NEW e \in Events, e.type = "agent.activated"
    PROVE  \A m \in Names : Keeps(r, e, Activated(r, e), m)
<1> DEFINE a == e.actor
           x == r.members[a]
           t == [r EXCEPT !.turns = @ + 1]
           y == [x EXCEPT !.state = "thinking", !.open = TRUE]
           f == Emit(Derived(e, "run.expired", 0))
           s == Acted(t, a, y)
           b == Activated(r, e)
<1>1. a \in Names /\ x \in MemberRecords
  BY ActorFacts DEF TurnTypes
<1>2. y \in MemberRecords /\ y.on = x.on /\ y.state = "thinking"
  BY <1>1 DEF MemberRecords, MemberStates
<1>3. t \in Runs /\ t.members = r.members /\ t.inbox = r.inbox
  BY RunFields DEF Runs
<1>4. With(t, {a}, LAMBDA z : [z EXCEPT !.state = "thinking", !.open = TRUE]) = s
  <2> HIDE DEF t
  <2> QED
    BY <1>3 DEF With, Acted
<1>5. b.run = s /\ (b.fx = <<>> \/ b.fx = <<f>>) /\ f.op # "spawn"
  BY <1>4 DEF Activated, Result, Emit
<1> HIDE DEF b, f, t, y
<1>6. Silent(b.fx)
  BY <1>5, SilentEffects
<1>7. b.run.inbox = r.inbox
  BY <1>1, <1>2, <1>3, <1>5, ActedFacts
<1>8. b.run.members = Acted(r, a, y).members
  <2>1. s.members = [m \in Names |-> IF m \in {a} THEN y ELSE t.members[m]]
    BY <1>3 DEF Acted, Runs
  <2>2. Acted(r, a, y).members = [m \in Names |-> IF m \in {a} THEN y ELSE r.members[m]]
    BY DEF Acted, Runs
  <2> QED
    BY <1>3, <1>5, <2>1, <2>2
<1>9. e.type \in TurnTypes /\ e.type \in Starting
  BY DEF TurnTypes, Starting
<1>10. \A m \in Names : Keeps(r, e, b, m)
  BY <1>2, <1>6, <1>7, <1>8, <1>9, MovedKeeps
<1> QED
  BY <1>10 DEF b

LEMMA FailedKeeps ==
    ASSUME NEW r \in Runs, NEW e \in Events, e.type = "agent.failed"
    PROVE  \A m \in Names : Keeps(r, e, AgentFailed(r, e), m)
<1> DEFINE a == e.actor
           x == r.members[a]
           y == [x EXCEPT !.state = "failed", !.open = FALSE]
           s == Acted(r, a, y)
           b == AgentFailed(r, e)
<1>1. a \in Names /\ x \in MemberRecords
  BY ActorFacts DEF TurnTypes
<1>2. y \in MemberRecords /\ y.on = x.on /\ y.state = "failed"
  BY <1>1 DEF MemberRecords, MemberStates
<1>3. b.run = s /\ b.fx = <<>>
  BY DEF AgentFailed, With, Acted, Result
<1> HIDE DEF y, b
<1>4. b.run.inbox = r.inbox /\ Silent(b.fx)
  BY <1>1, <1>2, <1>3, ActedFacts, SilentEffects
<1>5. e.type \in TurnTypes /\ e.type \in Starting
  BY DEF TurnTypes, Starting
<1>6. \A m \in Names : Keeps(r, e, b, m)
  BY <1>2, <1>3, <1>4, <1>5, MovedKeeps
<1> QED
  BY <1>6 DEF b

LEMMA CalledKeeps ==
    ASSUME NEW r \in Runs, NEW e \in Events, e.type = "tool.call"
    PROVE  \A m \in Names : Keeps(r, e, ToolCalled(r, e), m)
<1> DEFINE a == e.actor
           x == r.members[a]
           y == [x EXCEPT !.state = "tool"]
           s == Acted(r, a, y)
           b == ToolCalled(r, e)
<1>1. a \in Names /\ x \in MemberRecords
  BY ActorFacts DEF TurnTypes
<1>2. y \in MemberRecords /\ y.on = x.on /\ y.state = "tool"
  BY <1>1 DEF MemberRecords, MemberStates
<1>3. b.run = s /\ b.fx = <<>>
  BY DEF ToolCalled, With, Acted, Result
<1> HIDE DEF y, b
<1>4. b.run.inbox = r.inbox /\ Silent(b.fx)
  BY <1>1, <1>2, <1>3, ActedFacts, SilentEffects
<1>5. e.type \in TurnTypes /\ e.type \in Starting
  BY DEF TurnTypes, Starting
<1>6. \A m \in Names : Keeps(r, e, b, m)
  BY <1>2, <1>3, <1>4, <1>5, MovedKeeps
<1> QED
  BY <1>6 DEF b

LEMMA CompletedKeeps ==
    ASSUME NEW r \in Runs, NEW e \in Events, e.type = "tool.call_completed"
    PROVE  \A m \in Names : Keeps(r, e, ToolCompleted(r, e), m)
<1> DEFINE a == e.actor
           x == r.members[a]
           y == IF x.state = "tool" THEN [x EXCEPT !.state = "thinking"] ELSE x
           s == Acted(r, a, y)
           b == ToolCompleted(r, e)
<1>1. a \in Names /\ x \in MemberRecords
  BY ActorFacts DEF ToolTypes
<1>2. y \in MemberRecords /\ y.on = x.on /\ (y.state = "waiting" <=> x.state = "waiting")
  BY <1>1 DEF MemberRecords, MemberStates
<1>3. b.run = s /\ b.fx = <<>>
  BY DEF ToolCompleted, With, Acted, Result
<1> HIDE DEF y, b
<1>4. b.run.inbox = r.inbox /\ Silent(b.fx)
  BY <1>1, <1>2, <1>3, ActedFacts, SilentEffects
<1>5. e.type \in ToolTypes
  BY DEF ToolTypes
<1>6. \A m \in Names : Keeps(r, e, b, m)
  BY <1>2, <1>3, <1>4, <1>5, MovedKeeps
<1> QED
  BY <1>6 DEF b

LEMMA PaidKeeps ==
    ASSUME NEW r \in Runs, NEW e \in Events, e.type = "llm.response"
    PROVE  \A m \in Names : Keeps(r, e, Charged(r, e), m)
<1> DEFINE a == e.actor
           x == r.members[a]
           t == [r EXCEPT !.spent = @ + e.n]
           y == IF x.state = "thinking" THEN [x EXCEPT !.state = "idle"] ELSE x
           paid == Acted(t, a, y)
           over == paid.spent >= r.budget
           f == Emit(Derived(e, "budget.exceeded", 0))
           b == Charged(r, e)
<1>1. a \in Names /\ x \in MemberRecords
  BY ActorFacts DEF TurnTypes
<1>2. y \in MemberRecords /\ y.on = x.on /\ (y.state = "waiting" <=> x.state = "waiting")
  BY <1>1 DEF MemberRecords, MemberStates
<1>3. t \in Runs /\ t.members = r.members /\ t.inbox = r.inbox
  <2>1. e.n \in Nat
    BY DEF Events
  <2> QED
    BY <2>1, RunFields DEF Runs
<1>4. With(t, {a}, LAMBDA z : IF z.state = "thinking" THEN Idle(z) ELSE z) = paid
  <2> HIDE DEF t
  <2> QED
    BY <1>3 DEF With, Acted, Idle
<1>5. b = CASE r.budget = 0 -> Result(paid, <<>>)
            [] r.budget # 0 /\ over /\ ~r.overBudget -> Result([paid EXCEPT !.overBudget = TRUE], <<f>>)
            [] OTHER -> Result([paid EXCEPT !.overBudget = over], <<>>)
  BY <1>4 DEF Charged
<1>6. f.op # "spawn"
  BY DEF Emit
<1> HIDE DEF t, y, over, f, b
<1>7. paid \in Runs /\ paid.inbox = r.inbox
  BY <1>1, <1>2, <1>3, ActedFacts
<1>8. paid.members = Acted(r, a, y).members
  <2>1. paid.members = [m \in Names |-> IF m \in {a} THEN y ELSE t.members[m]]
    BY <1>3 DEF Acted, Runs
  <2>2. Acted(r, a, y).members = [m \in Names |-> IF m \in {a} THEN y ELSE r.members[m]]
    BY DEF Acted, Runs
  <2> QED
    BY <1>3, <2>1, <2>2
<1> HIDE DEF paid
<1>9. \A o : [paid EXCEPT !.overBudget = o].inbox = paid.inbox /\ [paid EXCEPT !.overBudget = o].members = paid.members
  BY <1>7 DEF Runs
<1>10. b.run.inbox = r.inbox /\ b.run.members = paid.members /\ (b.fx = <<>> \/ b.fx = <<f>>)
  BY <1>5, <1>7, <1>9 DEF Result
<1>11. Silent(b.fx)
  BY <1>6, <1>10, SilentEffects
<1>12. e.type \in TurnTypes
  BY DEF TurnTypes
<1>13. b.run.members = Acted(r, a, y).members
  BY <1>8, <1>10
<1>14. \A m \in Names : Keeps(r, e, b, m)
  BY <1>2, <1>10, <1>11, <1>12, <1>13, MovedKeeps
<1> QED
  BY <1>14 DEF b

LEMMA EndKeeps ==
    ASSUME NEW r \in Runs, NEW e \in Events, e.type = "agent.turn_done"
    PROVE  \A m \in Names : Keeps(r, e, TurnDone(r, e), m)
<1> DEFINE a == e.actor
           x == r.members[a]
           c == [x EXCEPT !.open = FALSE]
           closed == Acted(r, a, c)
           who == IF x.submitted THEN {} ELSE {a}
           h == [m \in Names |-> IF m \in who THEN Idle(closed.members[m]) ELSE closed.members[m]]
           back == [closed EXCEPT !.members = h]
           d == Drain(back, {a}, e)
           b == TurnDone(r, e)
<1>1. a \in Names /\ x \in MemberRecords
  BY ActorFacts DEF TurnTypes
<1>2. c \in MemberRecords /\ c.state = x.state /\ c.on = x.on
  BY <1>1 DEF MemberRecords
<1>3. With(r, {a}, LAMBDA z : [z EXCEPT !.open = FALSE]) = closed
  BY DEF With, Acted
<1>4. With(closed, who, Idle) = back
  BY DEF With
<1>5. b = CASE x.state \in {"waiting", "failed"} -> Result(closed, <<>>)
            [] x.state \notin {"waiting", "failed"} /\ x.pending = {} -> Result(back, <<>>)
            [] OTHER -> d
  BY <1>3, <1>4 DEF TurnDone
<1> HIDE DEF c, b
<1>6. /\ closed \in Runs /\ closed.members[a] = c /\ \A m \in Names \ {a} : closed.members[m] = r.members[m]
      /\ closed.inbox = r.inbox
  <2> HIDE DEF a
  <2> QED
    BY <1>1, <1>2, ActedFacts
<1> HIDE DEF closed
<1>7. ASSUME NEW m \in Names
      PROVE  /\ closed.members[m] \in MemberRecords /\ Idle(closed.members[m]) \in MemberRecords
             /\ Idle(closed.members[m]).state = "idle" /\ Idle(closed.members[m]).on = closed.members[m].on
  <2>1. closed.members[m] \in MemberRecords
    BY <1>6, RunFields
  <2> QED
    BY <2>1 DEF Idle, MemberRecords, MemberStates
<1>8. h \in [Names -> MemberRecords]
      /\ \A m \in Names : h[m] = IF m \in who THEN Idle(closed.members[m]) ELSE closed.members[m]
  BY <1>7
<1> HIDE DEF h
<1>9. SameButMembers(closed, back) /\ back.members = h
  BY <1>6, <1>8, MembersChange
<1> HIDE DEF back
<1>10. back \in Runs /\ back.inbox = r.inbox
  BY <1>6, <1>9, SameFields
<1>11. /\ \A m \in Names \ {a} : back.members[m] = r.members[m]
       /\ back.members[a].on = x.on /\ back.members[a].state \in {"idle", x.state}
  BY <1>1, <1>2, <1>6, <1>7, <1>8, <1>9
<1>12. CASE x.state \in {"waiting", "failed"}
  <2>1. b.run = closed /\ Silent(b.fx)
    <3>1. b = Result(closed, <<>>)
      BY <1>5, <1>12
    <3> QED
      BY <3>1, SilentEffects DEF Result
  <2>2. InboxKept(r, b.run)
    BY <1>6, <2>1 DEF InboxKept
  <2> QED
    BY <1>2, <1>6, <2>1, <2>2, ActorKeeps DEF b
<1>13. ASSUME x.state \notin {"waiting", "failed"} PROVE \A m \in Names : Keeps(r, e, Result(back, <<>>), m)
  <2> DEFINE s == Result(back, <<>>)
  <2>1. s.run = back /\ Silent(s.fx)
    BY SilentEffects DEF Result
  <2> HIDE DEF s
  <2>2. InboxKept(r, s.run)
    BY <1>10, <2>1 DEF InboxKept
  <2>3. \A m \in Names : Keeps(r, e, s, m)
    BY <1>11, <1>13, <2>1, <2>2, ActorKeeps
  <2> QED
    BY <2>3 DEF s
<1>14. CASE x.state \notin {"waiting", "failed"} /\ x.pending = {}
  <2>1. b = Result(back, <<>>)
    BY <1>5, <1>14
  <2> QED
    BY <1>13, <1>14, <2>1 DEF b
<1>15. CASE x.state \notin {"waiting", "failed"} /\ x.pending # {}
  <2>1. b = d
    BY <1>5, <1>15
  <2>2. {a} \subseteq Names /\ d \in {Spawn(back, {a}, e), Drain(back, {a}, e)}
    BY <1>1
  <2>3. \A m \in {a} : back.members[m].state # "waiting"
    BY <1>11, <1>15
  <2>4. \A m \in Names : Keeps(r, e, Result(back, <<>>), m)
    BY <1>13, <1>15
  <2> HIDE DEF d, a
  <2>5. \A m \in Names : Keeps(r, e, d, m)
    BY <1>10, <2>2, <2>3, <2>4, TurnsKeep
  <2> QED
    BY <2>1, <2>5 DEF b
<1> QED
  BY <1>12, <1>14, <1>15 DEF b

LEMMA DeniedKeeps ==
    ASSUME NEW r \in Runs, NEW e \in Events, e.type = "tool.call_denied"
    PROVE  \A m \in Names : Keeps(r, e, ToolDenied(r, e), m)
<1> DEFINE a == e.actor
           x == r.members[a]
<1>1. a \in Names /\ x \in MemberRecords
  BY ActorFacts DEF ToolTypes
<1>2. CASE e.to # "ask"
  <2> DEFINE y == [x EXCEPT !.state = "idle"]
             s == Acted(r, a, y)
             b == ToolDenied(r, e)
  <2>1. y \in MemberRecords /\ y.state = "idle" /\ y.on = x.on
    BY <1>1 DEF MemberRecords, MemberStates
  <2>2. b.run = s /\ b.fx = <<>>
    BY <1>2 DEF ToolDenied, With, Acted, Idle, Result
  <2> HIDE DEF y, b
  <2>3. b.run.inbox = r.inbox /\ Silent(b.fx)
    BY <1>1, <2>1, <2>2, ActedFacts, SilentEffects
  <2>4. e.type \in ToolTypes /\ e.type \in Starting
    BY DEF ToolTypes, Starting
  <2>5. \A m \in Names : Keeps(r, e, b, m)
    BY <2>1, <2>2, <2>3, <2>4, MovedKeeps
  <2> QED
    BY <2>5 DEF b
<1>3. CASE e.to = "ask"
  <2> DEFINE t == Ask(r, "tool_approval", a, TRUE)
             n == NextInboxId(r)
             y == [x EXCEPT !.state = "waiting", !.on = n]
             s == Acted(t, a, y)
             f == AskHuman(n, a, e)
             item == [kind |-> "tool_approval", agent |-> a, listed |-> TRUE, replied |-> FALSE]
             b == ToolDenied(r, e)
  <2>1. /\ t \in Runs /\ t.members = r.members /\ t.inbox = Append(r.inbox, item) /\ n \in Nat \ {0}
    <3>1. /\ "tool_approval" \in {"budget", "stage_timeout", "tool_approval"} /\ TRUE \in BOOLEAN
          /\ a \in Names \cup {Nobody}
      BY <1>1
    <3> HIDE DEF a
    <3> QED
      BY <3>1, AskedInbox
  <2>2. y \in MemberRecords /\ y.state = "waiting" /\ y.on = n
    BY <1>1, <2>1 DEF MemberRecords, MemberStates
  <2>3. With(t, {a}, LAMBDA z : [z EXCEPT !.state = "waiting", !.on = n]) = s
    <3> HIDE DEF n
    <3> QED
      BY <2>1 DEF With, Acted
  <2>4. b.run = s /\ b.fx = <<f>> /\ f.op # "spawn"
    BY <1>3, <2>3 DEF ToolDenied, Result, AskHuman
  <2>5. item.agent = a /\ item.replied = FALSE
    OBVIOUS
  <2> HIDE DEF y, t, f, b, item
  <2>6. /\ \A i \in DOMAIN r.inbox : i \in DOMAIN t.inbox /\ t.inbox[i] = r.inbox[i]
        /\ n \in DOMAIN t.inbox /\ t.inbox[n] = item
    <3> DEFINE q == r.inbox
    <3>1. q \in Seq(Items) /\ n = Len(q) + 1
      BY RunFields DEF NextInboxId
    <3> HIDE DEF q, n
    <3>2. /\ \A i \in DOMAIN q : i \in DOMAIN Append(q, item) /\ Append(q, item)[i] = q[i]
          /\ n \in DOMAIN Append(q, item) /\ Append(q, item)[n] = item
      BY <3>1
    <3> QED
      BY <2>1, <3>2 DEF q
  <2> HIDE DEF n
  <2>7. /\ s.members[a] = y /\ s.inbox = t.inbox
        /\ \A m \in Names \ {a} : s.members[m] = r.members[m]
    <3> HIDE DEF a
    <3>1. /\ s.members[a] = y /\ s.inbox = t.inbox
          /\ \A m \in Names \ {a} : s.members[m] = t.members[m]
      BY <1>1, <2>1, <2>2, ActedFacts
    <3> QED
      BY <2>1, <3>1
  <2> HIDE DEF s
  <2>8. Begun(b.fx) = {}
    BY <2>4, SilentEffects, SilentIsSingle
  <2>9. InboxKept(r, s)
    BY <2>6, <2>7 DEF InboxKept
  <2>10. Held(s, a)
    BY <2>1, <2>2, <2>5, <2>6, <2>7 DEF Held
  <2>11. ASSUME NEW m \in Names PROVE Keeps(r, e, b, m)
    <3>1. CASE m = a
      BY <2>2, <2>4, <2>7, <2>8, <2>10, <3>1 DEF Keeps
    <3>2. CASE m # a
      <4>1. Steady(r, s, m)
        BY <2>7, <2>9, <3>2, SteadyMembers
      <4> QED
        BY <2>4, <2>8, <4>1 DEF Keeps
    <3> QED
      BY <3>1, <3>2
  <2> QED
    BY <2>11 DEF b
<1> QED
  BY <1>2, <1>3

(* The question that blocks the run is one more.                           *)
LEMMA BlockSteady ==
    ASSUME NEW r \in Runs, NEW kind \in {"budget", "stage_timeout"}, NEW e \in Events
    PROVE  /\ InboxKept(r, BlockAndAsk(r, kind, e).run) /\ BlockAndAsk(r, kind, e).run.members = r.members
           /\ \A m : Steady(r, BlockAndAsk(r, kind, e).run, m)
<1> DEFINE a == Ask(r, kind, Nobody, FALSE)
           item == [kind |-> kind, agent |-> Nobody, listed |-> FALSE, replied |-> FALSE]
           b == BlockAndAsk(r, kind, e)
<1>1. a \in Runs /\ a.members = r.members /\ a.inbox = Append(r.inbox, item)
  <2>1. /\ kind \in {"budget", "stage_timeout", "tool_approval"} /\ Nobody \in Names \cup {Nobody}
        /\ FALSE \in BOOLEAN
    OBVIOUS
  <2> QED
    BY <2>1, AskedInbox
<1>2. b.run = [a EXCEPT !.status = "blocked"]
  BY DEF BlockAndAsk, Result
<1> HIDE DEF a, b, item
<1>3. b.run.members = r.members /\ b.run.inbox = Append(r.inbox, item)
  BY <1>1, <1>2 DEF Runs
<1>4. \A i \in DOMAIN r.inbox : i \in DOMAIN Append(r.inbox, item) /\ Append(r.inbox, item)[i] = r.inbox[i]
  <2> DEFINE q == r.inbox
  <2>1. q \in Seq(Items)
    BY RunFields
  <2> HIDE DEF q
  <2>2. \A i \in DOMAIN q : i \in DOMAIN Append(q, item) /\ Append(q, item)[i] = q[i]
    BY <2>1
  <2> QED
    BY <2>2 DEF q
<1>5. InboxKept(r, b.run)
  BY <1>3, <1>4 DEF InboxKept
<1>6. \A m : Steady(r, b.run, m)
  BY <1>3, <1>5, SteadyMembers
<1> QED
  BY <1>3, <1>5, <1>6 DEF b

(* The watchers rouse no member that waits.                                *)
LEMMA WakeSteady ==
    ASSUME NEW s \in Runs, NEW e \in Events
    PROVE  /\ Wake(s, e).run \in Runs /\ Wake(s, e).fx \in Seq(Effects)
           /\ \A m \in Names :
                 /\ Steady(s, Wake(s, e).run, m)
                 /\ m \in Begun(Wake(s, e).fx) => s.members[m].state # "waiting"
<1> DEFINE w == Wake(s, e)
<1>1. PICK A, B : Woken(s, w, A, B)
  BY WakeFacts
<1> HIDE DEF w
<1>2. Spawns(w.fx, IF Halted(s) THEN {} ELSE A) /\ SameButMembers(s, w.run) /\ w.fx \in Seq(Effects)
  BY <1>1 DEF Woken
<1>3. Begun(w.fx) \subseteq A /\ w.run.inbox = s.inbox /\ w.run \in Runs
  BY <1>2, BegunIs, SameFields
<1>4. InboxKept(s, w.run)
  BY <1>3 DEF InboxKept
<1>5. \A m \in A : s.members[m].state # "waiting"
  BY <1>1 DEF Woken, Takes
<1>6. ASSUME NEW m \in Names PROVE Steady(s, w.run, m)
  <2>1. /\ w.run.members[m].on = s.members[m].on
        /\ w.run.members[m].state = "waiting" <=> s.members[m].state = "waiting"
    BY <1>1, <1>5 DEF Woken
  <2> QED
    BY <1>4, <2>1, SteadyMembers
<1> QED
  BY <1>2, <1>3, <1>5, <1>6 DEF w

LEMMA WakeKeeps ==
    ASSUME NEW r, NEW e \in Events, NEW b, b.run \in Runs, \A m \in Names : Keeps(r, e, b, m),
           NEW d, d.run = Wake(b.run, e).run, Begun(d.fx) \subseteq Begun(b.fx) \cup Begun(Wake(b.run, e).fx)
    PROVE  \A m \in Names : Keeps(r, e, d, m)
<1> DEFINE w == Wake(b.run, e)
<1> TAKE m \in Names
<1>1. Steady(b.run, w.run, m) /\ (m \in Begun(w.fx) => b.run.members[m].state # "waiting")
  BY WakeSteady
<1>2. Steady(b.run, d.run, m) /\ Begun(d.fx) \subseteq Begun(b.fx) \cup Begun(w.fx) /\ Keeps(r, e, b, m)
  BY <1>1
<1> HIDE DEF w
<1> QED
  BY <1>1, <1>2, KeepsOn

(* A run that asks, or is otherwise steady, after it was dealt with.       *)
LEMMA ThenKeeps ==
    ASSUME NEW r, NEW e, NEW b, \A m \in Names : Keeps(r, e, b, m),
           NEW d, \A m \in Names : Steady(b.run, d.run, m), Begun(d.fx) \subseteq Begun(b.fx)
    PROVE  \A m \in Names : Keeps(r, e, d, m)
<1> TAKE m \in Names
<1> DEFINE who == {}
<1>1. Begun(d.fx) \subseteq Begun(b.fx) \cup who /\ (m \in who => b.run.members[m].state # "waiting")
  OBVIOUS
<1>2. Keeps(r, e, b, m) /\ Steady(b.run, d.run, m)
  OBVIOUS
<1> HIDE DEF who
<1> QED
  BY <1>1, <1>2, KeepsOn

LEMMA WokenKeeps ==
    ASSUME NEW r \in Runs, NEW e \in Events, NEW s \in Runs, s.members = r.members, s.inbox = r.inbox
    PROVE  /\ \A m \in Names : Keeps(r, e, Wake(s, e), m)
           /\ Wake(s, e).run \in Runs
<1> DEFINE b == Result(s, <<>>)
           w == Wake(b.run, e)
<1>1. b.run = s /\ Silent(b.fx)
  BY SilentEffects DEF Result
<1> HIDE DEF b
<1>2. InboxKept(r, b.run)
  BY <1>1 DEF InboxKept
<1>3. \A m \in Names : Keeps(r, e, b, m)
  BY <1>1, <1>2, PlainKeeps
<1>4. Begun(w.fx) \subseteq Begun(b.fx) \cup Begun(Wake(b.run, e).fx) /\ w.run = Wake(b.run, e).run
  OBVIOUS
<1> HIDE DEF w
<1>5. b.run \in Runs
  BY <1>1
<1>6. \A m \in Names : Keeps(r, e, w, m)
  BY <1>3, <1>4, <1>5, WakeKeeps
<1>7. w = Wake(s, e)
  BY <1>1 DEF w
<1> QED
  BY <1>6, <1>7, WakeSteady

LEMMA TimeoutKeeps ==
    ASSUME NEW r \in Runs, NEW e \in Events
    PROVE  \A m \in Names : Keeps(r, e, StageTimeout(r, e), m)
<1> DEFINE off == [r EXCEPT !.timer = 0]
           failed == [off EXCEPT !.status = "failed"]
           done == [off EXCEPT !.resolved = TRUE]
           action == IF r.stage = 0 THEN "escalate" ELSE Stages[r.stage].onTimeout
           w == Wake(off, e)
           b == StageTimeout(r, e)
<1>1. /\ off \in Runs /\ off.members = r.members /\ off.inbox = r.inbox
      /\ failed.members = r.members /\ failed.inbox = r.inbox
      /\ done.members = r.members /\ done.inbox = r.inbox
  BY DEF Runs
<1>2. \/ b = Result(off, <<>>) \/ b = Result(failed, <<>>)
      \/ r.stage # 0 /\ b = Result(done, Onward(r, e))
      \/ b = Escalated(w, e)
  <2> HIDE DEF w
  <2>1. CASE r.resolved
    BY <2>1 DEF StageTimeout
  <2>2. CASE ~r.resolved /\ action = "fail"
    BY <2>2 DEF StageTimeout
  <2>3. CASE ~r.resolved /\ action = "advance"
    <3>1. r.stage # 0
      BY <2>3
    <3> QED
      BY <2>3, <3>1 DEF StageTimeout
  <2>4. CASE ~r.resolved /\ action \notin {"fail", "advance"}
    BY <2>4 DEF StageTimeout, w
  <2> QED
    BY <2>1, <2>2, <2>3, <2>4
<1> HIDE DEF off, failed, done, b
<1>3. (\A m \in Names : Keeps(r, e, w, m)) /\ w.run \in Runs
  BY <1>1, WokenKeeps
<1> HIDE DEF w
<1>4. ASSUME NEW s \in {off, failed, done}, b.run = s, Silent(b.fx) PROVE \A m \in Names : Keeps(r, e, b, m)
  <2>1. InboxKept(r, b.run) /\ b.run.members = r.members
    BY <1>1, <1>4 DEF InboxKept
  <2> QED
    BY <1>4, <2>1, PlainKeeps
<1>5. CASE b = Result(off, <<>>) \/ b = Result(failed, <<>>)
  <2>1. (b.run = off \/ b.run = failed) /\ Silent(b.fx)
    BY <1>5, SilentEffects DEF Result
  <2> QED
    BY <1>4, <2>1 DEF b
<1>6. CASE r.stage # 0 /\ b = Result(done, Onward(r, e))
  <2>1. b.run = done /\ b.fx = Onward(r, e)
    BY <1>6 DEF Result
  <2>2. \A i \in DOMAIN Onward(r, e) : Onward(r, e)[i].op = "emit"
    BY <1>6, OnwardFacts
  <2>3. Silent(b.fx)
    BY <2>1, <2>2 DEF Silent
  <2> QED
    BY <1>4, <2>1, <2>3 DEF b
<1>7. CASE b = Escalated(w, e)
  <2> DEFINE d == BlockAndAsk(w.run, "stage_timeout", e)
  <2>1. b = w \/ b = d
    BY <1>7 DEF Escalated
  <2>2. \A m \in Names : Steady(w.run, d.run, m)
    BY <1>3, BlockSteady
  <2>3. Begun(d.fx) \subseteq Begun(w.fx)
    BY BlockedSilently, SilentIsSingle
  <2> HIDE DEF d
  <2>4. \A m \in Names : Keeps(r, e, d, m)
    BY <1>3, <2>2, <2>3, ThenKeeps
  <2> QED
    BY <1>3, <2>1, <2>4 DEF b
<1> QED
  BY <1>2, <1>5, <1>6, <1>7 DEF b

LEMMA QuiescentKeeps ==
    ASSUME NEW r \in Runs, NEW e \in Events
    PROVE  \A m \in Names : Keeps(r, e, RunQuiescent(r, e), m)
<1> DEFINE w == Wake(r, e)
           s == [w.run EXCEPT !.status = "failed"]
           d == RunQuiescent(r, e)
<1>1. (\A m \in Names : Keeps(r, e, w, m)) /\ w.run \in Runs
  BY WokenKeeps
<1>2. d = w \/ d = Result(s, <<>>)
  BY DEF RunQuiescent, Diagnosed
<1> HIDE DEF w, d
<1>3. s.members = w.run.members /\ s.inbox = w.run.inbox
  BY <1>1 DEF Runs
<1> HIDE DEF s
<1>4. CASE d = Result(s, <<>>)
  <2>1. d.run = s /\ Silent(d.fx)
    BY <1>4, SilentEffects DEF Result
  <2>2. InboxKept(w.run, d.run)
    BY <1>3, <2>1 DEF InboxKept
  <2>3. \A m \in Names : Steady(w.run, d.run, m)
    BY <1>3, <2>1, <2>2, SteadyMembers
  <2>4. Begun(d.fx) \subseteq Begun(w.fx)
    BY <2>1, SilentIsSingle
  <2> QED
    BY <1>1, <2>3, <2>4, ThenKeeps DEF d
<1> QED
  BY <1>1, <1>2, <1>4 DEF d

(* Events that change nothing of a member, and of a question only whether  *)
(* it is listed.                                                           *)
LEMMA StatusKeeps ==
    ASSUME NEW r \in Runs, NEW e \in Events,
           e.type \in {"run.paused", "run.cancelled", "run.expired", "run.result", "stage.advanced", "inbox.created",
                       "timer.tick"}
    PROVE  \A m \in Names : Keeps(r, e, Apply(r, e), m)
<1> DEFINE t == [r.inbox EXCEPT ![e.n].listed = TRUE]
           b == Apply(r, e)
<1>1. CASE e.type \in {"run.paused", "run.cancelled", "run.expired", "run.result", "stage.advanced"}
  <2>1. b.fx = <<>> /\ b.run.members = r.members /\ b.run.inbox = r.inbox
    <3>1. \/ \E status : b = Result([r EXCEPT !.status = status], <<>>)
          \/ \E stage : b = Result([r EXCEPT !.stage = stage], <<>>)
      BY <1>1 DEF Apply
    <3> HIDE DEF b
    <3> QED
      BY <3>1 DEF Result, Runs
  <2> HIDE DEF b
  <2>2. InboxKept(r, b.run) /\ Silent(b.fx)
    BY <2>1, SilentEffects DEF InboxKept
  <2> QED
    BY <2>1, <2>2, PlainKeeps DEF b
<1>2. CASE e.type = "inbox.created"
  <2>1. b = Result([r EXCEPT !.inbox = t], <<>>)
    <3>1. [r EXCEPT !.inbox[e.n].listed = TRUE] = [r EXCEPT !.inbox = t]
      BY DEF Runs
    <3> QED
      BY <1>2, <3>1 DEF Apply
  <2>2. \A i \in DOMAIN r.inbox : i \in DOMAIN t /\ t[i].agent = r.inbox[i].agent /\ t[i].replied = r.inbox[i].replied
    <3> DEFINE q == r.inbox
    <3>1. q \in Seq(Items)
      BY RunFields
    <3> HIDE DEF q
    <3>2. \A i \in DOMAIN q : q[i] \in Items
      BY <3>1
    <3>3. ASSUME NEW i \in DOMAIN q
          PROVE  LET u == [q EXCEPT ![e.n].listed = TRUE]
                 IN i \in DOMAIN u /\ u[i].agent = q[i].agent /\ u[i].replied = q[i].replied
      BY <3>2 DEF Items
    <3> QED
      BY <3>3 DEF q
  <2> HIDE DEF t, b
  <2>3. b.fx = <<>> /\ b.run.members = r.members /\ b.run.inbox = t
    BY <2>1 DEF Result, Runs
  <2>4. InboxKept(r, b.run) /\ Silent(b.fx)
    BY <2>2, <2>3, SilentEffects DEF InboxKept
  <2> QED
    BY <2>3, <2>4, PlainKeeps DEF b
<1>3. CASE e.type = "timer.tick"
  <2> DEFINE f == Emit(Derived(e, "stage.timeout", r.stage))
             s == [r EXCEPT !.timer = 0]
  <2>1. b = Result(s, <<f>>) \/ b = Result(r, <<>>)
    BY <1>3 DEF Apply, TimerTick
  <2>2. f.op # "spawn" /\ s.members = r.members /\ s.inbox = r.inbox
    BY DEF Emit, Runs
  <2> HIDE DEF f, s, b
  <2>3. (b.fx = <<>> \/ b.fx = <<f>>) /\ b.run.members = r.members /\ b.run.inbox = r.inbox
    BY <2>1, <2>2 DEF Result
  <2>4. InboxKept(r, b.run) /\ Silent(b.fx)
    BY <2>2, <2>3, SilentEffects DEF InboxKept
  <2> QED
    BY <2>3, <2>4, PlainKeeps DEF b
<1> QED
  BY <1>1, <1>2, <1>3

LEMMA StartedKeeps ==
    ASSUME NEW e
    PROVE  \A m \in Names : Keeps(NewRun, e, Started(NewRun, e), m)
<1> DEFINE s == [NewRun EXCEPT !.status = "running", !.budget = Budget]
           f == Emit(Derived(e, "stage.entered", 1))
           b == Started(NewRun, e)
<1>1. b.run = s /\ (b.fx = <<>> \/ b.fx = <<f>>) /\ f.op # "spawn"
  BY DEF Started, Result, Emit
<1>2. s.members = NewRun.members /\ s.inbox = NewRun.inbox
  BY DEF NewRun
<1> HIDE DEF s, b, f
<1>3. InboxKept(NewRun, b.run) /\ Silent(b.fx)
  BY <1>1, <1>2, SilentEffects DEF InboxKept
<1> QED
  BY <1>1, <1>2, <1>3, PlainKeeps DEF b

LEMMA AppliedKeeps ==
    ASSUME NEW r \in Runs, NEW e \in Events, e.type = "run.started" => r = NewRun
    PROVE  \A m \in Names : Keeps(r, e, Apply(r, e), m)
<1>1. CASE e.type = "run.started"
  BY <1>1, StartedKeeps DEF Apply
<1>2. CASE e.type \in {"run.paused", "run.cancelled", "run.expired", "run.result", "stage.advanced", "inbox.created",
                       "timer.tick"}
  BY <1>2, StatusKeeps
<1>3. CASE e.type = "run.prompt"
  BY <1>3, PromptKeeps DEF Apply
<1>4. CASE e.type = "run.unpaused"
  BY <1>4, ResumeKeeps DEF Apply
<1>5. CASE e.type = "run.quiescent"
  BY <1>5, QuiescentKeeps DEF Apply
<1>6. CASE e.type = "stage.entered"
  BY <1>6, StageKeeps DEF Apply
<1>7. CASE e.type = "stage.submitted"
  BY <1>7, SubmittedKeeps DEF Apply
<1>8. CASE e.type = "stage.timeout"
  BY <1>8, TimeoutKeeps DEF Apply
<1>9. CASE e.type = "agent.activated"
  BY <1>9, ActivatedKeeps DEF Apply
<1>10. CASE e.type = "agent.turn_done"
  BY <1>10, EndKeeps DEF Apply
<1>11. CASE e.type = "agent.failed"
  BY <1>11, FailedKeeps DEF Apply
<1>12. CASE e.type = "tool.call"
  BY <1>12, CalledKeeps DEF Apply
<1>13. CASE e.type = "tool.call_completed"
  BY <1>13, CompletedKeeps DEF Apply
<1>14. CASE e.type = "tool.call_denied"
  BY <1>14, DeniedKeeps DEF Apply
<1>15. CASE e.type = "llm.response"
  BY <1>15, PaidKeeps DEF Apply
<1>16. CASE e.type = "budget.exceeded"
  <2> DEFINE b == BlockAndAsk(r, "budget", e)
  <2>1. Apply(r, e) = b
    BY <1>16 DEF Apply
  <2>2. InboxKept(r, b.run) /\ b.run.members = r.members /\ Silent(b.fx)
    BY BlockSteady, BlockedSilently
  <2> HIDE DEF b
  <2> QED
    BY <2>1, <2>2, PlainKeeps
<1>17. CASE e.type = "inbox.replied"
  BY <1>17, AnswerKeeps DEF Apply
<1>18. e.type \in EventTypes
  BY DEF Events
<1> QED
  BY <1>1, <1>2, <1>3, <1>4, <1>5, <1>6, <1>7, <1>8, <1>9, <1>10, <1>11, <1>12, <1>13, <1>14,
     <1>15, <1>16, <1>17, <1>18 DEF EventTypes, HumanTypes, TurnTypes, ToolTypes, MadeTypes

LEMMA DecidedKeeps ==
    ASSUME NEW r \in Runs, NEW e \in Events, r.status \notin Terminal, e.type = "run.started" => r = NewRun
    PROVE  \A m \in Names : Keeps(r, e, Decide(r, e), m)
<1> DEFINE b == Apply(r, e)
           w == Wake(b.run, e)
           seen == Watched(b, e)
           f == Emit(Derived(e, "run.quiescent", 0))
           q == seen.fx \o <<f>>
           s == [seen.run EXCEPT !.quiescent = TRUE]
           d == Decide(r, e)
<1>1. (\A m \in Names : Keeps(r, e, b, m)) /\ b.run \in Runs /\ b.fx \in Seq(Effects)
  BY AppliedKeeps, Applied DEF Handled
<1>2. seen = b \/ (seen.run = w.run /\ seen.fx = b.fx \o w.fx)
  BY DEF Watched, Result
<1>3. seen.run \in Runs /\ seen.fx \in Seq(Effects)
  BY Seen DEF Handled
<1>4. \/ d.run = s /\ d.fx = OrderEffects(q)
      \/ d.run = seen.run /\ d.fx = OrderEffects(seen.fx)
  BY DEF Decide, Concluded, Result
<1>5. f \in Effects /\ f.op # "spawn"
  <2>1. "run.quiescent" \in MadeTypes /\ 0 \in Nat /\ "run.quiescent" \notin {"stage.entered", "stage.advanced"}
    BY DEF MadeTypes
  <2> QED
    BY <2>1, MadeEvents DEF Emit, Derived
<1> HIDE DEF b, seen, d, f
<1>6. ASSUME seen.run = w.run, seen.fx = b.fx \o w.fx PROVE \A m \in Names : Keeps(r, e, seen, m)
  <2>1. w.fx \in Seq(Effects)
    BY <1>1, WakeSteady
  <2> HIDE DEF w
  <2>2. Begun(seen.fx) \subseteq Begun(b.fx) \cup Begun(w.fx)
    BY <1>1, <1>6, <2>1, JoinedBegun
  <2> QED
    BY <1>1, <1>6, <2>2, WakeKeeps DEF w
<1>7. \A m \in Names : Keeps(r, e, seen, m)
  BY <1>1, <1>2, <1>6
<1> HIDE DEF w
<1>8. s.members = seen.run.members /\ s.inbox = seen.run.inbox
  BY <1>3 DEF Runs
<1> HIDE DEF s
<1>9. \A m \in Names : Steady(seen.run, d.run, m)
  <2>1. d.run.members = seen.run.members /\ d.run.inbox = seen.run.inbox
    BY <1>4, <1>8
  <2>2. InboxKept(seen.run, d.run)
    BY <2>1 DEF InboxKept
  <2> QED
    BY <2>1, <2>2, SteadyMembers
<1>10. Begun(d.fx) \subseteq Begun(seen.fx)
  <2> DEFINE p == seen.fx
             g == <<f>>
  <2>0. d.fx = OrderEffects(p) \/ d.fx = OrderEffects(p \o g)
    BY <1>4
  <2>1. g \in Seq(Effects) /\ Begun(g) = {}
    <3>1. Silent(g)
      BY <1>5, SilentEffects
    <3>2. g \in Seq(Effects)
      BY <1>5
    <3> QED
      BY <3>1, <3>2, SilentIsSingle DEF Silent
  <2>5. p = seen.fx
    OBVIOUS
  <2> HIDE DEF g
  <2>2. p \in Seq(Effects)
    BY <1>3
  <2> HIDE DEF p
  <2>3. p \o g \in Seq(Effects) /\ Begun(p \o g) = Begun(p) \cup Begun(g)
    <3>1. g \in Seq(Effects)
      BY <2>1
    <3>2. Begun(p \o g) = Begun(p) \cup Begun(g)
      BY <2>2, <3>1, JoinedBegun
    <3>3. p \o g \in Seq(Effects)
      BY <2>2, <3>1
    <3> QED
      BY <3>2, <3>3
  <2>4. Begun(OrderEffects(p)) = Begun(p) /\ Begun(OrderEffects(p \o g)) = Begun(p \o g)
    BY <2>2, <2>3, OrderKeeps
  <2>6. CASE d.fx = OrderEffects(p)
    BY <2>4, <2>5, <2>6
  <2>7. CASE d.fx = OrderEffects(p \o g)
    BY <2>1, <2>3, <2>4, <2>5, <2>7
  <2> QED
    BY <2>0, <2>6, <2>7
<1>11. \A m \in Names : Keeps(r, e, d, m)
  BY <1>7, <1>9, <1>10, ThenKeeps
<1> QED
  BY <1>11 DEF d

-----------------------------------------------------------------------------
(* A denial of m's, the first event of the log, is the last event that     *)
(* sets m to work.                                                         *)
LEMMA AskingAlone ==
    ASSUME NEW q \in Seq(Events), Linked(q), Preceded(q), Asking(q), EndsOnce(q),
           1 \in DOMAIN q, q[1].type = "tool.call_denied",
           NEW j \in DOMAIN q \ {1}, q[j].type \in Starting
    PROVE  q[j].actor # q[1].actor
<1> DEFINE m == q[1].actor
<1>1. DOMAIN q = 1 .. Len(q) /\ Len(q) \in Nat /\ j \in Nat /\ j > 1
  OBVIOUS
<1>2. /\ 2 \in DOMAIN q /\ q[2].type = "llm.response" /\ q[2].actor = m
      /\ 3 \in DOMAIN q /\ q[3].type = "agent.turn_done" /\ q[3].actor = m
  <2>1. Follows(q, 1, {"llm.response"}) /\ Follows(q, 1 + 1, {"agent.turn_done"}) /\ 1 + 1 = 2 /\ 2 + 1 = 3
    BY DEF Asking
  <2> QED
    BY <2>1 DEF Follows
<1> SUFFICES ASSUME q[j].actor = m PROVE FALSE
  OBVIOUS
<1> HIDE DEF m
<1>3. ASSUME NEW i \in DOMAIN q, q[i].type \in Ends, q[i].actor = m PROVE i = 3
  BY <1>2, <1>3 DEF EndsOnce, Queueing, Ends
<1>4. ASSUME NEW i \in DOMAIN q, q[i].type = "agent.activated", q[i].actor = m PROVE FALSE
  <2>1. PICK k \in DOMAIN q : k > i /\ q[k].type \in Ends /\ q[k].actor = m
    BY <1>4 DEF Linked
  <2>2. k = 3
    BY <1>3, <2>1
  <2>3. i = 1 \/ i = 2
    BY <1>1, <2>1, <2>2
  <2> QED
    BY <1>2, <1>4, <2>3
<1>5. ASSUME NEW i \in DOMAIN q, q[i].type = "tool.call_denied", q[i].actor = m PROVE i = 1
  <2> DEFINE n == i + 1 + 1
  <2>1. Follows(q, i, {"llm.response"}) /\ Follows(q, i + 1, {"agent.turn_done"})
    BY <1>5 DEF Asking
  <2>2. n \in DOMAIN q /\ q[n].type = "agent.turn_done" /\ q[n].actor = m
    BY <1>5, <2>1 DEF Follows
  <2> HIDE DEF n
  <2>3. n = 3
    BY <1>3, <2>2 DEF Ends
  <2> QED
    BY <1>1, <2>3 DEF n
<1>6. CASE q[j].type = "agent.activated"
  BY <1>4, <1>6
<1>7. CASE q[j].type = "agent.failed"
  BY <1>2, <1>3, <1>7 DEF Ends
<1>8. CASE q[j].type = "tool.call"
  <2> DEFINE n == j + 1
  <2>1. Follows(q, j, {"tool.call_denied"})
    BY <1>8 DEF Linked
  <2>2. n \in DOMAIN q /\ q[n].type = "tool.call_denied" /\ q[n].actor = m
    BY <2>1 DEF Follows
  <2> HIDE DEF n
  <2>3. n = 1
    BY <1>5, <2>2
  <2> QED
    BY <1>1, <2>3 DEF n
<1>9. CASE q[j].type = "tool.call_denied"
  BY <1>5, <1>9
<1>10. CASE q[j].type = "stage.submitted"
  <2> DEFINE n == j - 1
             k == n - 1
  <2>1. q[n].type = "llm.response" /\ q[n].actor = m
    BY <1>10 DEF Preceded, Turning
  <2>2. n \in DOMAIN q /\ n \in Nat
    BY <1>1
  <2>3. n # 1
    <3> HIDE DEF n
    <3> QED
      BY <2>1
  <2>4. k \in DOMAIN q /\ k \in Nat
    BY <1>1, <2>2, <2>3
  <2>5. q[k].type \in {"agent.activated", "tool.call_denied"} /\ q[k].actor = m
    <3>1. n \in DOMAIN q \ {1}
      BY <2>2, <2>3
    <3> HIDE DEF n
    <3> QED
      BY <2>1, <3>1 DEF Preceded, Turning
  <2>6. k = 1
    <3> HIDE DEF k
    <3> QED
      BY <1>4, <1>5, <2>4, <2>5
  <2>7. j = 3
    BY <1>1, <2>6
  <2> QED
    BY <1>2, <1>10, <2>7
<1> QED
  BY <1>6, <1>7, <1>8, <1>9, <1>10 DEF Starting

LEMMA FollowsOn ==
    ASSUME NEW q \in Seq(Events), q # <<>>, NEW new \in Seq(Events), NEW t, Advances(t, q, new), NEW types
    PROVE  /\ \A i \in DOMAIN q \ {1} : Follows(q, i, types) => Follows(t, i - 1, types)
           /\ \A j \in DOMAIN new : Follows(new, j, types) => Follows(t, Len(q) - 1 + j, types)
<1>1. ASSUME NEW i \in DOMAIN q \ {1}, Follows(q, i, types) PROVE Follows(t, i - 1, types)
  <2> DEFINE n == i + 1
  <2>1. n \in DOMAIN q \ {1} /\ n - 1 = i /\ i - 1 + 1 = i /\ i \in Nat
    BY <1>1 DEF Follows
  <2>2. q[n].type \in types /\ q[n].actor = q[i].actor
    BY <1>1 DEF Follows
  <2> HIDE DEF n
  <2>3. i - 1 \in DOMAIN t /\ t[i - 1] = q[i] /\ n - 1 \in DOMAIN t /\ t[n - 1] = q[n]
    BY <2>1 DEF Advances
  <2>4. i \in DOMAIN t /\ t[i].type \in types /\ t[i].actor = t[i - 1].actor
    BY <2>1, <2>2, <2>3
  <2> QED
    BY <2>1, <2>4 DEF Follows
<1>2. ASSUME NEW j \in DOMAIN new, Follows(new, j, types) PROVE Follows(t, Len(q) - 1 + j, types)
  <2> DEFINE L == Len(q) - 1
             n == j + 1
  <2>1. n \in DOMAIN new /\ L \in Nat /\ j \in Nat /\ L + j + 1 = L + n
    BY <1>2 DEF Follows
  <2>2. new[n].type \in types /\ new[n].actor = new[j].actor
    BY <1>2 DEF Follows
  <2>3. L + j \in DOMAIN t /\ t[L + j] = new[j]
    BY DEF Advances
  <2>4. L + n \in DOMAIN t /\ t[L + n] = new[n]
    <3>1. n \in DOMAIN new
      BY <2>1
    <3> HIDE DEF n
    <3> QED
      BY <3>1 DEF Advances
  <2> HIDE DEF L, n
  <2>5. Follows(t, L + j, types)
    BY <2>1, <2>2, <2>3, <2>4 DEF Follows
  <2> QED
    BY <2>5 DEF L
<1> QED
  BY <1>1, <1>2

LEMMA StepAsking ==
    ASSUME NEW q \in Seq(Events), q # <<>>, Asking(q), NEW new \in Seq(Events), Asking(new),
           NEW t, Advances(t, q, new)
    PROVE  Asking(t)
<1> DEFINE L == Len(q) - 1
           A == {"llm.response"}
           B == {"agent.turn_done"}
<1>1. SUFFICES ASSUME NEW k \in DOMAIN t, t[k].type = "tool.call_denied"
               PROVE  Follows(t, k, A) /\ Follows(t, k + 1, B)
  BY DEF Asking
<1>2. k \in Nat /\ L \in Nat /\ DOMAIN q = 1 .. Len(q)
  BY DEF Advances
<1>3. CASE k < Len(q) /\ k + 1 \in DOMAIN q \ {1} /\ t[k] = q[k + 1]
  <2> DEFINE i == k + 1
             n == i + 1
  <2>1. i \in DOMAIN q \ {1} /\ q[i].type = "tool.call_denied" /\ i - 1 = k /\ n - 1 = i /\ n # 1
    BY <1>1, <1>2, <1>3
  <2>2. Follows(q, i, A) /\ Follows(q, n, B) /\ n \in DOMAIN q
    <3>1. Follows(q, i, A) /\ Follows(q, i + 1, B)
      BY <2>1 DEF Asking
    <3> QED
      BY <3>1 DEF Follows
  <2> HIDE DEF n, A, B
  <2>3. Follows(t, i - 1, A)
    <3> HIDE DEF i
    <3> QED
      BY <2>1, <2>2, FollowsOn
  <2>4. Follows(t, n - 1, B)
    BY <2>1, <2>2, FollowsOn
  <2> QED
    BY <2>1, <2>3, <2>4
<1>4. CASE k >= Len(q) /\ k - L \in DOMAIN new /\ t[k] = new[k - L]
  <2> DEFINE i == k - L
             n == i + 1
  <2>1. i \in DOMAIN new /\ new[i].type = "tool.call_denied" /\ L + i = k /\ L + n = k + 1
    BY <1>1, <1>2, <1>4
  <2>2. Follows(new, i, A) /\ Follows(new, n, B) /\ n \in DOMAIN new
    <3>1. Follows(new, i, A) /\ Follows(new, i + 1, B)
      BY <2>1 DEF Asking
    <3> QED
      BY <3>1 DEF Follows
  <2> HIDE DEF n, i, A, B
  <2>3. Follows(t, L + i, A)
    BY <2>1, <2>2, FollowsOn
  <2>4. Follows(t, L + n, B)
    BY <2>1, <2>2, FollowsOn
  <2> QED
    BY <2>1, <2>3, <2>4
<1> QED
  BY <1>3, <1>4 DEF Advances

LEMMA MoreAsking ==
    ASSUME NEW q \in Seq(Events), Asking(q), NEW e \in Events, e.type # "tool.call_denied"
    PROVE  Asking(Append(q, e))
<1> DEFINE t == Append(q, e)
<1>1. /\ DOMAIN q \subseteq DOMAIN t /\ \A i \in DOMAIN q : t[i] = q[i]
      /\ t[Len(t)] = e /\ \A i \in DOMAIN t : i \in DOMAIN q \/ i = Len(t)
  BY OneMore
<1> HIDE DEF t
<1>2. \A i, types : i \in DOMAIN q /\ Follows(q, i, types) => Follows(t, i, types)
  BY <1>1 DEF Follows
<1>3. ASSUME NEW i \in DOMAIN t, t[i].type = "tool.call_denied"
      PROVE  Follows(t, i, {"llm.response"}) /\ Follows(t, i + 1, {"agent.turn_done"})
  <2>1. i \in DOMAIN q /\ q[i].type = "tool.call_denied"
    BY <1>1, <1>3
  <2>2. Follows(q, i, {"llm.response"}) /\ Follows(q, i + 1, {"agent.turn_done"}) /\ i + 1 \in DOMAIN q
    BY <2>1 DEF Asking, Follows
  <2> QED
    BY <1>2, <2>1, <2>2
<1>4. Asking(t)
  BY <1>3 DEF Asking
<1> QED
  BY <1>4 DEF t

(* Nobody who waits is set to work by an event of the log.                 *)
Waits(r, q) == \A k \in Queueing(q, Starting) : r.members[q[k].actor].state # "waiting"

LEMMA StepWaits ==
    ASSUME NEW r, NEW q \in Seq(Events), q # <<>>, Linked(q), Preceded(q), Asking(q), EndsOnce(q), Waits(r, q),
           NEW d, \A m \in Names : Keeps(r, q[1], d, m) /\ Held(r, m),
           NEW new \in Seq(Events), \A k \in Queueing(new, Starting) : new[k].actor \in Begun(d.fx),
           NEW t, Advances(t, q, new)
    PROVE  Waits(d.run, t) /\ \A m \in Names : Held(d.run, m)
<1> DEFINE e == q[1]
           L == Len(q) - 1
<1>1. 1 \in DOMAIN q /\ \A k \in DOMAIN t : t[k] \in Events
  BY DEF Advances
<1>2. ASSUME NEW m \in Names
      PROVE  /\ Held(d.run, m)
             /\ d.run.members[m].state = "waiting" =>
                   /\ m \notin Begun(d.fx)
                   /\ r.members[m].state = "waiting" \/ (e.type = "tool.call_denied" /\ e.actor = m)
  <2>1. Keeps(r, e, d, m) /\ Held(r, m)
    OBVIOUS
  <2>2. e.type \in Starting /\ e.actor = m => r.members[m].state # "waiting"
    BY <1>1 DEF Waits, Queueing
  <2> HIDE DEF e
  <2> QED
    BY <2>1, <2>2, KeepsHeld
<1>3. ASSUME NEW k \in DOMAIN t, t[k].type \in Starting, d.run.members[t[k].actor].state = "waiting"
      PROVE  FALSE
  <2> DEFINE m == t[k].actor
  <2>1. m \in Names
    <3>1. t[k].type \in TurnTypes \cup ToolTypes
      BY <1>3 DEF Starting, TurnTypes, ToolTypes
    <3> QED
      BY <1>1, <3>1 DEF Events, EventOK
  <2>2. m \notin Begun(d.fx) /\ (r.members[m].state = "waiting" \/ (e.type = "tool.call_denied" /\ e.actor = m))
    BY <1>2, <1>3, <2>1
  <2>3. CASE k < Len(q) /\ k + 1 \in DOMAIN q \ {1} /\ t[k] = q[k + 1]
    <3> DEFINE i == k + 1
    <3>1. i \in DOMAIN q \ {1} /\ q[i].type \in Starting /\ q[i].actor = m
      BY <1>3, <2>3
    <3> HIDE DEF i, m
    <3>2. r.members[m].state # "waiting"
      BY <3>1 DEF Waits, Queueing
    <3>3. e.type = "tool.call_denied" => e.actor # m
      BY <1>1, <3>1, AskingAlone
    <3> QED
      BY <2>2, <3>2, <3>3
  <2>4. CASE k >= Len(q) /\ k - L \in DOMAIN new /\ t[k] = new[k - L]
    <3> DEFINE i == k - L
    <3>1. i \in DOMAIN new /\ new[i].type \in Starting /\ new[i].actor = m
      BY <1>3, <2>4
    <3> HIDE DEF i, m
    <3>2. m \in Begun(d.fx)
      BY <3>1 DEF Queueing
    <3> QED
      BY <2>2, <3>2
  <2> QED
    BY <2>3, <2>4 DEF Advances
<1>4. Waits(d.run, t)
  BY <1>3 DEF Waits, Queueing
<1> QED
  BY <1>2, <1>4

WaitInv ==
    /\ Asking(queue) /\ \A m \in Names : Held(run, m)
    /\ run.status \notin Terminal => Waits(run, queue)

(* As long as no tool of a watcher is denied, which sets the watcher to    *)
(* work whatever it was doing, and no member is given a turn while one of  *)
(* its own is open, a member waits exactly while a question of its own is  *)
(* unanswered: no event of the log can then set it to work, and whatever   *)
(* takes its question away takes its waiting away (applyToolDenied,        *)
(* applyInboxReplied, applyTurnDone).                                      *)
THEOREM WaitersAreAsked == ASSUME NoneDenied PROVE Spec /\ []~Overlapping => []WaitingIsAsked
<1>1. Init => WaitInv
  <2> SUFFICES ASSUME Init PROVE WaitInv
    OBVIOUS
  <2> DEFINE e == Human("run.started", 0, 0)
  <2>1. e.type = "run.started"
    BY DEF Human, Event
  <2> HIDE DEF e
  <2>2. DOMAIN queue = {1} /\ queue[1] = e
    BY DEF Init, e
  <2>3. Asking(queue) /\ Waits(run, queue)
    BY <2>1, <2>2 DEF Asking, Waits, Queueing, Starting
  <2>4. ASSUME NEW m \in Names PROVE Held(run, m)
    <3>1. run.members[m] = NewMember(m)
      BY DEF Init, NewRun
    <3>2. NewMember(m).state \in {"inactive", "idle"} /\ NewMember(m).on = 0
      BY DEF NewMember
    <3> QED
      BY <3>1, <3>2 DEF Held
  <2> QED
    BY <2>3, <2>4 DEF WaitInv
<1>2. TurnInv /\ MarkerInv /\ WaitInv /\ [Next]_vars => WaitInv'
  <2> SUFFICES ASSUME TurnInv, MarkerInv, WaitInv, [Next]_vars PROVE WaitInv'
    OBVIOUS
  <2>1. /\ LoopInv /\ run \in Runs /\ queue \in Seq(Events) /\ Linked(queue) /\ Preceded(queue)
        /\ Asking(queue) /\ \A m \in Names : Held(run, m)
    BY DEF TurnInv, LoopInv, LoopType, WaitInv
  <2>2. CASE Step
    <3>1. PICK d, new : Steps(d, new)
      BY <2>1, <2>2, StepIs
    <3>2. /\ queue # <<>> /\ Advances(queue', queue, new) /\ run' = d.run /\ d = Decide(run, queue[1])
          /\ new \in Seq(Events) /\ Asking(new) /\ \A k \in Queueing(new, Starting) : new[k].actor \in Begun(d.fx)
      BY <3>1 DEF Steps, Adds, Asked
    <3>3. Asking(queue')
      BY <2>1, <3>2, StepAsking
    <3>4. CASE run.status \in Terminal
      <4>1. run' = run
        BY <3>1, <3>4, EndedRunStays
      <4> QED
        BY <2>1, <3>3, <3>4, <4>1 DEF WaitInv
    <3>5. CASE run.status \notin Terminal
      <4>1. queue[1] \in Events /\ (queue[1].type = "run.started" => run = NewRun)
        <5>1. 1 \in DOMAIN queue
          BY <2>1, <3>2
        <5> QED
          BY <2>1, <5>1, FirstEvents
      <4>2. \A m \in Names : Keeps(run, queue[1], d, m)
        BY <2>1, <3>2, <3>5, <4>1, DecidedKeeps
      <4>3. EndsOnce(queue) /\ Waits(run, queue)
        BY <3>5 DEF MarkerInv, Marks, WaitInv
      <4>4. Waits(d.run, queue') /\ \A m \in Names : Held(d.run, m)
        BY <2>1, <3>2, <4>2, <4>3, StepWaits
      <4> QED
        BY <3>2, <3>3, <4>4 DEF WaitInv
    <3> QED
      BY <3>4, <3>5
  <2>3. ASSUME NEW e, Adding(e), e.type \in HumanTypes \cup {"timer.tick"} PROVE WaitInv'
    <3>1. e \in Events /\ queue' = Append(queue, e) /\ run' = run
      BY <2>3 DEF Adding
    <3>2. e.type \notin Starting
      BY <2>3 DEF HumanTypes, Starting
    <3>3. Asking(queue')
      <4>1. e.type # "tool.call_denied"
        BY <3>2 DEF Starting
      <4> QED
        BY <2>1, <3>1, <4>1, MoreAsking
    <3>4. \A k \in Queueing(queue', Starting) : k \in Queueing(queue, Starting) /\ queue'[k] = queue[k]
      <4> DEFINE t == Append(queue, e)
      <4>1. /\ \A i \in DOMAIN queue : t[i] = queue[i]
            /\ t[Len(t)] = e /\ \A i \in DOMAIN t : i \in DOMAIN queue \/ i = Len(t)
        BY <2>1, <3>1, OneMore
      <4>2. queue' = t
        BY <3>1
      <4> HIDE DEF t
      <4> QED
        BY <3>2, <4>1, <4>2 DEF Queueing
    <3>5. run.status \notin Terminal => Waits(run, queue')
      BY <3>4 DEF WaitInv, Waits
    <3> QED
      BY <2>1, <3>1, <3>3, <3>5 DEF WaitInv
  <2>4. CASE Tick
    BY <2>1, <2>3, <2>4, TickAdds
  <2>5. CASE Recover
    BY <2>5 DEF Recover, WaitInv
  <2>6. CASE People
    BY <2>1, <2>3, <2>6, PeopleAdd
  <2>7. CASE UNCHANGED vars
    BY <2>7 DEF vars, WaitInv
  <2> QED
    BY <2>2, <2>4, <2>5, <2>6, <2>7 DEF Next
<1>3. WaitInv => WaitingIsAsked
  BY DEF WaitInv, Held, WaitingIsAsked
<1> QED
  BY <1>1, <1>2, <1>3, TurnInvariant, MarkersHold, PTL DEF Spec
=============================================================================
