----------------------------- MODULE KeptProofs -----------------------------
(***************************************************************************)
(* What Kept, the list comprehensions of do_run, computes for sequences of  *)
(* any length.  The library's induction takes an operator as a parameter,   *)
(* which no backend instantiates; here induction is stated about sets, from *)
(* the well-foundedness of the natural numbers: a set that has the first    *)
(* element and with each element the next one has them all.                 *)
(***************************************************************************)
EXTENDS CommandLine, SequenceTheorems, WellFoundedInduction, TLAPS

(* A set of natural numbers that is not empty has a least element.          *)
LEMMA LeastOf ==
  ASSUME NEW T \in SUBSET Nat, T # {}
  PROVE  \E n \in T : \A m \in T : n <= m
<1> DEFINE R == OpToRel(<, Nat)
<1>1. IsWellFoundedOn(R, Nat)
  BY NatLessThanWellFounded
<1>2. \A i, j \in Nat : <<i, j>> \in R <=> i < j
  BY DEF OpToRel
<1> HIDE DEF R
<1>3. PICK x \in T : \A y \in T : <<y, x>> \notin R
  BY <1>1, WFMin
<1>4. ASSUME NEW y \in T
      PROVE  x <= y
  <2>1. x \in Nat /\ y \in Nat /\ <<y, x>> \notin R
    BY <1>3
  <2>2. ~(y < x)
    BY <2>1, <1>2
  <2> QED BY <2>1, <2>2
<1> QED BY <1>4

(* Induction over the natural numbers, about a set.                         *)
LEMMA AllNumbers ==
  ASSUME NEW T \in SUBSET Nat, 0 \in T, \A n \in T : n + 1 \in T
  PROVE  T = Nat
<1> SUFFICES ASSUME Nat \ T # {}
             PROVE  FALSE
  OBVIOUS
<1>1. PICK m \in Nat \ T : \A k \in Nat \ T : m <= k
  BY LeastOf
<1>2. m # 0 /\ m - 1 \in Nat
  BY <1>1
<1>3. m - 1 \in T
  BY <1>1, <1>2
<1>4. (m - 1) + 1 = m
  BY <1>1
<1> QED BY <1>1, <1>3, <1>4

(* A finite set of positions has a last one, and LastOf is it.              *)
LEMMA LastOfIsLast ==
  ASSUME NEW n \in Nat, NEW at \in SUBSET (1..n), at # {}
  PROVE  LastOf(at) \in at /\ \A j \in at : j <= LastOf(at)
<1> DEFINE T == {n - i : i \in at}
<1>1. T \in SUBSET Nat /\ T # {}
  <2>1. \A i \in at : n - i \in Nat
    OBVIOUS
  <2> QED BY <2>1
<1>2. PICK d \in T : \A e \in T : d <= e
  BY <1>1, LeastOf
<1>3. PICK i \in at : d = n - i
  BY <1>2
<1>4. \A j \in at : j <= i
  <2> TAKE j \in at
  <2>1. n - j \in T
    OBVIOUS
  <2>2. n - i <= n - j
    BY <1>2, <1>3, <2>1
  <2> QED BY <2>2
<1> QED BY <1>3, <1>4 DEF LastOf

(* The last position is one that no other exceeds.                          *)
LEMMA LastOfUnique ==
  ASSUME NEW n \in Nat, NEW at \in SUBSET (1..n), NEW i \in at, \A j \in at : j <= i
  PROVE  LastOf(at) = i
<1>1. LastOf(at) \in at /\ i <= LastOf(at)
  BY LastOfIsLast
<1>2. \A j \in at : j \in Int
  OBVIOUS
<1>3. \A a, b \in Int : a <= b /\ b <= a => a = b
  OBVIOUS
<1> QED BY <1>1, <1>2, <1>3, Zenon

(* Induction over the sequences of a set, about a set of them.              *)
LEMMA AllSequences ==
  ASSUME NEW S, NEW T \in SUBSET Seq(S), <<>> \in T,
         \A s \in T, e \in S : Append(s, e) \in T
  PROVE  T = Seq(S)
<1> DEFINE N == {n \in Nat : \A s \in Seq(S) : Len(s) = n => s \in T}
<1>1. 0 \in N
  OBVIOUS
<1>2. ASSUME NEW n \in N
      PROVE  n + 1 \in N
  <2> SUFFICES ASSUME NEW s \in Seq(S), Len(s) = n + 1
               PROVE  s \in T
    OBVIOUS
  <2>1. s # <<>>
    OBVIOUS
  <2>2. PICK front \in Seq(S), e \in S : s = Append(front, e)
    BY <2>1, SequenceEmptyOrAppend
  <2>3. Len(front) = n
    BY <2>2
  <2> QED BY <2>2, <2>3
<1> HIDE DEF N
<1>3. N = Nat
  <2>1. N \in SUBSET Nat
    BY DEF N
  <2> QED BY <2>1, <1>1, <1>2, AllNumbers
<1>4. ASSUME NEW s \in Seq(S)
      PROVE  s \in T
  <2>1. Len(s) \in N
    BY <1>3
  <2> QED BY <2>1 DEF N
<1> QED BY <1>4

-----------------------------------------------------------------------------
(* The function inside Kept, as far as the m-th element.                    *)
Follows(s, K, g, m) ==
    g = [n \in 0..m |->
            IF n = 0 THEN <<>>
            ELSE IF s[n] \in K THEN Append(g[n - 1], s[n]) ELSE g[n - 1]]

LEMMA FollowsOn ==
  ASSUME NEW s, NEW K, NEW m \in Nat, NEW g, Follows(s, K, g, m)
  PROVE  \E h : Follows(s, K, h, m + 1)
<1> DEFINE h == [n \in 0..(m + 1) |->
                    IF n = m + 1
                    THEN (IF s[n] \in K THEN Append(g[m], s[n]) ELSE g[m])
                    ELSE g[n]]
<1>1. g = [n \in 0..m |->
             IF n = 0 THEN <<>>
             ELSE IF s[n] \in K THEN Append(g[n - 1], s[n]) ELSE g[n - 1]]
  BY DEF Follows
<1>2. ASSUME NEW n \in 0..(m + 1)
      PROVE  h[n] = IF n = 0 THEN <<>>
                    ELSE IF s[n] \in K THEN Append(h[n - 1], s[n]) ELSE h[n - 1]
  <2>1. CASE n = m + 1
    <3>1. n - 1 = m /\ n - 1 \in 0..(m + 1) /\ n # 0 /\ h[n - 1] = g[m]
      BY <2>1
    <3> QED BY <3>1, <2>1
  <2>2. CASE n = 0
    BY <2>2, <1>1
  <2>3. CASE n # m + 1 /\ n # 0
    <3>1. n \in 0..m /\ n - 1 \in 0..(m + 1) /\ n - 1 # m + 1
      BY <2>3
    <3>2. h[n] = g[n] /\ h[n - 1] = g[n - 1]
      BY <3>1, <2>3
    <3> HIDE DEF h
    <3> QED BY <3>1, <3>2, <2>3, <1>1
  <2> QED BY <2>1, <2>2, <2>3
<1>3. h = [n \in 0..(m + 1) |-> h[n]]
  OBVIOUS
<1> HIDE DEF h
<1> QED BY <1>2, <1>3 DEF Follows

LEMMA FollowsExists ==
  ASSUME NEW s, NEW K
  PROVE  \A m \in Nat : \E g : Follows(s, K, g, m)
<1> DEFINE T == {m \in Nat : \E g : Follows(s, K, g, m)}
<1>1. 0 \in T
  <2>1. Follows(s, K, [n \in 0..0 |-> <<>>], 0)
    BY DEF Follows
  <2> QED BY <2>1
<1>2. \A m \in T : m + 1 \in T
  BY FollowsOn
<1>3. T \in SUBSET Nat
  OBVIOUS
<1> HIDE DEF T
<1>4. T = Nat
  BY <1>1, <1>2, <1>3, AllNumbers
<1> QED BY <1>4 DEF T

(* Two such functions agree as far as the sequences do.                     *)
LEMMA FollowsAgree ==
  ASSUME NEW s, NEW t, NEW K, NEW m \in Nat, NEW n \in Nat, NEW g, NEW h,
         Follows(s, K, g, m), Follows(t, K, h, n),
         NEW l \in Nat, l <= m, l <= n, \A i \in 1..l : s[i] = t[i]
  PROVE  g[l] = h[l]
<1> DEFINE T == {i \in Nat : i <= l => g[i] = h[i]}
<1>1. 0 \in T
  BY DEF Follows
<1>2. ASSUME NEW i \in T
      PROVE  i + 1 \in T
  <2> SUFFICES ASSUME i + 1 <= l
               PROVE  g[i + 1] = h[i + 1]
    OBVIOUS
  <2>1. g[i] = h[i] /\ s[i + 1] = t[i + 1]
    OBVIOUS
  <2>2. i + 1 \in 0..m /\ i + 1 \in 0..n /\ i + 1 # 0 /\ (i + 1) - 1 = i
    OBVIOUS
  <2>3. g[i + 1] = IF s[i + 1] \in K THEN Append(g[i], s[i + 1]) ELSE g[i]
    BY <2>2 DEF Follows
  <2>4. h[i + 1] = IF t[i + 1] \in K THEN Append(h[i], t[i + 1]) ELSE h[i]
    BY <2>2 DEF Follows
  <2> QED BY <2>1, <2>3, <2>4
<1>3. T \in SUBSET Nat
  OBVIOUS
<1> HIDE DEF T
<1>4. T = Nat
  BY <1>1, <1>2, <1>3, AllNumbers
<1> QED BY <1>4 DEF T

(* The function inside Kept exists: Kept is its last value.                 *)
LEMMA KeptFollows ==
  ASSUME NEW S, NEW s \in Seq(S), NEW K
  PROVE  \E g : Follows(s, K, g, Len(s)) /\ Kept(s, K) = g[Len(s)]
<1>1. Len(s) \in Nat
  OBVIOUS
<1>2. Kept(s, K) = (CHOOSE g : Follows(s, K, g, Len(s)))[Len(s)]
  BY DEF Kept, Follows
<1>3. \E g : Follows(s, K, g, Len(s))
  BY <1>1, FollowsExists
<1> QED BY <1>2, <1>3

-----------------------------------------------------------------------------
(* Kept by its equations: of nothing, and of one element more.              *)
LEMMA KeptOfNothing == ASSUME NEW K PROVE Kept(<<>>, K) = <<>>
<1>1. <<>> \in Seq({})
  OBVIOUS
<1>2. PICK g : Follows(<<>>, K, g, Len(<<>>)) /\ Kept(<<>>, K) = g[Len(<<>>)]
  BY <1>1, KeptFollows
<1> QED BY <1>2 DEF Follows

LEMMA KeptOfAppend ==
  ASSUME NEW S, NEW s \in Seq(S), NEW e \in S, NEW K
  PROVE  Kept(Append(s, e), K) = IF e \in K THEN Append(Kept(s, K), e) ELSE Kept(s, K)
<1> DEFINE t == Append(s, e)
           n == Len(s)
<1>1. /\ t \in Seq(S) /\ n \in Nat /\ Len(t) = n + 1 /\ t[n + 1] = e
      /\ \A i \in 1..n : s[i] = t[i]
  OBVIOUS
<1> HIDE DEF t, n
<1>2. PICK g : Follows(s, K, g, n) /\ Kept(s, K) = g[n]
  BY KeptFollows DEF n
<1>3. PICK h : Follows(t, K, h, n + 1) /\ Kept(t, K) = h[n + 1]
  BY <1>1, KeptFollows
<1>4. g[n] = h[n]
  BY <1>1, <1>2, <1>3, FollowsAgree
<1>5. n + 1 \in 0..(n + 1) /\ n + 1 # 0 /\ (n + 1) - 1 = n
  BY <1>1
<1>6. h[n + 1] = IF t[n + 1] \in K THEN Append(h[n], t[n + 1]) ELSE h[n]
  BY <1>3, <1>5 DEF Follows
<1> QED BY <1>1, <1>2, <1>3, <1>4, <1>6 DEF t

(* It holds elements of the sequence that are in the set.                   *)
LEMMA KeptType ==
  ASSUME NEW S, NEW s \in Seq(S), NEW K
  PROVE  Kept(s, K) \in Seq(S \cap K)
<1> DEFINE T == {t \in Seq(S) : Kept(t, K) \in Seq(S \cap K)}
<1>1. <<>> \in T
  <2>1. <<>> \in Seq(S) /\ <<>> \in Seq(S \cap K) /\ Kept(<<>>, K) = <<>>
    BY KeptOfNothing, EmptySeq
  <2> QED BY <2>1, Zenon
<1>2. ASSUME NEW t \in T, NEW e \in S
      PROVE  Append(t, e) \in T
  <2>1. Kept(Append(t, e), K) = IF e \in K THEN Append(Kept(t, K), e) ELSE Kept(t, K)
    BY KeptOfAppend
  <2>2. Kept(t, K) \in Seq(S \cap K) /\ Append(t, e) \in Seq(S)
    OBVIOUS
  <2>3. e \in K => Append(Kept(t, K), e) \in Seq(S \cap K)
    BY <2>2
  <2>4. Kept(Append(t, e), K) \in Seq(S \cap K)
    <3>1. CASE e \in K
      BY <3>1, <2>1, <2>3, Zenon
    <3>2. CASE e \notin K
      BY <3>2, <2>1, <2>2, Zenon
    <3> QED BY <3>1, <3>2
  <2> QED BY <2>2, <2>4, Zenon
<1>3. T \in SUBSET Seq(S)
  OBVIOUS
<1> HIDE DEF T
<1>4. T = Seq(S)
  BY <1>1, <1>2, <1>3, AllSequences
<1> QED BY <1>4 DEF T

(* Nothing is lost of a sequence that lies in the set.                      *)
LEMMA KeptOfAll ==
  ASSUME NEW K, NEW s \in Seq(K)
  PROVE  Kept(s, K) = s
<1> DEFINE T == {t \in Seq(K) : Kept(t, K) = t}
<1>1. <<>> \in T
  <2>1. <<>> \in Seq(K) /\ Kept(<<>>, K) = <<>>
    BY KeptOfNothing, EmptySeq
  <2> QED BY <2>1, Zenon
<1>2. ASSUME NEW t \in T, NEW e \in K
      PROVE  Append(t, e) \in T
  <2>1. Kept(Append(t, e), K) = Append(Kept(t, K), e)
    BY KeptOfAppend
  <2>2. Append(t, e) \in Seq(K)
    OBVIOUS
  <2> QED BY <2>1, <2>2, Zenon
<1>3. T \in SUBSET Seq(K)
  OBVIOUS
<1> HIDE DEF T
<1>4. T = Seq(K)
  BY <1>1, <1>2, <1>3, AllSequences
<1> QED BY <1>4 DEF T

(* What is kept of two parts is what is kept of each, in their order.       *)
LEMMA KeptOfConcat ==
  ASSUME NEW S, NEW s \in Seq(S), NEW t \in Seq(S), NEW K
  PROVE  Kept(s \o t, K) = Kept(s, K) \o Kept(t, K)
<1> DEFINE T == {u \in Seq(S) : Kept(s \o u, K) = Kept(s, K) \o Kept(u, K)}
<1>1. <<>> \in T
  <2>1. Kept(s, K) \in Seq(S \cap K)
    BY KeptType
  <2>2. s \o <<>> = s /\ Kept(s, K) \o <<>> = Kept(s, K)
    BY <2>1, ConcatEmptySeq
  <2>3. Kept(<<>>, K) = <<>> /\ <<>> \in Seq(S)
    BY KeptOfNothing, EmptySeq
  <2>4. Kept(s \o <<>>, K) = Kept(s, K) \o Kept(<<>>, K)
    BY <2>2, <2>3, Zenon
  <2> QED BY <2>3, <2>4, Zenon
<1>2. ASSUME NEW u \in T, NEW e \in S
      PROVE  Append(u, e) \in T
  <2>1. /\ Kept(s, K) \in Seq(S) /\ Kept(u, K) \in Seq(S)
    <3>1. S \cap K \subseteq S
      OBVIOUS
    <3>2. Kept(s, K) \in Seq(S \cap K) /\ Kept(u, K) \in Seq(S \cap K)
      BY KeptType
    <3> QED BY <3>1, <3>2, SeqMonotonic
  <2>2. s \o Append(u, e) = Append(s \o u, e)
    OBVIOUS
  <2>3. s \o u \in Seq(S)
    OBVIOUS
  <2>4. Kept(s \o Append(u, e), K) =
          IF e \in K THEN Append(Kept(s \o u, K), e) ELSE Kept(s \o u, K)
    <3> DEFINE w == s \o u
    <3> HIDE DEF w
    <3>1. w \in Seq(S)
      BY <2>3 DEF w
    <3>2. Kept(Append(w, e), K) = IF e \in K THEN Append(Kept(w, K), e) ELSE Kept(w, K)
      BY <3>1, KeptOfAppend
    <3> QED BY <2>2, <3>2, Zenon DEF w
  <2>5. Kept(Append(u, e), K) = IF e \in K THEN Append(Kept(u, K), e) ELSE Kept(u, K)
    BY KeptOfAppend
  <2>6. Kept(s \o u, K) = Kept(s, K) \o Kept(u, K)
    OBVIOUS
  <2>7. ASSUME NEW a \in Seq(S), NEW b \in Seq(S)
        PROVE  Append(a \o b, e) = a \o Append(b, e)
    <3>1. <<e>> \in Seq(S) /\ a \o b \in Seq(S)
      OBVIOUS
    <3>2. Append(b, e) = b \o <<e>> /\ Append(a \o b, e) = (a \o b) \o <<e>>
      BY <3>1, AppendIsConcat
    <3>3. (a \o b) \o <<e>> = a \o (b \o <<e>>)
      BY <3>1, ConcatAssociative
    <3> QED BY <3>2, <3>3, Zenon
  <2>8. Append(Kept(s, K) \o Kept(u, K), e) = Kept(s, K) \o Append(Kept(u, K), e)
    BY <2>1, <2>7, Zenon
  <2>9. Kept(s \o Append(u, e), K) = Kept(s, K) \o Kept(Append(u, e), K)
    <3>1. CASE e \in K
      BY <3>1, <2>4, <2>5, <2>6, <2>8, Zenon
    <3>2. CASE e \notin K
      BY <3>2, <2>4, <2>5, <2>6, Zenon
    <3> QED BY <3>1, <3>2
  <2>10. Append(u, e) \in Seq(S)
    OBVIOUS
  <2> QED BY <2>9, <2>10, Zenon
<1>3. T \in SUBSET Seq(S)
  OBVIOUS
<1> HIDE DEF T
<1>4. T = Seq(S)
  BY <1>1, <1>2, <1>3, AllSequences
<1> QED BY <1>4 DEF T
=============================================================================
