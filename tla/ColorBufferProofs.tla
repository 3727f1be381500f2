------------------------- MODULE ColorBufferProofs -------------------------
(***************************************************************************)
(* What the loop over the cores puts into a color buffer, for any number   *)
(* of cores and any color function.  Induction over the cores is by least  *)
(* counterexample.                                                         *)
(***************************************************************************)
EXTENDS ColorBuffer, FiniteSetTheorems, TLAPS

\* A nonempty set of naturals has a least element: of the intervals 1..n that end in
\* it, one includes no other.
LEMMA LeastNat ==
  ASSUME NEW S, S \subseteq Nat, S # {}
  PROVE  \E m \in S : \A n \in S : m <= n
<1> DEFINE Below == {1 .. n : n \in S}
<1> DEFINE R == StrictSubsetOrdering(Nat)
<1>1. IsWellFoundedOn(R, FiniteSubsetsOf(Nat))
  BY FS_StrictSubsetOrderingWellFounded
<1>2. Below \subseteq FiniteSubsetsOf(Nat) /\ Below # {}
  <2>1. \A n \in S : IsFiniteSet(1 .. n) /\ 1 .. n \subseteq Nat
    BY FS_Interval
  <2>2. \A n \in S : 1 .. n \in FiniteSubsetsOf(Nat)
    BY <2>1 DEF FiniteSubsetsOf
  <2>. QED  BY <2>2
<1>3. PICK B \in Below : \A C \in Below : ~(<<C, B>> \in R)
  <2> HIDE DEF Below, R
  <2>. QED  BY <1>1, <1>2, WFMin
<1>4. PICK m \in S : B = 1 .. m
  OBVIOUS
<1>5. ASSUME NEW n \in S, n < m PROVE FALSE
  <2>1. <<1 .. n, 1 .. m>> \in R
    <3>1. 1 .. n \subseteq 1 .. m /\ m \in 1 .. m /\ m \notin 1 .. n
      BY <1>5
    <3>. QED  BY <3>1 DEF StrictSubsetOrdering
  <2>. QED  BY <1>3, <1>4, <2>1
<1>. QED  BY <1>5

\* s holds the elements of S below n, each once, ascending.
Ascending(s, S, n) ==
  /\ s \in Seq(Nat)
  /\ \A i \in 1 .. Len(s) : s[i] \in S /\ s[i] < n
  /\ \A x \in S : x < n => \E i \in 1 .. Len(s) : s[i] = x
  /\ \A i, j \in 1 .. Len(s) : i < j => s[i] < s[j]

Visit(s, k, S) == IF k \in S THEN Append(s, k) ELSE s
Visits(f, S, n) == f = [k \in 0 .. n |-> IF k = 0 THEN << >> ELSE Visit(f[k - 1], k - 1, S)]

LEMMA VisitAscending ==
  ASSUME NEW S, S \subseteq Nat, NEW n \in Nat, NEW s, Ascending(s, S, n)
  PROVE  Ascending(Visit(s, n, S), S, n + 1)
<1>1. s \in Seq(Nat) /\ Len(s) \in Nat
  BY DEF Ascending
<1>2. CASE n \in S
  <2> DEFINE t == Append(s, n)
  <2>1. /\ t \in Seq(Nat) /\ Len(t) = Len(s) + 1
        /\ \A i \in 1 .. Len(s) : t[i] = s[i]
        /\ t[Len(s) + 1] = n
    BY <1>1
  <2>2. Visit(s, n, S) = t
    BY <1>2 DEF Visit
  <2> HIDE DEF t
  <2>3. \A i \in 1 .. Len(t) : i \in 1 .. Len(s) \/ i = Len(s) + 1
    BY <1>1, <2>1
  <2>4. \A i \in 1 .. Len(s) : s[i] \in S /\ s[i] < n /\ s[i] \in Nat
    BY <1>1 DEF Ascending
  <2>5. \A i \in 1 .. Len(t) : t[i] \in S /\ t[i] < n + 1
    BY <1>2, <2>1, <2>3, <2>4
  <2>6. ASSUME NEW x \in S, x < n + 1 PROVE \E i \in 1 .. Len(t) : t[i] = x
    <3>1. CASE x = n
      <4>1. Len(s) + 1 \in 1 .. Len(t)
        BY <1>1, <2>1
      <4>. QED  BY <2>1, <3>1, <4>1
    <3>2. CASE x # n
      <4>1. x < n
        BY <2>6, <3>2
      <4>2. PICK i \in 1 .. Len(s) : s[i] = x
        BY <4>1 DEF Ascending
      <4>. QED  BY <1>1, <2>1, <4>2
    <3>. QED  BY <3>1, <3>2
  <2>7. ASSUME NEW i \in 1 .. Len(t), NEW j \in 1 .. Len(t), i < j PROVE t[i] < t[j]
    <3>1. i \in 1 .. Len(s)
      BY <1>1, <2>1, <2>7
    <3>2. CASE j \in 1 .. Len(s)
      BY <2>1, <2>7, <3>1, <3>2 DEF Ascending
    <3>3. CASE j = Len(s) + 1
      BY <2>1, <2>4, <3>1, <3>3
    <3>. QED  BY <2>3, <3>2, <3>3
  <2>. QED  BY <2>1, <2>2, <2>5, <2>6, <2>7 DEF Ascending
<1>3. CASE n \notin S
  <2>1. \A x \in S : x < n + 1 => x < n
    BY <1>3
  <2>2. \A i \in 1 .. Len(s) : s[i] \in Nat /\ s[i] < n => s[i] < n + 1
    OBVIOUS
  <2>3. \A i \in 1 .. Len(s) : s[i] \in Nat
    BY <1>1
  <2>. QED  BY <1>3, <2>1, <2>2, <2>3 DEF Ascending, Visit
<1>. QED  BY <1>2, <1>3

\* The loop can be run to any number of cores.
LEMMA LoopExists ==
  ASSUME NEW S, S \subseteq Nat, NEW n \in Nat
  PROVE  \E f : Visits(f, S, n)
<1> DEFINE Bad == {m \in Nat : ~ \E f : Visits(f, S, m)}
<1> SUFFICES ASSUME Bad # {} PROVE FALSE
  OBVIOUS
<1>1. PICK m \in Bad : \A k \in Bad : m <= k
  <2>1. Bad \subseteq Nat
    OBVIOUS
  <2> HIDE DEF Bad
  <2>. QED  BY <2>1, LeastNat
<1>2. CASE m = 0
  <2> DEFINE g == [k \in 0 .. 0 |-> << >>]
  <2>1. Visits(g, S, 0)
    BY DEF Visits
  <2>. QED  BY <1>2, <2>1
<1>3. CASE m # 0
  <2>1. m - 1 \in Nat /\ m - 1 \notin Bad
    BY <1>1, <1>3
  <2>2. PICK f : Visits(f, S, m - 1)
    BY <2>1
  <2> DEFINE g == [k \in 0 .. m |-> IF k = m THEN Visit(f[m - 1], m - 1, S) ELSE f[k]]
  <2>3. ASSUME NEW k \in 0 .. m PROVE g[k] = IF k = 0 THEN << >> ELSE Visit(g[k - 1], k - 1, S)
    <3>1. CASE k = m
      BY <1>3, <2>1, <3>1
    <3>2. CASE k # m
      <4>1. k \in 0 .. m - 1 /\ (k # 0 => k - 1 \in 0 .. m /\ k - 1 # m)
        BY <2>1, <3>2
      <4>. QED  BY <2>2, <3>2, <4>1 DEF Visits
    <3>. QED  BY <3>1, <3>2
  <2>7. Visits(g, S, m)
    BY <2>3 DEF Visits
  <2>. QED  BY <2>7
<1>. QED  BY <1>2, <1>3

LEMMA LoopAscending ==
  ASSUME NEW S, S \subseteq Nat, NEW n \in Nat, NEW f, Visits(f, S, n)
  PROVE  Ascending(f[n], S, n)
<1> DEFINE Bad == {m \in 0 .. n : ~Ascending(f[m], S, m)}
<1> SUFFICES ASSUME Bad # {} PROVE FALSE
  OBVIOUS
<1>1. PICK m \in Bad : \A k \in Bad : m <= k
  <2>1. Bad \subseteq Nat
    OBVIOUS
  <2> HIDE DEF Bad
  <2>. QED  BY <2>1, LeastNat
<1>2. CASE m = 0
  <2>1. f[0] = << >>
    BY <1>2 DEF Visits
  <2>2. Ascending(<< >>, S, 0)
    <3>1. Len(<< >>) = 0 /\ << >> \in Seq(Nat)
      OBVIOUS
    <3>2. \A x \in S : ~(x < 0)
      OBVIOUS
    <3>. QED  BY <3>1, <3>2 DEF Ascending
  <2>. QED  BY <1>2, <2>1, <2>2
<1>3. CASE m # 0
  <2>1. m - 1 \in 0 .. n /\ m - 1 \in Nat /\ m - 1 \notin Bad /\ (m - 1) + 1 = m
    BY <1>1, <1>3
  <2>2. Ascending(f[m - 1], S, m - 1)
    BY <2>1
  <2>3. f[m] = Visit(f[m - 1], m - 1, S)
    BY <1>3 DEF Visits
  <2>4. Ascending(Visit(f[m - 1], m - 1, S), S, (m - 1) + 1)
    BY <2>1, <2>2, VisitAscending
  <2>. QED  BY <2>1, <2>3, <2>4
<1>. QED  BY <1>2, <1>3

\* The loop puts every core of S into the array, each once, in the order of the ids.
THEOREM InOrderHolds ==
  ASSUME NEW S, S \subseteq Nat, NEW num_ues \in Nat
  PROVE  Ascending(in_order(S, num_ues), S, num_ues)
<1> DEFINE Def(f) == [n \in 0 .. num_ues |-> IF n = 0 THEN << >>
                       ELSE IF n - 1 \in S THEN Append(f[n - 1], n - 1) ELSE f[n - 1]]
<1> DEFINE from == CHOOSE f : f = Def(f)
<1>1. in_order(S, num_ues) = from[num_ues]
  BY DEF in_order
<1>2. PICK g : Visits(g, S, num_ues)
  BY LoopExists
<1>3. g = Def(g)
  BY <1>2 DEF Visits, Visit
<1>4. from = Def(from)
  BY <1>3
<1>5. Visits(from, S, num_ues)
  BY <1>4 DEF Visits, Visit
<1> HIDE DEF from
<1>. QED  BY <1>1, <1>5, LoopAscending

\* A color buffer lists the other cores of its color, each once, in the order of their
\* ids, whatever values the color function has (ssmp_color_buf_init_platf).
THEOREM ColorBufferHolds ==
  ASSUME NEW id, NEW num_ues \in Nat, NEW color \in [0 .. num_ues - 1 -> Nat]
  PROVE  Ascending(ssmp_color_buf_init(id, num_ues, color),
                   {ue \in 0 .. num_ues - 1 : ue # id /\ color[ue] # 0}, num_ues)
<1> DEFINE S == {ue \in 0 .. num_ues - 1 : ue # id /\ color[ue] # 0}
<1>1. S = {ue \in 0 .. num_ues - 1 : participants(id, num_ues, color)[ue] # 0} /\ S \subseteq Nat
  BY DEF participants
<1>. QED  BY <1>1, InOrderHolds DEF ssmp_color_buf_init
=============================================================================
