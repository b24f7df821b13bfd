--------------------------- MODULE ExchangeProofs ---------------------------
(* The routing of requests, for any configurations, requests and reloads; and *)
(* what the stream's conversion is made of, for any chunks: each decoder      *)
(* tells the same kind of story (Told, Tells, Carries), and each encoder      *)
(* keeps its client's stream true to any such story (Sinks).                  *)
EXTENDS Exchange, SequenceTheorems, FiniteSetTheorems, WellFoundedInduction, TLAPS

-----------------------------------------------------------------------------
(* Loops.  A set of numbers takes the place of the predicate of an induction, *)
(* and a function that of the body of a loop.                                 *)

LEMMA SetInduction ==
    ASSUME NEW S \in SUBSET Nat, 0 \in S, \A n \in S : n + 1 \in S
    PROVE  S = Nat
<1> DEFINE R == OpToRel(<, Nat)
           T == Nat \ S
<1>1. SUFFICES ASSUME T # {} PROVE FALSE
  OBVIOUS
<1>2. IsWellFoundedOn(R, Nat)
  BY NatLessThanWellFounded, Zenon
<1>3. \A x, y \in Nat : x < y => <<x, y>> \in R
  BY Zenon DEF OpToRel
<1>4. T \subseteq Nat
  OBVIOUS
<1> HIDE DEF R, T
<1>5. PICK x \in T : \A y \in T : ~(<<y, x>> \in R)
  BY <1>1, <1>2, <1>4, WFMin, Zenon
<1> USE DEF T
<1>6. \A y \in T : ~(y < x)
  BY <1>3, <1>5
<1>7. x \in Nat /\ x # 0 /\ x \notin S
  OBVIOUS
<1>8. x - 1 \in Nat /\ x - 1 < x /\ (x - 1) + 1 = x
  BY <1>7
<1>9. QED
  BY <1>6, <1>7, <1>8

\* What holds before a loop and is kept by its steps.
LEMMA LoopInduction ==
    ASSUME NEW n \in Nat, NEW T, 0 \in T, \A i \in 1..n : i - 1 \in T => i \in T
    PROVE  \A i \in 0..n : i \in T
<1> DEFINE S == {k \in Nat : k <= n => k \in T}
<1>1. 0 \in S /\ S \in SUBSET Nat
  OBVIOUS
<1>2. ASSUME NEW k \in S PROVE k + 1 \in S
  <2>1. k \in Nat /\ (k + 1) - 1 = k /\ (k + 1 <= n => k + 1 \in 1..n /\ k <= n)
    OBVIOUS
  <2>2. QED
    BY <2>1
<1>3. S = Nat
  <2> HIDE DEF S
  <2> QED
    BY <1>1, <1>2, SetInduction
<1>4. QED
  BY <1>3

\* The values that a loop goes through, from `base' by the steps F[1], F[2]...
LEMMA LoopExists ==
    ASSUME NEW V, NEW base \in V, NEW n \in Nat, NEW F \in [1..n -> [V -> V]]
    PROVE  \E f \in [0..n -> V] : f[0] = base /\ \A i \in 1..n : f[i] = F[i][f[i - 1]]
<1> DEFINE Runs(f, k) == f \in [0..k -> V] /\ f[0] = base /\ \A i \in 1..k : f[i] = F[i][f[i - 1]]
           S == {k \in Nat : k <= n => \E f : Runs(f, k)}
<1>1. 0 \in S
  <2>1. Runs([i \in 0..0 |-> base], 0)
    OBVIOUS
  <2>2. QED
    BY <2>1
<1>2. ASSUME NEW k \in S PROVE k + 1 \in S
  <2>1. SUFFICES ASSUME k + 1 <= n PROVE \E f : Runs(f, k + 1)
    <3> k + 1 \in Nat
      OBVIOUS
    <3> HIDE DEF Runs
    <3> QED
      OBVIOUS
  <2>2. PICK f : Runs(f, k)
    <3> k \in Nat /\ k <= n
      BY <2>1
    <3> HIDE DEF Runs
    <3> QED
      OBVIOUS
  <2>3. k + 1 \in 1..n /\ f[k] \in V
    BY <2>1, <2>2
  <2> DEFINE g == [i \in 0..(k + 1) |-> IF i = k + 1 THEN F[k + 1][f[k]] ELSE f[i]]
  <2>4. F[k + 1][f[k]] \in V
    BY <2>3
  <2>5. g \in [0..(k + 1) -> V]
    BY <2>2, <2>4
  <2>6. g[0] = base
    BY <2>2
  <2>7. ASSUME NEW i \in 1..(k + 1) PROVE g[i] = F[i][g[i - 1]]
    <3>1. CASE i = k + 1
      BY <3>1
    <3>2. CASE i # k + 1
      BY <2>2, <3>2
    <3>3. QED
      BY <3>1, <3>2
  <2>8. QED
    BY <2>5, <2>6, <2>7
<1>3. S = Nat
  <2> HIDE DEF S
  <2>1. S \in SUBSET Nat
    BY DEF S
  <2>2. QED
    BY <1>1, <1>2, <2>1, SetInduction
<1>4. QED
  BY <1>3

LEMMA LoopTyped ==
    ASSUME NEW V, NEW n \in Nat, NEW f, f[0] \in V,
           \A i \in 1..n : f[i - 1] \in V => f[i] \in V
    PROVE  \A i \in 0..n : f[i] \in V
<1> DEFINE T == {i \in 0..n : f[i] \in V}
<1>1. 0 \in T
  OBVIOUS
<1>2. \A i \in 1..n : i - 1 \in T => i \in T
  OBVIOUS
<1>3. \A i \in 0..n : i \in T
  <2> HIDE DEF T
  <2> QED
    BY <1>1, <1>2, LoopInduction
<1>4. QED
  BY <1>3

-----------------------------------------------------------------------------
(* Sequences, by the elements they have and the pairs of elements in the      *)
(* order of which they come.                                                  *)

Along(s, R) == \A i, j \in 1..Len(s) : i < j => <<s[i], s[j]>> \in R

Upto(s, k) == {s[i] : i \in 1..k}

LEMMA NoElements == ToSet(<<>>) = {} /\ \A R : Along(<<>>, R)
BY DEF ToSet, Along

LEMMA Elements ==
    ASSUME NEW A, NEW s \in Seq(A)
    PROVE  /\ \A x : x \in ToSet(s) <=> \E i \in 1..Len(s) : s[i] = x
           /\ ToSet(s) \subseteq A
           /\ s = <<>> <=> ToSet(s) = {}
BY DEF ToSet

LEMMA FirstElement ==
    ASSUME NEW A, NEW s \in Seq(A), s # <<>>
    PROVE  s[1] \in ToSet(s) /\ s[1] \in A
BY DEF ToSet

LEMMA FunctionIsSeq ==
    ASSUME NEW A, NEW n \in Nat, NEW s \in [1..n -> A]
    PROVE  s \in Seq(A) /\ Len(s) = n
OBVIOUS

LEMMA Appended ==
    ASSUME NEW A, NEW s \in Seq(A), NEW e \in A
    PROVE  /\ Append(s, e) \in Seq(A)
           /\ ToSet(Append(s, e)) = ToSet(s) \cup {e}
           /\ \A R : Along(s, R) /\ (\A x \in ToSet(s) : <<x, e>> \in R) => Along(Append(s, e), R)
<1>1. PICK n \in Nat : n = Len(s)
  OBVIOUS
<1>2. PICK t \in Seq(A) : t = Append(s, e)
  BY AppendProperties
<1>3. Len(t) = n + 1 /\ t[n + 1] = e /\ \A i \in 1..n : t[i] = s[i]
  BY <1>1, <1>2
<1>4. /\ \A x : x \in ToSet(s) <=> \E i \in 1..n : s[i] = x
      /\ \A x : x \in ToSet(t) <=> \E i \in 1..(n + 1) : t[i] = x
  BY <1>1, <1>3, Elements
<1>5. \A i \in 1..(n + 1) : i = n + 1 \/ i \in 1..n
  OBVIOUS
<1>6. ToSet(t) = ToSet(s) \cup {e}
  <2>1. n + 1 \in 1..(n + 1) /\ \A i \in 1..n : i \in 1..(n + 1)
    OBVIOUS
  <2>2. QED
    BY <1>3, <1>4, <1>5, <2>1
<1>7. ASSUME NEW R, Along(s, R), \A x \in ToSet(s) : <<x, e>> \in R
      PROVE  Along(t, R)
  <2>1. \A i, j \in 1..n : i < j => <<s[i], s[j]>> \in R
    BY <1>1, <1>7 DEF Along
  <2>2. \A i \in 1..n : <<s[i], e>> \in R
    BY <1>4, <1>7
  <2>3. ASSUME NEW i \in 1..(n + 1), NEW j \in 1..(n + 1), i < j
        PROVE  <<t[i], t[j]>> \in R
    <3>1. i \in 1..n /\ t[i] = s[i]
      BY <1>3, <2>3
    <3>2. CASE j = n + 1
      BY <1>3, <2>2, <3>1, <3>2
    <3>3. CASE j \in 1..n
      BY <1>3, <2>1, <2>3, <3>1, <3>3
    <3>4. QED
      BY <1>5, <3>2, <3>3
  <2>4. QED
    BY <1>3, <2>3 DEF Along
<1>8. QED
  BY <1>2, <1>6, <1>7

LEMMA Joined ==
    ASSUME NEW A, NEW s \in Seq(A), NEW u \in Seq(A)
    PROVE  /\ s \o u \in Seq(A)
           /\ ToSet(s \o u) = ToSet(s) \cup ToSet(u)
           /\ \A R : Along(s, R) /\ Along(u, R) /\ (\A x \in ToSet(s), y \in ToSet(u) : <<x, y>> \in R)
                     => Along(s \o u, R)
<1>1. PICK n \in Nat, m \in Nat : n = Len(s) /\ m = Len(u)
  OBVIOUS
<1>2. PICK t \in Seq(A) : t = s \o u
  BY ConcatProperties
<1>3. Len(t) = n + m /\ (\A i \in 1..n : t[i] = s[i]) /\ (\A i \in 1..m : t[n + i] = u[i])
  BY <1>1, <1>2
<1>4. /\ \A x : x \in ToSet(s) <=> \E i \in 1..n : s[i] = x
      /\ \A x : x \in ToSet(u) <=> \E i \in 1..m : u[i] = x
      /\ \A x : x \in ToSet(t) <=> \E i \in 1..(n + m) : t[i] = x
  BY <1>1, <1>3, Elements
<1>5. \A i \in 1..(n + m) : i \in 1..n \/ \E j \in 1..m : i = n + j
  <2>1. ASSUME NEW i \in 1..(n + m), i \notin 1..n
        PROVE  i - n \in 1..m /\ i = n + (i - n)
    BY <2>1
  <2>2. QED
    BY <2>1
<1>6. ToSet(t) = ToSet(s) \cup ToSet(u)
  <2>1. (\A i \in 1..n : i \in 1..(n + m)) /\ (\A i \in 1..m : n + i \in 1..(n + m))
    OBVIOUS
  <2>2. ASSUME NEW x \in ToSet(t) PROVE x \in ToSet(s) \cup ToSet(u)
    <3>1. PICK i \in 1..(n + m) : t[i] = x
      BY <1>4, <2>2
    <3>2. CASE i \in 1..n
      BY <1>3, <1>4, <3>1, <3>2
    <3>3. ASSUME NEW j \in 1..m, i = n + j PROVE x \in ToSet(u)
      BY <1>3, <1>4, <3>1, <3>3
    <3>4. QED
      BY <1>5, <3>2, <3>3
  <2>3. ASSUME NEW x \in ToSet(s) PROVE x \in ToSet(t)
    BY <1>3, <1>4, <2>1
  <2>4. ASSUME NEW x \in ToSet(u) PROVE x \in ToSet(t)
    BY <1>3, <1>4, <2>1
  <2>5. QED
    BY <2>2, <2>3, <2>4
<1>7. ASSUME NEW R, Along(s, R), Along(u, R), \A x \in ToSet(s), y \in ToSet(u) : <<x, y>> \in R
      PROVE  Along(t, R)
  <2>1. /\ \A i, j \in 1..n : i < j => <<s[i], s[j]>> \in R
        /\ \A i, j \in 1..m : i < j => <<u[i], u[j]>> \in R
    BY <1>1, <1>7 DEF Along
  <2>2. \A i \in 1..n, j \in 1..m : <<s[i], u[j]>> \in R
    BY <1>4, <1>7
  <2>3. ASSUME NEW i \in 1..(n + m), NEW j \in 1..(n + m), i < j
        PROVE  <<t[i], t[j]>> \in R
    <3>1. CASE j \in 1..n
      <4>1. i \in 1..n
        BY <2>3, <3>1
      <4>2. QED
        BY <1>3, <2>1, <2>3, <3>1, <4>1
    <3>2. ASSUME NEW l \in 1..m, j = n + l
          PROVE  <<t[i], t[j]>> \in R
      <4>1. CASE i \in 1..n
        BY <1>3, <2>2, <3>2, <4>1
      <4>2. ASSUME NEW k \in 1..m, i = n + k
            PROVE  <<t[i], t[j]>> \in R
        <5>1. k < l
          BY <2>3, <3>2, <4>2
        <5>2. QED
          BY <1>3, <2>1, <3>2, <4>2, <5>1
      <4>3. QED
        BY <1>5, <4>1, <4>2
    <3>3. QED
      BY <1>5, <3>1, <3>2
  <2>4. QED
    BY <1>3, <2>3 DEF Along
<1>8. QED
  BY <1>2, <1>6, <1>7

\* The loop of Keep.
KeepRun(f, A, s, kept) ==
    /\ f \in [0..Len(s) -> Seq(A)]
    /\ f[0] = <<>>
    /\ \A i \in 1..Len(s) :
          f[i] = IF s[i] \in kept THEN Append(f[i - 1], s[i]) ELSE f[i - 1]
    /\ Keep(s, kept) = f[Len(s)]

LEMMA KeepLoop ==
    ASSUME NEW A, NEW s \in Seq(A), NEW kept
    PROVE  \E f : KeepRun(f, A, s, kept)
<1>1. PICK n \in Nat : n = Len(s)
  OBVIOUS
<1>2. PICK V : V = Seq(A)
  OBVIOUS
<1> DEFINE Step(v, i) == IF s[i] \in kept THEN Append(v, s[i]) ELSE v
           Runs(f) == f = [i \in 0..n |-> IF i = 0 THEN <<>> ELSE Step(f[i - 1], i)]
           F == [i \in 1..n |-> [v \in V |-> Step(v, i)]]
           f == CHOOSE f : Runs(f)
<1>3. Keep(s, kept) = f[n]
  BY <1>1, Zenon DEF Keep
<1>4. <<>> \in V /\ \A i \in 1..n, v \in V : Step(v, i) \in V
  BY <1>1, <1>2
<1> HIDE DEF Step
<1>5. F \in [1..n -> [V -> V]] /\ \A i \in 1..n, v \in V : F[i][v] = Step(v, i)
  BY <1>4
<1>6. \E g \in [0..n -> V] : g[0] = <<>> /\ \A i \in 1..n : g[i] = F[i][g[i - 1]]
  <2>1. PICK base \in V : base = <<>>
    BY <1>4
  <2>2. F \in [1..n -> [V -> V]]
    BY <1>5
  <2>3. n \in Nat
    OBVIOUS
  <2> HIDE DEF F
  <2>4. \E g \in [0..n -> V] : g[0] = base /\ \A i \in 1..n : g[i] = F[i][g[i - 1]]
    BY <2>2, <2>3, LoopExists, SMTT(60)
  <2>5. QED
    BY <2>1, <2>4
<1> HIDE DEF F
<1>7. \E g : Runs(g)
  <2>1. PICK g \in [0..n -> V] : g[0] = <<>> /\ \A i \in 1..n : g[i] = F[i][g[i - 1]]
    BY <1>6
  <2>2. \A i \in 1..n : i - 1 \in 0..n
    OBVIOUS
  <2>3. \A i \in 1..n : g[i] = Step(g[i - 1], i)
    BY <1>5, <2>1, <2>2
  <2>4. \A i \in 0..n : i # 0 => i \in 1..n
    OBVIOUS
  <2>5. Runs(g)
    BY <2>1, <2>3, <2>4
  <2>6. QED
    BY <2>5
<1>8. Runs(f)
  <2> HIDE DEF Runs
  <2> QED
    BY <1>7, Zenon
<1> HIDE DEF f
<1>9. f[0] = <<>> /\ \A i \in 1..n : f[i] = Step(f[i - 1], i)
  BY <1>8
<1>10. \A i \in 0..n : f[i] \in V
  <2>1. f[0] \in V
    BY <1>4, <1>9
  <2>2. \A i \in 1..n : f[i - 1] \in V => f[i] \in V
    BY <1>4, <1>9
  <2>3. QED
    BY <2>1, <2>2, LoopTyped
<1>11. f \in [0..n -> V]
  BY <1>8, <1>10
<1>12. QED
  BY <1>1, <1>2, <1>3, <1>9, <1>11 DEF Step, KeepRun

LEMMA UptoStep ==
    ASSUME NEW A, NEW s \in Seq(A)
    PROVE  /\ \A i \in 1..Len(s) : s[i] \in A /\ i - 1 \in 0..Len(s)
           /\ \A i \in 1..Len(s) : Upto(s, i) = Upto(s, i - 1) \cup {s[i]}
           /\ Upto(s, 0) = {} /\ Upto(s, Len(s)) = ToSet(s)
<1>1. PICK n \in Nat : n = Len(s)
  OBVIOUS
<1>2. ASSUME NEW i \in 1..n PROVE Upto(s, i) = Upto(s, i - 1) \cup {s[i]}
  <2>1. \A j \in 1..i : j = i \/ j \in 1..(i - 1)
    OBVIOUS
  <2>2. i \in 1..i /\ \A j \in 1..(i - 1) : j \in 1..i
    OBVIOUS
  <2>3. QED
    BY <2>1, <2>2 DEF Upto
<1>3. Upto(s, 0) = {}
  BY DEF Upto
<1>4. Upto(s, Len(s)) = ToSet(s)
  BY DEF Upto, ToSet
<1>5. \A i \in 1..n : s[i] \in A /\ i - 1 \in 0..n
  BY <1>1
<1>6. QED
  BY <1>1, <1>2, <1>3, <1>4, <1>5

\* What is kept are the elements in `kept', in the order in which they come.
LEMMA Kept ==
    ASSUME NEW A, NEW s \in Seq(A), NEW kept
    PROVE  /\ Keep(s, kept) \in Seq(A)
           /\ ToSet(Keep(s, kept)) = ToSet(s) \cap kept
           /\ \A R : Along(s, R) => Along(Keep(s, kept), R)
<1>1. PICK n \in Nat : n = Len(s)
  OBVIOUS
<1>2. PICK f : KeepRun(f, A, s, kept)
  BY KeepLoop
<1>3. /\ f \in [0..n -> Seq(A)]
      /\ f[0] = <<>>
      /\ \A i \in 1..n : f[i] = IF s[i] \in kept THEN Append(f[i - 1], s[i]) ELSE f[i - 1]
      /\ Keep(s, kept) = f[n]
  BY <1>1, <1>2 DEF KeepRun
<1>4. /\ \A i \in 1..n : s[i] \in A /\ i - 1 \in 0..n /\ f[i - 1] \in Seq(A)
      /\ \A i \in 1..n : Upto(s, i) = Upto(s, i - 1) \cup {s[i]}
      /\ Upto(s, 0) = {} /\ Upto(s, n) = ToSet(s)
      /\ ToSet(<<>>) = {}
  BY <1>1, <1>3, UptoStep, NoElements
<1> DEFINE T == {i \in 0..n : /\ ToSet(f[i]) = Upto(s, i) \cap kept
                              /\ \A R : Along(s, R) => Along(f[i], R)}
<1>5. 0 \in T
  BY <1>3, <1>4 DEF Along
<1>6. ASSUME NEW i \in 1..n, i - 1 \in T PROVE i \in T
  <2>1. CASE s[i] \in kept
    <3>1. /\ ToSet(f[i]) = ToSet(f[i - 1]) \cup {s[i]}
          /\ \A R : Along(f[i - 1], R) /\ (\A x \in ToSet(f[i - 1]) : <<x, s[i]>> \in R)
                       => Along(f[i], R)
      <4>1. PICK v \in Seq(A), e \in A : v = f[i - 1] /\ e = s[i]
        BY <1>4
      <4>2. f[i] = Append(v, e)
        BY <1>3, <2>1, <4>1
      <4>3. QED
        BY <4>1, <4>2, Appended
    <3>2. ASSUME NEW R, Along(s, R), NEW x \in ToSet(f[i - 1]) PROVE <<x, s[i]>> \in R
      BY <1>1, <1>6, <3>2 DEF Along, Upto
    <3>3. QED
      BY <1>4, <1>6, <2>1, <3>1, <3>2
  <2>2. CASE s[i] \notin kept
    BY <1>3, <1>4, <1>6, <2>2, SMTT(60)
  <2>3. QED
    BY <2>1, <2>2
<1>7. \A i \in 0..n : i \in T
  <2> HIDE DEF T
  <2> QED
    BY <1>5, <1>6, LoopInduction
<1>8. QED
  BY <1>3, <1>4, <1>7

\* Two elements that are kept make two.
LEMMA KeptTwo ==
    ASSUME NEW A, NEW s \in Seq(A), NEW kept, NEW p \in 1..Len(s), NEW q \in 1..Len(s), p < q,
           s[p] \in kept, s[q] \in kept
    PROVE  Len(Keep(s, kept)) >= 2
<1>1. PICK n \in Nat : n = Len(s)
  OBVIOUS
<1>2. PICK f : KeepRun(f, A, s, kept)
  BY KeepLoop
<1>3. /\ \A i \in 1..n : f[i] = IF s[i] \in kept THEN Append(f[i - 1], s[i]) ELSE f[i - 1]
      /\ Keep(s, kept) = f[n]
  BY <1>1, <1>2 DEF KeepRun
<1>4. \A i \in 0..n : f[i] \in Seq(A)
  <2>1. PICK V : V = Seq(A)
    OBVIOUS
  <2>2. QED
    BY <1>1, <1>2, <2>1 DEF KeepRun
<1> DEFINE T == {k \in 0..n : (k >= p => Len(f[k]) >= 1) /\ (k >= q => Len(f[k]) >= 2)}
<1>5. 0 \in T
  OBVIOUS
<1>6. ASSUME NEW k \in 1..n, k - 1 \in T PROVE k \in T
  <2>1. PICK v \in Seq(A), e \in A : v = f[k - 1] /\ e = s[k]
    BY <1>1, <1>4
  <2>2. Len(v) \in Nat /\ (k - 1 >= p => Len(v) >= 1) /\ (k - 1 >= q => Len(v) >= 2)
    BY <1>6, <2>1
  <2>3. f[k] = IF e \in kept THEN Append(v, e) ELSE v
    BY <1>3, <2>1
  <2>4. Len(f[k]) = IF e \in kept THEN Len(v) + 1 ELSE Len(v)
    BY <2>3, AppendProperties
  <2>5. (k = p => e \in kept) /\ (k = q => e \in kept)
    BY <2>1
  <2>6. (k >= p => Len(f[k]) >= 1) /\ (k >= q => Len(f[k]) >= 2)
    BY <1>1, <2>2, <2>4, <2>5
  <2>7. QED
    BY <2>6
<1>7. \A i \in 0..n : i \in T
  <2> HIDE DEF T
  <2> QED
    BY <1>5, <1>6, LoopInduction
<1>8. n \in T
  <2> HIDE DEF T
  <2> QED
    BY <1>7
<1>9. QED
  BY <1>1, <1>3, <1>8

\* Two elements of a sequence, at places in this order.
Precedes(s, x, y) == \E p, q \in 1..Len(s) : p < q /\ s[p] = x /\ s[q] = y

LEMMA JoinedPrecedes ==
    ASSUME NEW A, NEW s \in Seq(A), NEW u \in Seq(A), NEW x, NEW y
    PROVE  /\ Precedes(s, x, y) => Precedes(s \o u, x, y)
           /\ x \in ToSet(s) /\ y \in ToSet(u) => Precedes(s \o u, x, y)
<1>1. PICK n \in Nat, m \in Nat : n = Len(s) /\ m = Len(u)
  OBVIOUS
<1>2. PICK t \in Seq(A) : t = s \o u
  BY ConcatProperties
<1>3. Len(t) = n + m /\ (\A i \in 1..n : t[i] = s[i]) /\ (\A i \in 1..m : t[n + i] = u[i])
  BY <1>1, <1>2
<1>4. (\A i \in 1..n : i \in 1..(n + m)) /\ (\A i \in 1..m : n + i \in 1..(n + m))
  OBVIOUS
<1>5. ASSUME Precedes(s, x, y) PROVE Precedes(t, x, y)
  <2>1. PICK p, q \in 1..n : p < q /\ s[p] = x /\ s[q] = y
    BY <1>1, <1>5 DEF Precedes
  <2>2. QED
    BY <1>3, <1>4, <2>1 DEF Precedes
<1>6. ASSUME x \in ToSet(s), y \in ToSet(u) PROVE Precedes(t, x, y)
  <2>1. PICK p \in 1..n, q \in 1..m : s[p] = x /\ u[q] = y
    BY <1>1, <1>6, Elements
  <2>2. p \in 1..(n + m) /\ n + q \in 1..(n + m) /\ p < n + q
    BY <2>1
  <2>3. t[p] = x /\ t[n + q] = y
    BY <1>3, <2>1
  <2>4. QED
    BY <1>3, <2>2, <2>3 DEF Precedes
<1>7. QED
  BY <1>2, <1>5, <1>6

-----------------------------------------------------------------------------
(* Flattening.                                                                *)

FlattenRun(f, A, ss) ==
    /\ f \in [0..Len(ss) -> Seq(A)]
    /\ f[0] = <<>>
    /\ \A i \in 1..Len(ss) : f[i] = f[i - 1] \o ss[i]
    /\ FlattenSeq(ss) = f[Len(ss)]

LEMMA FlattenLoop ==
    ASSUME NEW A, NEW ss \in Seq(Seq(A))
    PROVE  \E f : FlattenRun(f, A, ss)
<1>1. PICK n \in Nat : n = Len(ss)
  OBVIOUS
<1>2. PICK V : V = Seq(A)
  OBVIOUS
<1>3. CASE n = 0
  <2>1. FlattenSeq(ss) = <<>> /\ <<>> \in V
    <3>1. FlattenSeq(ss) = ss
      BY <1>1, <1>3, Zenon DEF FlattenSeq
    <3>2. ss = <<>>
      <4>1. PICK W : W = Seq(A)
        OBVIOUS
      <4>2. ss \in Seq(W)
        BY <4>1
      <4>3. QED
        BY <1>1, <1>3, <4>2, EmptySeq
    <3>3. QED
      BY <1>2, <3>1, <3>2
  <2>2. FlattenRun([i \in 0..0 |-> <<>>], A, ss)
    BY <1>1, <1>2, <1>3, <2>1 DEF FlattenRun
  <2>3. QED
    BY <2>2
<1>4. CASE n # 0
  <2> DEFINE Step(v, i) == v \o ss[i]
             Runs(f) == f = [i \in 1..n |-> IF i = 1 THEN ss[i] ELSE Step(f[i - 1], i)]
             F == [i \in 1..n |-> [v \in V |-> Step(v, i)]]
             f == CHOOSE f : Runs(f)
  <2>1. FlattenSeq(ss) = f[n]
    BY <1>1, <1>4, Zenon DEF FlattenSeq
  <2>2. /\ <<>> \in V
        /\ \A i \in 1..n : ss[i] \in V /\ Step(<<>>, i) = ss[i]
        /\ \A i \in 1..n, v \in V : Step(v, i) \in V
    BY <1>1, <1>2
  <2> HIDE DEF Step
  <2>3. F \in [1..n -> [V -> V]] /\ \A i \in 1..n, v \in V : F[i][v] = Step(v, i)
    BY <2>2
  <2>4. \E g \in [0..n -> V] : g[0] = <<>> /\ \A i \in 1..n : g[i] = F[i][g[i - 1]]
    <3>1. PICK base \in V : base = <<>>
      BY <2>2
    <3>2. F \in [1..n -> [V -> V]] /\ n \in Nat
      BY <2>3
    <3> HIDE DEF F
    <3>3. \E g \in [0..n -> V] : g[0] = base /\ \A i \in 1..n : g[i] = F[i][g[i - 1]]
      BY <3>2, LoopExists, SMTT(60)
    <3>4. QED
      BY <3>1, <3>3
  <2> HIDE DEF F
  <2>5. \E g : Runs(g)
    <3>1. PICK g \in [0..n -> V] : g[0] = <<>> /\ \A i \in 1..n : g[i] = F[i][g[i - 1]]
      BY <2>4
    <3>2. \A i \in 1..n : i - 1 \in 0..n /\ (i # 1 => i - 1 \in 1..n)
      OBVIOUS
    <3>3. \A i \in 1..n : g[i] = Step(g[i - 1], i)
      BY <2>3, <3>1, <3>2
    <3> DEFINE h == [i \in 1..n |-> g[i]]
    <3>4. \A i \in 1..n : h[i] = IF i = 1 THEN ss[i] ELSE Step(h[i - 1], i)
      BY <2>2, <3>1, <3>2, <3>3
    <3>5. Runs(h)
      BY <3>4
    <3>6. QED
      BY <3>5
  <2>6. Runs(f)
    <3> HIDE DEF Runs
    <3> QED
      BY <2>5, Zenon
  <2> HIDE DEF f
  <2> DEFINE g == [i \in 0..n |-> IF i = 0 THEN <<>> ELSE f[i]]
  <2>7. g[0] = <<>> /\ g[n] = f[n] /\ \A i \in 1..n : g[i] = Step(g[i - 1], i)
    <3>1. \A i \in 1..n : f[i] = IF i = 1 THEN ss[i] ELSE Step(f[i - 1], i)
      BY <2>6
    <3>2. g[0] = <<>> /\ \A i \in 1..n : g[i] = f[i]
      OBVIOUS
    <3>3. n \in 1..n /\ \A i \in 1..n : i = 1 \/ i - 1 \in 1..n
      BY <1>4
    <3> HIDE DEF g
    <3>4. ASSUME NEW i \in 1..n PROVE g[i] = Step(g[i - 1], i)
      <4>1. CASE i = 1
        BY <2>2, <3>1, <3>2, <4>1
      <4>2. CASE i # 1
        BY <3>1, <3>2, <3>3, <4>2
      <4>3. QED
        BY <4>1, <4>2
    <3>5. QED
      BY <3>2, <3>3, <3>4
  <2>8. \A i \in 0..n : g[i] \in V
    <3>1. g[0] \in V
      BY <2>2, <2>7
    <3>2. \A i \in 1..n : g[i - 1] \in V => g[i] \in V
      BY <2>2, <2>7
    <3> HIDE DEF g
    <3>3. QED
      BY <3>1, <3>2, LoopTyped
  <2>9. g \in [0..n -> V]
    BY <2>8
  <2> HIDE DEF g
  <2>10. FlattenRun(g, A, ss)
    BY <1>1, <1>2, <2>1, <2>7, <2>9 DEF Step, FlattenRun
  <2>11. QED
    BY <2>10
<1>5. QED
  BY <1>3, <1>4

LEMMA Flattened ==
    ASSUME NEW A, NEW ss \in Seq(Seq(A))
    PROVE  /\ FlattenSeq(ss) \in Seq(A)
           /\ \A x : x \in ToSet(FlattenSeq(ss)) <=> \E i \in 1..Len(ss) : x \in ToSet(ss[i])
           /\ \A R : /\ \A i \in 1..Len(ss) : Along(ss[i], R)
                     /\ \A i, j \in 1..Len(ss) : i < j =>
                           \A x \in ToSet(ss[i]), y \in ToSet(ss[j]) : <<x, y>> \in R
                     => Along(FlattenSeq(ss), R)
           /\ \A i, j \in 1..Len(ss) : i < j =>
                 \A x \in ToSet(ss[i]), y \in ToSet(ss[j]) : Precedes(FlattenSeq(ss), x, y)
<1>1. PICK n \in Nat : n = Len(ss)
  OBVIOUS
<1>2. PICK f : FlattenRun(f, A, ss)
  BY FlattenLoop
<1>3. /\ f \in [0..n -> Seq(A)]
      /\ f[0] = <<>>
      /\ \A i \in 1..n : f[i] = f[i - 1] \o ss[i]
      /\ FlattenSeq(ss) = f[n]
  BY <1>1, <1>2 DEF FlattenRun
<1>4. \A i \in 1..n : ss[i] \in Seq(A) /\ i - 1 \in 0..n /\ f[i - 1] \in Seq(A)
  <2>1. \A i \in 1..n : ss[i] \in Seq(A)
    BY <1>1, ElementOfSeq
  <2>2. PICK V : V = Seq(A)
    OBVIOUS
  <2>3. \A i \in 1..n : i - 1 \in 0..n /\ f[i - 1] \in V
    BY <1>3, <2>2
  <2>4. QED
    BY <2>1, <2>2, <2>3
<1>5. ASSUME NEW i \in 1..n
      PROVE  /\ ToSet(f[i]) = ToSet(f[i - 1]) \cup ToSet(ss[i])
             /\ \A R : /\ Along(f[i - 1], R) /\ Along(ss[i], R)
                       /\ \A x \in ToSet(f[i - 1]), y \in ToSet(ss[i]) : <<x, y>> \in R
                       => Along(f[i], R)
             /\ \A x, y : Precedes(f[i - 1], x, y) => Precedes(f[i], x, y)
             /\ \A x \in ToSet(f[i - 1]), y \in ToSet(ss[i]) : Precedes(f[i], x, y)
  <2>1. PICK v \in Seq(A), u \in Seq(A) : v = f[i - 1] /\ u = ss[i]
    BY <1>4
  <2>2. f[i] = v \o u
    BY <1>3, <2>1
  <2>3. QED
    BY <2>1, <2>2, Joined, JoinedPrecedes
<1> DEFINE T == {k \in 0..n :
                    /\ \A x : x \in ToSet(f[k]) <=> \E i \in 1..k : x \in ToSet(ss[i])
                    /\ \A R : /\ \A i \in 1..n : Along(ss[i], R)
                              /\ \A i, j \in 1..n : i < j =>
                                    \A x \in ToSet(ss[i]), y \in ToSet(ss[j]) : <<x, y>> \in R
                              => Along(f[k], R)
                    /\ \A i, j \in 1..k : i < j =>
                          \A x \in ToSet(ss[i]), y \in ToSet(ss[j]) : Precedes(f[k], x, y)}
<1>6. 0 \in T
  BY <1>3, NoElements
<1>7. ASSUME NEW k \in 1..n, k - 1 \in T PROVE k \in T
  <2>1. /\ k \in 0..n /\ k \in 1..k
        /\ \A i \in 1..k : i = k \/ i \in 1..(k - 1)
        /\ \A i \in 1..(k - 1) : i \in 1..k /\ i \in 1..n /\ i < k
    OBVIOUS
  <2>2. ASSUME NEW x PROVE x \in ToSet(f[k]) <=> \E i \in 1..k : x \in ToSet(ss[i])
    <3>1. x \in ToSet(f[k - 1]) <=> \E i \in 1..(k - 1) : x \in ToSet(ss[i])
      BY <1>7
    <3>2. x \in ToSet(f[k]) <=> x \in ToSet(f[k - 1]) \/ x \in ToSet(ss[k])
      BY <1>5
    <3>3. QED
      BY <2>1, <3>1, <3>2
  <2>3. ASSUME NEW R, \A i \in 1..n : Along(ss[i], R),
               \A i, j \in 1..n : i < j => \A x \in ToSet(ss[i]), y \in ToSet(ss[j]) : <<x, y>> \in R
        PROVE  Along(f[k], R)
    <3>1. Along(f[k - 1], R)
      BY <1>7, <2>3
    <3>2. \A x \in ToSet(f[k - 1]) : \E i \in 1..(k - 1) : x \in ToSet(ss[i])
      BY <1>7
    <3>3. \A x \in ToSet(f[k - 1]), y \in ToSet(ss[k]) : <<x, y>> \in R
      BY <2>1, <2>3, <3>2
    <3>4. QED
      BY <1>5, <2>3, <3>1, <3>3
  <2>4. ASSUME NEW i \in 1..k, NEW j \in 1..k, i < j, NEW x \in ToSet(ss[i]), NEW y \in ToSet(ss[j])
        PROVE  Precedes(f[k], x, y)
    <3>1. i \in 1..(k - 1)
      BY <2>4
    <3>2. CASE j = k
      <4>1. x \in ToSet(f[k - 1])
        BY <1>7, <2>4, <3>1
      <4>2. QED
        BY <1>5, <2>4, <3>2, <4>1
    <3>3. CASE j \in 1..(k - 1)
      <4>1. Precedes(f[k - 1], x, y)
        BY <1>7, <2>4, <3>1, <3>3
      <4>2. QED
        BY <1>5, <4>1
    <3>4. QED
      BY <2>1, <3>2, <3>3
  <2>5. QED
    BY <2>1, <2>2, <2>3, <2>4
<1>8. \A k \in 0..n : k \in T
  <2> HIDE DEF T
  <2> QED
    BY <1>6, <1>7, LoopInduction
<1>9. QED
  <2>1. n \in 0..n
    OBVIOUS
  <2>2. f[n] \in Seq(A)
    BY <1>3, <2>1
  <2>3. n \in T
    <3> HIDE DEF T
    <3> QED
      BY <1>8, <2>1
  <2>4. QED
    BY <1>1, <1>3, <2>2, <2>3, ZenonT(60)

-----------------------------------------------------------------------------
(* Sorting by insertion.                                                      *)

Priority(e) == e.backend.priority
IsEntries(A) == \A e \in A : Priority(e) \in Int

\* Before in the order of priority, and then by R.
Ranks(A, R) == {x \in A \X A : Priority(x[1]) < Priority(x[2])
                             \/ (Priority(x[1]) = Priority(x[2]) /\ x \in R)}

LEMMA RanksDef ==
    ASSUME NEW A, NEW R, NEW x \in A, NEW y \in A
    PROVE  <<x, y>> \in Ranks(A, R)
              <=> (Priority(x) < Priority(y) \/ (Priority(x) = Priority(y) /\ <<x, y>> \in R))
BY DEF Ranks

LEMMA InsertedRanks ==
    ASSUME NEW A, IsEntries(A), NEW R, NEW s \in Seq(A), NEW e \in A
    PROVE  /\ Inserted(s, e) \in Seq(A)
           /\ ToSet(Inserted(s, e)) = ToSet(s) \cup {e}
           /\ /\ Along(s, Ranks(A, R))
              /\ \A x \in ToSet(s) : <<x, e>> \in R
              => Along(Inserted(s, e), Ranks(A, R))
<1>1. PICK before : before = {d \in ToSet(s) : d.backend.priority <= e.backend.priority}
  OBVIOUS
<1>2. PICK front \in Seq(A) : front = Keep(s, before)
  BY Kept
<1>3. PICK back \in Seq(A) : back = Without(s, before)
  BY Kept DEF Without
<1>4. PICK one \in Seq(A) : one = <<e>>
  <2>1. <<e>> = Append(<<>>, e) /\ <<>> \in Seq(A)
    OBVIOUS
  <2>2. QED
    BY <2>1, AppendProperties
<1>5. PICK half \in Seq(A) : half = front \o one
  BY Joined
<1>6. Inserted(s, e) = half \o back
  BY <1>1, <1>2, <1>3, <1>4, <1>5 DEF Inserted
<1>7. /\ ToSet(front) = ToSet(s) \cap before
      /\ ToSet(back) = ToSet(s) \ before
      /\ \A Q : Along(s, Q) => Along(front, Q) /\ Along(back, Q)
  BY <1>2, <1>3, Kept DEF Without
<1>8. ToSet(one) = {e} /\ \A Q : Along(one, Q)
  BY <1>4 DEF ToSet, Along
<1>9. /\ ToSet(half) = ToSet(front) \cup {e}
      /\ \A Q : Along(front, Q) /\ (\A x \in ToSet(front) : <<x, e>> \in Q) => Along(half, Q)
  BY <1>5, <1>8, Joined
<1>10. /\ half \o back \in Seq(A)
       /\ ToSet(half \o back) = ToSet(half) \cup ToSet(back)
       /\ \A Q : /\ Along(half, Q) /\ Along(back, Q)
                 /\ \A x \in ToSet(half), y \in ToSet(back) : <<x, y>> \in Q
                 => Along(half \o back, Q)
  BY Joined
<1>11. /\ ToSet(s) \subseteq A
       /\ \A x \in ToSet(front) : x \in ToSet(s) /\ Priority(x) <= Priority(e)
       /\ \A x \in ToSet(back) : x \in ToSet(s) /\ ~(Priority(x) <= Priority(e))
       /\ \A x \in A : Priority(x) \in Int
  BY <1>1, <1>7, Elements DEF Priority, IsEntries
<1>12. ASSUME Along(s, Ranks(A, R)), \A x \in ToSet(s) : <<x, e>> \in R
       PROVE  Along(half \o back, Ranks(A, R))
  <2>1. \A x \in ToSet(front) : <<x, e>> \in Ranks(A, R)
    BY <1>11, <1>12, RanksDef
  <2>2. ASSUME NEW x \in ToSet(front), NEW y \in ToSet(back) PROVE <<x, y>> \in Ranks(A, R)
    <3>1. x \in A /\ y \in A /\ Priority(x) \in Int /\ Priority(y) \in Int /\ Priority(e) \in Int
      BY <1>11
    <3>2. Priority(x) <= Priority(e) /\ ~(Priority(y) <= Priority(e))
      BY <1>11
    <3>3. Priority(x) < Priority(y)
      BY <3>1, <3>2
    <3>4. QED
      BY <3>1, <3>3, RanksDef
  <2>3. \A y \in ToSet(back) : <<e, y>> \in Ranks(A, R)
    BY <1>11, RanksDef
  <2>4. \A x \in ToSet(half), y \in ToSet(back) : <<x, y>> \in Ranks(A, R)
    BY <1>9, <2>2, <2>3
  <2>5. QED
    BY <1>7, <1>9, <1>10, <1>12, <2>1, <2>4
<1>13. QED
  <2>1. ToSet(half \o back) = ToSet(s) \cup {e}
    BY <1>7, <1>9, <1>10
  <2>2. QED
    BY <1>6, <1>10, <1>12, <2>1

SortRun(f, A, s) ==
    /\ f \in [0..Len(s) -> Seq(A)]
    /\ f[0] = <<>>
    /\ \A i \in 1..Len(s) : f[i] = Inserted(f[i - 1], s[i])
    /\ Sorted(s) = f[Len(s)]

LEMMA SortLoop ==
    ASSUME NEW A, IsEntries(A), NEW s \in Seq(A)
    PROVE  \E f : SortRun(f, A, s)
<1>1. PICK n \in Nat : n = Len(s)
  OBVIOUS
<1>2. PICK V : V = Seq(A)
  OBVIOUS
<1> DEFINE Step(v, i) == Inserted(v, s[i])
           Runs(f) == f = [i \in 0..n |-> IF i = 0 THEN <<>> ELSE Step(f[i - 1], i)]
           F == [i \in 1..n |-> [v \in V |-> Step(v, i)]]
           f == CHOOSE f : Runs(f)
<1>3. Sorted(s) = f[n]
  BY <1>1, Zenon DEF Sorted
<1>4. <<>> \in V /\ \A i \in 1..n, v \in V : Step(v, i) \in V
  <2>1. <<>> \in V
    BY <1>2
  <2>2. ASSUME NEW i \in 1..n, NEW v \in V PROVE Step(v, i) \in V
    <3>1. PICK e \in A : e = s[i]
      BY <1>1, ElementOfSeq
    <3>2. v \in Seq(A)
      BY <1>2
    <3>3. Inserted(v, e) \in Seq(A)
      BY <3>2, InsertedRanks
    <3>4. QED
      BY <1>2, <3>1, <3>3
  <2>3. QED
    BY <2>1, <2>2
<1> HIDE DEF Step
<1>5. F \in [1..n -> [V -> V]] /\ \A i \in 1..n, v \in V : F[i][v] = Step(v, i)
  BY <1>4
<1>6. \E g \in [0..n -> V] : g[0] = <<>> /\ \A i \in 1..n : g[i] = F[i][g[i - 1]]
  <2>1. PICK base \in V : base = <<>>
    BY <1>4
  <2>2. F \in [1..n -> [V -> V]] /\ n \in Nat
    BY <1>5
  <2> HIDE DEF F
  <2>3. \E g \in [0..n -> V] : g[0] = base /\ \A i \in 1..n : g[i] = F[i][g[i - 1]]
    BY <2>2, LoopExists, SMTT(60)
  <2>4. QED
    BY <2>1, <2>3
<1> HIDE DEF F
<1>7. \E g : Runs(g)
  <2>1. PICK g \in [0..n -> V] : g[0] = <<>> /\ \A i \in 1..n : g[i] = F[i][g[i - 1]]
    BY <1>6
  <2>2. (\A i \in 1..n : i - 1 \in 0..n) /\ \A i \in 0..n : i # 0 => i \in 1..n
    OBVIOUS
  <2>3. \A i \in 1..n : g[i] = Step(g[i - 1], i)
    BY <1>5, <2>1, <2>2
  <2>4. Runs(g)
    BY <2>1, <2>2, <2>3
  <2>5. QED
    BY <2>4
<1>8. Runs(f)
  <2> HIDE DEF Runs
  <2> QED
    BY <1>7, Zenon
<1> HIDE DEF f
<1>9. f[0] = <<>> /\ \A i \in 1..n : f[i] = Step(f[i - 1], i)
  BY <1>8
<1>10. \A i \in 0..n : f[i] \in V
  <2>1. f[0] \in V
    BY <1>4, <1>9
  <2>2. \A i \in 1..n : f[i - 1] \in V => f[i] \in V
    BY <1>4, <1>9
  <2>3. QED
    BY <2>1, <2>2, LoopTyped
<1>11. f \in [0..n -> V]
  BY <1>8, <1>10
<1>12. QED
  BY <1>1, <1>2, <1>3, <1>9, <1>11 DEF Step, SortRun

\* The sort is by priority, and stable: entries of one priority stay along R.
LEMMA SortedRanks ==
    ASSUME NEW A, IsEntries(A), NEW R, NEW s \in Seq(A), Along(s, R)
    PROVE  /\ Sorted(s) \in Seq(A)
           /\ ToSet(Sorted(s)) = ToSet(s)
           /\ Along(Sorted(s), Ranks(A, R))
<1>1. PICK n \in Nat : n = Len(s)
  OBVIOUS
<1>2. PICK f : SortRun(f, A, s)
  BY SortLoop
<1>3. /\ f \in [0..n -> Seq(A)]
      /\ f[0] = <<>>
      /\ \A i \in 1..n : f[i] = Inserted(f[i - 1], s[i])
      /\ Sorted(s) = f[n]
  BY <1>1, <1>2 DEF SortRun
<1>4. /\ \A i \in 1..n : s[i] \in A /\ i - 1 \in 0..n
      /\ \A i \in 1..n : Upto(s, i) = Upto(s, i - 1) \cup {s[i]}
      /\ Upto(s, 0) = {} /\ Upto(s, n) = ToSet(s)
  BY <1>1, UptoStep
<1>5. \A i \in 0..n : f[i] \in Seq(A)
  <2>1. PICK V : V = Seq(A)
    OBVIOUS
  <2>2. QED
    BY <1>3, <2>1
<1> DEFINE T == {k \in 0..n : ToSet(f[k]) = Upto(s, k) /\ Along(f[k], Ranks(A, R))}
<1>6. 0 \in T
  <2>1. f[0] = <<>> /\ ToSet(f[0]) = Upto(s, 0)
    BY <1>3, <1>4, NoElements
  <2>2. Along(f[0], Ranks(A, R))
    BY <2>1 DEF Along
  <2>3. QED
    BY <2>1, <2>2
<1>7. ASSUME NEW k \in 1..n, k - 1 \in T PROVE k \in T
  <2>1. PICK v \in Seq(A), e \in A : v = f[k - 1] /\ e = s[k]
    BY <1>4, <1>5
  <2>2. f[k] = Inserted(v, e)
    BY <1>3, <2>1
  <2>3. ToSet(v) = Upto(s, k - 1) /\ Along(v, Ranks(A, R))
    BY <1>7, <2>1
  <2>4. \A x \in ToSet(v) : <<x, e>> \in R
    BY <1>1, <2>1, <2>3 DEF Along, Upto
  <2>5. ToSet(f[k]) = ToSet(v) \cup {e} /\ Along(f[k], Ranks(A, R))
    BY <2>2, <2>3, <2>4, InsertedRanks
  <2>6. ToSet(f[k]) = Upto(s, k) /\ k \in 0..n
    BY <1>4, <2>1, <2>3, <2>5
  <2>7. QED
    BY <2>5, <2>6
<1>8. \A k \in 0..n : k \in T
  <2> HIDE DEF T
  <2> QED
    BY <1>6, <1>7, LoopInduction
<1>9. QED
  <2>1. n \in 0..n
    OBVIOUS
  <2>2. n \in T
    <3> HIDE DEF T
    <3> QED
      BY <1>8, <2>1
  <2>3. QED
    BY <1>3, <1>4, <1>5, <2>1, <2>2

-----------------------------------------------------------------------------
(* The longest prefix.                                                        *)

PrefixLength(b) == Len(CHOOSE p \in b.prefix : TRUE)

LEMMA PrefixLengths ==
    ASSUME NEW b \in Backend, NEW d \in Backend, NEW path \in Seq(STRING)
    PROVE  /\ Matches(b, path) => \E p \in Seq(STRING) : b.prefix = {p} /\ PrefixLength(b) = Len(p)
           /\ Matches(b, path) => PrefixLength(b) \in Nat
           /\ Matches(b, path) /\ Matches(d, path) =>
                 (Longer(b, d) <=> PrefixLength(b) > PrefixLength(d))
           /\ Matches(b, path) /\ Matches(d, path) /\ PrefixLength(b) = PrefixLength(d) =>
                 b.prefix = d.prefix
<1>1. ASSUME NEW e \in Backend, Matches(e, path)
      PROVE  \E p \in Seq(STRING) : e.prefix = {p} /\ PrefixLength(e) = Len(p) /\ IsPrefix(p, path)
  <2>1. PICK p \in e.prefix : IsPrefix(p, path)
    BY <1>1 DEF Matches
  <2>2. e.prefix = {p} /\ p \in Seq(STRING)
    BY <2>1 DEF Backend
  <2>3. QED
    BY <2>1, <2>2 DEF PrefixLength
<1>2. ASSUME Matches(b, path), Matches(d, path)
      PROVE  /\ Longer(b, d) <=> PrefixLength(b) > PrefixLength(d)
             /\ PrefixLength(b) = PrefixLength(d) => b.prefix = d.prefix
  <2>1. PICK p \in Seq(STRING) : b.prefix = {p} /\ PrefixLength(b) = Len(p) /\ IsPrefix(p, path)
    BY <1>1, <1>2
  <2>2. PICK q \in Seq(STRING) : d.prefix = {q} /\ PrefixLength(d) = Len(q) /\ IsPrefix(q, path)
    BY <1>1, <1>2, SMTT(60)
  <2>3. ASSUME Len(p) = Len(q) PROVE p = q
    <3>1. SubSeq(p, 1, Len(p)) = SubSeq(q, 1, Len(q))
      BY <2>1, <2>2, <2>3 DEF IsPrefix
    <3>2. SubSeq(p, 1, Len(p)) = p /\ SubSeq(q, 1, Len(q)) = q
      OBVIOUS
    <3>3. QED
      BY <3>1, <3>2, Zenon
  <2>4. QED
    BY <2>1, <2>2, <2>3 DEF Longer
<1>3. QED
  BY <1>1, <1>2

BestRun(f, A, s, path) ==
    /\ f \in [0..Len(s) -> SUBSET A]
    /\ f[0] = {}
    /\ \A i \in 1..Len(s) : f[i] = Better(f[i - 1], s[i], path)
    /\ BestOf(s, path) = f[Len(s)]

LEMMA BestLoop ==
    ASSUME NEW A, NEW s \in Seq(A), NEW path
    PROVE  \E f : BestRun(f, A, s, path)
<1>1. PICK n \in Nat : n = Len(s)
  OBVIOUS
<1>2. PICK V : V = SUBSET A
  OBVIOUS
<1> DEFINE Step(v, i) == Better(v, s[i], path)
           Runs(f) == f = [i \in 0..n |-> IF i = 0 THEN {} ELSE Step(f[i - 1], i)]
           F == [i \in 1..n |-> [v \in V |-> Step(v, i)]]
           f == CHOOSE f : Runs(f)
<1>3. BestOf(s, path) = f[n]
  BY <1>1, Zenon DEF BestOf
<1>4. {} \in V /\ \A i \in 1..n, v \in V : Step(v, i) \in V
  <2>1. {} \in V
    BY <1>2
  <2>2. ASSUME NEW i \in 1..n, NEW v \in V PROVE Step(v, i) \in V
    <3>1. PICK e \in A : e = s[i]
      BY <1>1, ElementOfSeq
    <3>2. QED
      BY <1>2, <3>1 DEF Better
  <2>3. QED
    BY <2>1, <2>2
<1> HIDE DEF Step
<1>5. F \in [1..n -> [V -> V]] /\ \A i \in 1..n, v \in V : F[i][v] = Step(v, i)
  BY <1>4
<1>6. \E g \in [0..n -> V] : g[0] = {} /\ \A i \in 1..n : g[i] = F[i][g[i - 1]]
  <2>1. PICK base \in V : base = {}
    BY <1>4
  <2>2. F \in [1..n -> [V -> V]] /\ n \in Nat
    BY <1>5
  <2> HIDE DEF F
  <2>3. \E g \in [0..n -> V] : g[0] = base /\ \A i \in 1..n : g[i] = F[i][g[i - 1]]
    BY <2>2, LoopExists, SMTT(60)
  <2>4. QED
    BY <2>1, <2>3
<1> HIDE DEF F
<1>7. \E g : Runs(g)
  <2>1. PICK g \in [0..n -> V] : g[0] = {} /\ \A i \in 1..n : g[i] = F[i][g[i - 1]]
    BY <1>6
  <2>2. (\A i \in 1..n : i - 1 \in 0..n) /\ \A i \in 0..n : i # 0 => i \in 1..n
    OBVIOUS
  <2>3. \A i \in 1..n : g[i] = Step(g[i - 1], i)
    BY <1>5, <2>1, <2>2
  <2>4. Runs(g)
    BY <2>1, <2>2, <2>3
  <2>5. QED
    BY <2>4
<1>8. Runs(f)
  <2> HIDE DEF Runs
  <2> QED
    BY <1>7, Zenon
<1> HIDE DEF f
<1>9. f[0] = {} /\ \A i \in 1..n : f[i] = Step(f[i - 1], i)
  <2>1. 0 \in 0..n /\ \A i \in 1..n : i \in 0..n /\ i # 0
    OBVIOUS
  <2>2. QED
    BY <1>8, <2>1, Zenon
<1>10. \A i \in 0..n : f[i] \in V
  <2>1. f[0] \in V
    BY <1>4, <1>9
  <2>2. \A i \in 1..n : f[i - 1] \in V => f[i] \in V
    BY <1>4, <1>9
  <2>3. QED
    BY <2>1, <2>2, LoopTyped
<1>11. f \in [0..n -> V]
  BY <1>8, <1>10
<1>12. QED
  BY <1>1, <1>2, <1>3, <1>9, <1>11 DEF Step, BestRun

\* What the loop holds after k backends is the first of the longest prefixes.
Leads(s, path, k, m) ==
    /\ m \in 1..k /\ Matches(s[m], path)
    /\ \A i \in 1..k : Matches(s[i], path) =>
          \/ PrefixLength(s[i]) < PrefixLength(s[m])
          \/ PrefixLength(s[i]) = PrefixLength(s[m]) /\ m <= i
BestAt(s, path, k, best) ==
    /\ best = {} => \A i \in 1..k : ~Matches(s[i], path)
    /\ best # {} => \E m \in 1..k : best = {s[m]} /\ Leads(s, path, k, m)

LEMMA BestIsLongest ==
    ASSUME NEW s \in Seq(Backend), NEW path \in Seq(STRING)
    PROVE  BestAt(s, path, Len(s), BestOf(s, path))
<1>1. PICK n \in Nat : n = Len(s)
  OBVIOUS
<1>2. PICK f : BestRun(f, Backend, s, path)
  BY BestLoop
<1>3. /\ f[0] = {}
      /\ \A i \in 1..n : f[i] = Better(f[i - 1], s[i], path)
      /\ BestOf(s, path) = f[n]
  BY <1>1, <1>2 DEF BestRun
<1>4. \A i \in 1..n : s[i] \in Backend
  BY <1>1, ElementOfSeq
<1> DEFINE T == {k \in 0..n : BestAt(s, path, k, f[k])}
<1>5. 0 \in T
  BY <1>3 DEF BestAt
<1>6. ASSUME NEW k \in 1..n, k - 1 \in T PROVE k \in T
  <2>1. /\ k \in 0..n /\ k \in 1..k
        /\ \A i \in 1..k : i = k \/ i \in 1..(k - 1)
        /\ \A i \in 1..(k - 1) : i \in 1..k /\ i \in 1..n /\ i < k
    OBVIOUS
  <2>2. PICK b \in Backend : b = s[k]
    BY <1>4
  <2>3. BestAt(s, path, k - 1, f[k - 1])
    BY <1>6
  <2>4. f[k] = IF Matches(b, path) /\ \A d \in f[k - 1] : Longer(b, d) THEN {b} ELSE f[k - 1]
    BY <1>3, <2>2 DEF Better
  <2>5. CASE f[k - 1] = {}
    <3>1. CASE Matches(b, path)
      <4>1. f[k] = {s[k]}
        BY <2>2, <2>4, <2>5, <3>1
      <4>2. \A i \in 1..(k - 1) : ~Matches(s[i], path)
        BY <2>3, <2>5 DEF BestAt
      <4>3. Leads(s, path, k, k)
        BY <2>1, <2>2, <3>1, <4>2 DEF Leads
      <4>4. QED
        BY <2>1, <4>1, <4>3 DEF BestAt
    <3>2. CASE ~Matches(b, path)
      BY <2>1, <2>2, <2>3, <2>4, <2>5, <3>2 DEF BestAt
    <3>3. QED
      BY <3>1, <3>2
  <2>6. CASE f[k - 1] # {}
    <3>1. PICK m \in 1..(k - 1) : f[k - 1] = {s[m]} /\ Leads(s, path, k - 1, m)
      BY <2>3, <2>6 DEF BestAt
    <3>2. PICK d \in Backend : d = s[m]
      BY <1>4, <2>1, <3>1
    <3>3. /\ Matches(d, path) /\ PrefixLength(d) \in Nat
          /\ Matches(b, path) => PrefixLength(b) \in Nat
          /\ Matches(b, path) => (Longer(b, d) <=> PrefixLength(b) > PrefixLength(d))
      <4>1. Matches(d, path)
        BY <3>1, <3>2 DEF Leads
      <4>2. QED
        BY <4>1, PrefixLengths
    <3>4. \A i \in 1..(k - 1) : Matches(s[i], path) =>
              /\ PrefixLength(s[i]) \in Nat
              /\ \/ PrefixLength(s[i]) < PrefixLength(d)
                 \/ PrefixLength(s[i]) = PrefixLength(d) /\ m <= i
      <4>1. ASSUME NEW i \in 1..(k - 1), Matches(s[i], path) PROVE PrefixLength(s[i]) \in Nat
        <5>1. PICK a \in Backend : a = s[i]
          BY <1>4, <2>1
        <5>2. QED
          BY <4>1, <5>1, PrefixLengths
      <4>2. QED
        BY <3>1, <3>2, <4>1 DEF Leads
    <3>5. CASE Matches(b, path) /\ Longer(b, d)
      <4>1. f[k] = {s[k]}
        BY <2>2, <2>4, <3>1, <3>2, <3>5
      <4>2. \A i \in 1..(k - 1) : Matches(s[i], path) => PrefixLength(s[i]) < PrefixLength(b)
        BY <3>3, <3>4, <3>5
      <4>3. Leads(s, path, k, k)
        BY <2>1, <2>2, <3>5, <4>2 DEF Leads
      <4>4. QED
        BY <2>1, <4>1, <4>3 DEF BestAt
    <3>6. CASE ~(Matches(b, path) /\ Longer(b, d))
      <4>1. f[k] = {s[m]}
        BY <2>4, <3>1, <3>2, <3>6
      <4>2. Matches(b, path) => PrefixLength(b) < PrefixLength(d) \/ PrefixLength(b) = PrefixLength(d)
        BY <3>3, <3>6
      <4>3. Leads(s, path, k, m)
        BY <2>1, <2>2, <3>2, <3>3, <3>4, <4>2 DEF Leads
      <4>4. QED
        BY <2>1, <4>1, <4>3 DEF BestAt
    <3>7. QED
      BY <3>5, <3>6
  <2>7. QED
    BY <2>5, <2>6
<1>7. \A k \in 0..n : k \in T
  <2> HIDE DEF T
  <2> QED
    BY <1>5, <1>6, LoopInduction
<1>8. QED
  <2>1. n \in 0..n
    OBVIOUS
  <2>2. n \in T
    <3> HIDE DEF T
    <3> QED
      BY <1>7, <2>1
  <2>3. QED
    BY <1>1, <1>3, <2>2

\* Whenever y comes in the first k elements, x came by then.
BeforeIn(s, k, x, y) == \A j \in 1..k : s[j] = y => \E i \in 1..j : s[i] = x

LEMMA BeforeInStep ==
    ASSUME NEW A, NEW s \in Seq(A), NEW k \in 1..Len(s), NEW x, NEW y
    PROVE  BeforeIn(s, k, x, y) <=> (BeforeIn(s, k - 1, x, y) /\ (s[k] = y => x \in Upto(s, k)))
<1>1. /\ k \in 1..k /\ \A j \in 1..k : j = k \/ j \in 1..(k - 1)
      /\ \A j \in 1..(k - 1) : j \in 1..k
  OBVIOUS
<1>2. QED
  BY <1>1 DEF BeforeIn, Upto

LEMMA BeforeInAppend ==
    ASSUME NEW A, NEW s \in Seq(A), NEW e \in A, NEW x, NEW y,
           BeforeIn(Append(s, e), Len(Append(s, e)), x, y)
    PROVE  BeforeIn(s, Len(s), x, y) /\ (e = y => x \in ToSet(s) \cup {e})
<1>1. PICK n \in Nat : n = Len(s)
  OBVIOUS
<1>2. PICK t \in Seq(A) : t = Append(s, e)
  BY AppendProperties
<1>3. Len(t) = n + 1 /\ t[n + 1] = e /\ \A i \in 1..n : t[i] = s[i]
  BY <1>2, <1>1
<1>4. \A i \in 1..n : i \in 1..(n + 1) /\ \A j \in 1..i : j \in 1..n
  OBVIOUS
<1>5. \A j \in 1..(n + 1) : t[j] = y => \E i \in 1..j : t[i] = x
  BY <1>2, <1>3 DEF BeforeIn
<1>6. ASSUME NEW j \in 1..n, s[j] = y PROVE \E i \in 1..j : s[i] = x
  BY <1>3, <1>4, <1>5, <1>6
<1>7. ASSUME e = y PROVE x \in ToSet(s) \cup {e}
  <2>1. n + 1 \in 1..(n + 1)
    OBVIOUS
  <2>2. PICK i \in 1..(n + 1) : t[i] = x
    BY <1>3, <1>5, <1>7, <2>1
  <2>3. CASE i = n + 1
    BY <1>3, <2>2, <2>3
  <2>4. CASE i # n + 1
    <3>1. i \in 1..n
      BY <2>4
    <3>2. QED
      BY <1>1, <1>3, <2>2, <3>1, Elements
  <2>5. QED
    BY <2>3, <2>4
<1>8. QED
  BY <1>2, <1>1, <1>6, <1>7 DEF BeforeIn

\* Which of two kept elements comes first is not changed by dropping others.
LEMMA KeptBefore ==
    ASSUME NEW A, NEW s \in Seq(A), NEW kept, NEW x \in kept, NEW y \in kept,
           BeforeIn(Keep(s, kept), Len(Keep(s, kept)), x, y)
    PROVE  BeforeIn(s, Len(s), x, y)
<1>1. PICK n \in Nat : n = Len(s)
  OBVIOUS
<1>2. PICK f : KeepRun(f, A, s, kept)
  BY KeepLoop
<1>3. /\ f[0] = <<>>
      /\ \A i \in 1..n : f[i] = IF s[i] \in kept THEN Append(f[i - 1], s[i]) ELSE f[i - 1]
      /\ Keep(s, kept) = f[n]
  BY <1>1, <1>2 DEF KeepRun
<1>4. \A i \in 0..n : f[i] \in Seq(A)
  <2>1. PICK V : V = Seq(A)
    OBVIOUS
  <2>2. QED
    BY <1>1, <1>2, <2>1 DEF KeepRun
<1>5. /\ \A i \in 1..n : s[i] \in A /\ i - 1 \in 0..n
      /\ \A i \in 1..n : Upto(s, i) = Upto(s, i - 1) \cup {s[i]}
      /\ Upto(s, 0) = {}
  BY <1>1, UptoStep
<1> DEFINE T == {k \in 0..n : /\ ToSet(f[k]) = Upto(s, k) \cap kept
                              /\ BeforeIn(f[k], Len(f[k]), x, y) => BeforeIn(s, k, x, y)}
<1>6. 0 \in T
  <2>1. ToSet(f[0]) = Upto(s, 0) \cap kept
    BY <1>3, <1>5, NoElements
  <2>2. BeforeIn(s, 0, x, y)
    BY DEF BeforeIn
  <2>3. QED
    BY <2>1, <2>2
<1>7. ASSUME NEW k \in 1..n, k - 1 \in T PROVE k \in T
  <2>1. PICK v \in Seq(A), e \in A : v = f[k - 1] /\ e = s[k]
    BY <1>4, <1>5
  <2>2. ToSet(v) = Upto(s, k - 1) \cap kept /\ (BeforeIn(v, Len(v), x, y) => BeforeIn(s, k - 1, x, y))
    BY <1>7, <2>1
  <2>3. Upto(s, k) = Upto(s, k - 1) \cup {e}
    BY <1>5, <2>1
  <2>4. BeforeIn(s, k, x, y) <=> (BeforeIn(s, k - 1, x, y) /\ (e = y => x \in Upto(s, k)))
    BY <1>1, <2>1, BeforeInStep
  <2>5. CASE e \in kept
    <3>1. f[k] = Append(v, e)
      BY <1>3, <2>1, <2>5
    <3>2. ToSet(f[k]) = ToSet(v) \cup {e}
      BY <3>1, Appended
    <3>3. BeforeIn(f[k], Len(f[k]), x, y) =>
             BeforeIn(v, Len(v), x, y) /\ (e = y => x \in ToSet(v) \cup {e})
      BY <3>1, BeforeInAppend
    <3>4. BeforeIn(f[k], Len(f[k]), x, y) => BeforeIn(s, k, x, y)
      BY <2>2, <2>3, <2>4, <3>3
    <3>5. ToSet(f[k]) = Upto(s, k) \cap kept /\ k \in 0..n
      BY <2>2, <2>3, <2>5, <3>2
    <3>6. QED
      BY <3>4, <3>5
  <2>6. CASE e \notin kept
    <3>1. f[k] = v
      BY <1>3, <2>1, <2>6
    <3>2. BeforeIn(f[k], Len(f[k]), x, y) => BeforeIn(s, k, x, y)
      BY <2>2, <2>4, <2>6, <3>1
    <3>3. ToSet(f[k]) = Upto(s, k) \cap kept /\ k \in 0..n
      BY <2>2, <2>3, <2>6, <3>1
    <3>4. QED
      BY <3>2, <3>3
  <2>7. QED
    BY <2>5, <2>6
<1>8. \A k \in 0..n : k \in T
  <2> HIDE DEF T
  <2> QED
    BY <1>6, <1>7, LoopInduction
<1>9. QED
  <2>1. n \in 0..n
    OBVIOUS
  <2>2. n \in T
    <3> HIDE DEF T
    <3> QED
      BY <1>8, <2>1
  <2>3. QED
    BY <1>1, <1>3, <2>2

-----------------------------------------------------------------------------
(* The ModelIndex.                                                            *)

LEMMA EnabledOnes ==
    ASSUME NEW c \in Seq(Backend)
    PROVE  /\ Enabled(c) \in Seq(Backend)
           /\ ToSet(Enabled(c)) = {b \in ToSet(c) : b.enabled}
           /\ \A R : Along(c, R) => Along(Enabled(c), R)
           /\ \A x, y \in ToSet(Enabled(c)) :
                 BeforeIn(Enabled(c), Len(Enabled(c)), x, y) => BeforeIn(c, Len(c), x, y)
<1>1. PICK kept : kept = {b \in ToSet(c) : b.enabled}
  OBVIOUS
<1>2. Enabled(c) = Keep(c, kept)
  BY <1>1 DEF Enabled
<1>3. /\ Keep(c, kept) \in Seq(Backend)
      /\ ToSet(Keep(c, kept)) = ToSet(c) \cap kept
      /\ \A R : Along(c, R) => Along(Keep(c, kept), R)
  BY Kept
<1>4. ASSUME NEW x \in kept, NEW y \in kept,
             BeforeIn(Keep(c, kept), Len(Keep(c, kept)), x, y)
      PROVE  BeforeIn(c, Len(c), x, y)
  BY <1>4, KeptBefore
<1>5. ToSet(Keep(c, kept)) = kept
  BY <1>1, <1>3
<1>6. QED
  BY <1>1, <1>2, <1>3, <1>4, <1>5

\* A request whose path has a prefix goes to the first enabled backend among
\* those of the longest one.
LEMMA MatchIsLongest ==
    ASSUME NEW c \in Seq(Backend), NEW path \in Seq(STRING)
    PROVE  /\ MatchByPrefix(c, path) = {} <=> \A b \in ToSet(c) : ~(b.enabled /\ Matches(b, path))
           /\ MatchByPrefix(c, path) # {} =>
                 \E b \in Backend :
                    /\ MatchByPrefix(c, path) = {b}
                    /\ b \in ToSet(c) /\ b.enabled /\ Matches(b, path)
                    /\ \A d \in ToSet(Enabled(c)) : Matches(d, path) =>
                          \A p \in b.prefix, q \in d.prefix :
                             Len(q) < Len(p) \/ (q = p /\ BeforeIn(c, Len(c), b, d))
<1>1. PICK s \in Seq(Backend) : s = Enabled(c)
  BY EnabledOnes
<1>2. PICK n \in Nat : n = Len(s)
  OBVIOUS
<1>3. PICK best : best = MatchByPrefix(c, path)
  OBVIOUS
<1>4. BestAt(s, path, n, best)
  BY <1>1, <1>2, <1>3, BestIsLongest DEF MatchByPrefix
<1>5. /\ \A b : b \in ToSet(s) <=> b \in ToSet(c) /\ b.enabled
      /\ \A b : b \in ToSet(s) <=> \E i \in 1..n : s[i] = b
      /\ \A i \in 1..n : s[i] \in Backend
  BY <1>1, <1>2, EnabledOnes, Elements, ElementOfSeq
<1>6. CASE best = {}
  <2>1. \A i \in 1..n : ~Matches(s[i], path)
    BY <1>4, <1>6 DEF BestAt
  <2>2. QED
    BY <1>3, <1>5, <1>6, <2>1
<1>7. CASE best # {}
  <2>1. PICK m \in 1..n : best = {s[m]} /\ Leads(s, path, n, m)
    BY <1>4, <1>7 DEF BestAt
  <2>2. PICK b \in Backend : b = s[m]
    BY <1>5
  <2>3. b \in ToSet(s) /\ b \in ToSet(c) /\ b.enabled /\ Matches(b, path)
    BY <1>5, <2>1, <2>2 DEF Leads
  <2>4. ASSUME NEW d \in ToSet(s), Matches(d, path), NEW p \in b.prefix, NEW q \in d.prefix
        PROVE  Len(q) < Len(p) \/ (q = p /\ BeforeIn(c, Len(c), b, d))
    <3>1. d \in Backend /\ \E i \in 1..n : s[i] = d
      BY <1>5
    <3>2. /\ p \in Seq(STRING) /\ b.prefix = {p} /\ PrefixLength(b) = Len(p)
          /\ q \in Seq(STRING) /\ d.prefix = {q} /\ PrefixLength(d) = Len(q)
      BY <2>3, <2>4, <3>1, PrefixLengths
    <3>3. PrefixLength(b) = PrefixLength(d) => p = q
      BY <2>3, <2>4, <3>1, <3>2, PrefixLengths
    <3>4. CASE PrefixLength(d) < PrefixLength(b)
      BY <3>2, <3>4
    <3>5. CASE PrefixLength(d) = PrefixLength(b)
      <4>1. ASSUME NEW j \in 1..n, s[j] = d PROVE m <= j
        <5>1. \/ PrefixLength(d) < PrefixLength(b)
              \/ PrefixLength(d) = PrefixLength(b) /\ m <= j
          BY <2>1, <2>2, <2>4, <4>1, Zenon DEF Leads
        <5>2. PrefixLength(b) \in Nat
          BY <3>2
        <5>3. QED
          BY <3>5, <5>1, <5>2
      <4>2. BeforeIn(s, n, b, d)
        <5>1. ASSUME NEW j \in 1..n, s[j] = d PROVE m \in 1..j
          BY <4>1, <5>1
        <5>2. QED
          BY <2>2, <5>1 DEF BeforeIn
      <4>3. BeforeIn(c, Len(c), b, d)
        BY <1>1, <1>2, <2>3, <2>4, <4>2, EnabledOnes
      <4>4. QED
        BY <3>3, <3>5, <4>3
    <3>6. PrefixLength(d) < PrefixLength(b) \/ PrefixLength(d) = PrefixLength(b)
      BY <2>1, <2>2, <2>4, <3>1 DEF Leads
    <3>7. QED
      BY <3>4, <3>5, <3>6
  <2>5. QED
    BY <1>1, <1>3, <1>5, <1>7, <2>1, <2>2, <2>3, <2>4, ZenonT(60)
<1>8. QED
  BY <1>6, <1>7

Entry == [backend : Backend, model : STRING]

\* m goes by `alias', and its entry.
GoesByAlias(m, alias) == alias # "" /\ (alias = m.name \/ alias \in ToSet(m.aliases))
EntryOf(b, m) == [backend |-> b, model |-> m.name]

LEMMA EntryTypes ==
    /\ IsEntries(Entry)
    /\ \A b \in Backend, m \in Model :
          /\ EntryOf(b, m) \in Entry
          /\ EntryOf(b, m).backend = b /\ EntryOf(b, m).model = m.name
          /\ m.name \in STRING /\ m.aliases \in Seq(STRING)
    /\ \A b \in Backend : b.models \in Seq(Model) /\ b.priority \in Int
BY DEF IsEntries, Priority, Entry, Backend, Model, EntryOf

\* The keys of a model that are `alias'.
KeysOf(m, alias) == Keep(<<m.name>> \o m.aliases, {alias} \ {""})
Block(b, m, alias) == [k \in DOMAIN KeysOf(m, alias) |-> EntryOf(b, m)]

LEMMA Blocks ==
    ASSUME NEW b \in Backend, NEW m \in Model, NEW alias \in STRING
    PROVE  /\ Block(b, m, alias) \in Seq(Entry)
           /\ \A e : e \in ToSet(Block(b, m, alias)) <=> (GoesByAlias(m, alias) /\ e = EntryOf(b, m))
<1>1. PICK one \in Seq(STRING) : one = <<m.name>>
  <2>1. <<m.name>> = Append(<<>>, m.name) /\ <<>> \in Seq(STRING)
    OBVIOUS
  <2>2. QED
    BY <2>1, EntryTypes, AppendProperties
<1>2. PICK aliases \in Seq(STRING) : aliases = m.aliases
  BY EntryTypes
<1>3. PICK names \in Seq(STRING) : names = one \o aliases
  BY Joined
<1>4. PICK keys \in Seq(STRING) : keys = KeysOf(m, alias)
  BY <1>1, <1>2, <1>3, Kept DEF KeysOf
<1>5. /\ ToSet(one) = {m.name}
      /\ ToSet(names) = ToSet(one) \cup ToSet(aliases)
      /\ ToSet(keys) = ToSet(names) \cap ({alias} \ {""})
  <2>1. ToSet(one) = {m.name}
    BY <1>1 DEF ToSet
  <2>2. ToSet(names) = ToSet(one) \cup ToSet(aliases)
    BY <1>3, Joined
  <2>3. keys = Keep(names, {alias} \ {""})
    BY <1>1, <1>2, <1>3, <1>4 DEF KeysOf
  <2>4. QED
    BY <2>1, <2>2, <2>3, Kept
<1>6. GoesByAlias(m, alias) <=> ToSet(keys) # {}
  BY <1>2, <1>5 DEF GoesByAlias
<1>7. PICK l \in Nat : l = Len(keys) /\ DOMAIN keys = 1..l
  OBVIOUS
<1>8. PICK x \in Entry : x = EntryOf(b, m)
  BY EntryTypes
<1>9. PICK block : block = Block(b, m, alias)
  OBVIOUS
<1>10. block = [k \in 1..l |-> x]
  BY <1>4, <1>7, <1>8, <1>9 DEF Block
<1>11. block \in Seq(Entry) /\ Len(block) = l
  BY <1>10
<1>12. ToSet(keys) # {} <=> 1 \in 1..l
  BY <1>7, Elements
<1>13. ASSUME NEW e PROVE e \in ToSet(block) <=> (1 \in 1..l /\ e = x)
  <2>1. e \in ToSet(block) <=> \E i \in 1..l : block[i] = e
    BY <1>11, Elements
  <2>2. \A i \in 1..l : block[i] = x /\ 1 \in 1..l
    BY <1>10
  <2>3. QED
    BY <2>1, <2>2
<1>14. QED
  BY <1>6, <1>8, <1>9, <1>11, <1>12, <1>13

\* A backend is registered for `alias' by each of its models that goes by it.
LEMMA RegisteredOnes ==
    ASSUME NEW b \in Backend, NEW alias \in STRING
    PROVE  /\ Registered(b, alias) \in Seq(Entry)
           /\ \A e : e \in ToSet(Registered(b, alias))
                        <=> \E m \in ToSet(b.models) : GoesByAlias(m, alias) /\ e = EntryOf(b, m)
<1>1. PICK models \in Seq(Model) : models = b.models
  BY EntryTypes
<1>2. PICK n \in Nat : n = Len(models) /\ DOMAIN models = 1..n
  OBVIOUS
<1>3. \A j \in 1..n : models[j] \in Model
  BY <1>2, ElementOfSeq
<1>4. PICK W : W = Seq(Entry)
  OBVIOUS
<1> DEFINE ss == [j \in 1..n |-> Block(b, models[j], alias)]
<1>5. \A j \in 1..n : Block(b, models[j], alias) \in W
  BY <1>3, <1>4, Blocks
<1>6. ss \in Seq(W) /\ Len(ss) = n /\ \A j \in 1..n : ss[j] = Block(b, models[j], alias)
  <2>1. ss \in [1..n -> W] /\ \A j \in 1..n : ss[j] = Block(b, models[j], alias)
    BY <1>5
  <2> HIDE DEF ss
  <2>2. QED
    BY <2>1, FunctionIsSeq
<1>7. Registered(b, alias) = FlattenSeq(ss)
  BY <1>1, <1>2 DEF Registered, Block, KeysOf, EntryOf
<1> HIDE DEF ss
<1>8. ss \in Seq(Seq(Entry))
  BY <1>4, <1>6
<1>9. /\ FlattenSeq(ss) \in Seq(Entry)
      /\ \A x : x \in ToSet(FlattenSeq(ss)) <=> \E i \in 1..n : x \in ToSet(ss[i])
  BY <1>6, <1>8, Flattened
<1>10. \A e : \A j \in 1..n :
          e \in ToSet(ss[j]) <=> (GoesByAlias(models[j], alias) /\ e = EntryOf(b, models[j]))
  BY <1>3, <1>6, Blocks
<1>11. \A m : m \in ToSet(b.models) <=> \E j \in 1..n : models[j] = m
  BY <1>1, <1>2, Elements
<1>12. ASSUME NEW e
       PROVE  e \in ToSet(FlattenSeq(ss))
                 <=> \E m \in ToSet(b.models) : GoesByAlias(m, alias) /\ e = EntryOf(b, m)
  <2>1. e \in ToSet(FlattenSeq(ss))
           <=> \E j \in 1..n : GoesByAlias(models[j], alias) /\ e = EntryOf(b, models[j])
    BY <1>9, <1>10
  <2>2. QED
    BY <1>11, <2>1
<1>13. QED
  BY <1>7, <1>9, <1>12

\* Entries in the order of their backends in a configuration.
InOrder(c) ==
    {x \in Entry \X Entry :
        \E p, q \in 1..Len(c) : p <= q /\ c[p] = x[1].backend /\ c[q] = x[2].backend}

\* The candidates for `alias' are the entries of the enabled backends, by
\* priority and then in the order of the configuration.
LEMMA Candidates ==
    ASSUME NEW c \in Seq(Backend), NEW alias \in STRING
    PROVE  /\ ResolveCandidates(c, alias) \in Seq(Entry)
           /\ \A e : e \in ToSet(ResolveCandidates(c, alias))
                        <=> \E b \in ToSet(c) : b.enabled /\ e \in ToSet(Registered(b, alias))
           /\ Along(ResolveCandidates(c, alias), Ranks(Entry, InOrder(c)))
<1>1. PICK s \in Seq(Backend) : s = Enabled(c)
  BY EnabledOnes
<1>2. PICK n \in Nat : n = Len(s) /\ DOMAIN s = 1..n
  OBVIOUS
<1>3. /\ \A b : b \in ToSet(s) <=> b \in ToSet(c) /\ b.enabled
      /\ \A b : b \in ToSet(s) <=> \E i \in 1..n : s[i] = b
      /\ \A b : b \in ToSet(c) <=> \E i \in 1..Len(c) : c[i] = b
      /\ \A i \in 1..n : s[i] \in Backend
      /\ \A i \in 1..Len(c) : c[i] \in Backend
  BY <1>1, <1>2, EnabledOnes, Elements, ElementOfSeq
<1>4. PICK W : W = Seq(Entry)
  OBVIOUS
<1> DEFINE ss == [i \in 1..n |-> Registered(s[i], alias)]
<1>5. \A i \in 1..n : Registered(s[i], alias) \in W
  BY <1>3, <1>4, RegisteredOnes
<1>6. ss \in Seq(Seq(Entry)) /\ Len(ss) = n /\ \A i \in 1..n : ss[i] = Registered(s[i], alias)
  <2>1. ss \in [1..n -> W] /\ \A i \in 1..n : ss[i] = Registered(s[i], alias)
    BY <1>5
  <2> HIDE DEF ss
  <2>2. QED
    BY <1>4, <2>1, FunctionIsSeq
<1>7. ResolveCandidates(c, alias) = Sorted(FlattenSeq(ss))
  BY <1>1, <1>2 DEF ResolveCandidates
<1> HIDE DEF ss
<1>8. PICK all \in Seq(Entry) : all = FlattenSeq(ss)
  BY <1>6, Flattened
<1>9. \A x : x \in ToSet(all) <=> \E i \in 1..n : x \in ToSet(ss[i])
  BY <1>6, <1>8, Flattened
<1>10. ASSUME NEW i \in 1..n, NEW e \in ToSet(ss[i])
       PROVE  e \in Entry /\ e.backend = s[i]
  <2>1. PICK b \in Backend : b = s[i]
    BY <1>3
  <2>2. e \in ToSet(Registered(b, alias))
    BY <1>6, <1>10, <2>1
  <2>3. PICK m \in ToSet(b.models) : e = EntryOf(b, m)
    BY <2>2, RegisteredOnes
  <2>4. b.models \in Seq(Model)
    BY EntryTypes
  <2>5. m \in Model
    BY <2>4, Elements
  <2>6. QED
    BY <2>1, <2>3, <2>5, EntryTypes
<1> DEFINE Before == {x \in Backend \X Backend : \E p, q \in 1..Len(c) : p < q /\ c[p] = x[1] /\ c[q] = x[2]}
<1>11. \A i, j \in 1..n : i < j => \E p, q \in 1..Len(c) : p < q /\ c[p] = s[i] /\ c[q] = s[j]
  <2>1. Along(c, Before)
    BY <1>3 DEF Along
  <2> HIDE DEF Before
  <2>2. Along(s, Before)
    BY <1>1, <2>1, EnabledOnes
  <2>3. ASSUME NEW i \in 1..n, NEW j \in 1..n, i < j
        PROVE  \E p, q \in 1..Len(c) : p < q /\ c[p] = s[i] /\ c[q] = s[j]
    <3>1. PICK x : x = <<s[i], s[j]>>
      OBVIOUS
    <3>2. x \in Before
      BY <1>2, <2>2, <2>3, <3>1 DEF Along
    <3>3. \E p, q \in 1..Len(c) : p < q /\ c[p] = x[1] /\ c[q] = x[2]
      BY <3>2 DEF Before
    <3>4. x[1] = s[i] /\ x[2] = s[j]
      BY <3>1
    <3>5. QED
      BY <3>3, <3>4
  <2>4. QED
    BY <2>3
<1>12. ASSUME NEW x \in Entry, NEW y \in Entry,
              NEW p \in 1..Len(c), NEW q \in 1..Len(c), p <= q, c[p] = x.backend, c[q] = y.backend
       PROVE  <<x, y>> \in InOrder(c)
  BY <1>12 DEF InOrder
<1>13. ASSUME NEW i \in 1..n PROVE Along(ss[i], InOrder(c))
  <2>1. ss[i] \in Seq(Entry)
    BY <1>6, ElementOfSeq
  <2>2. \A k \in 1..Len(ss[i]) : ss[i][k] \in ToSet(ss[i])
    BY <2>1, Elements
  <2>3. \A k \in 1..Len(ss[i]) : ss[i][k] \in Entry /\ ss[i][k].backend = s[i]
    BY <1>10, <2>2
  <2>4. PICK p \in 1..Len(c) : c[p] = s[i]
    BY <1>3
  <2>5. p <= p
    BY <2>4
  <2>6. \A k, l \in 1..Len(ss[i]) : <<ss[i][k], ss[i][l]>> \in InOrder(c)
    BY <1>12, <2>3, <2>4, <2>5
  <2>7. QED
    BY <2>6 DEF Along
<1>14. ASSUME NEW i \in 1..n, NEW j \in 1..n, i < j, NEW x \in ToSet(ss[i]), NEW y \in ToSet(ss[j])
       PROVE  <<x, y>> \in InOrder(c)
  <2>1. x \in Entry /\ y \in Entry /\ x.backend = s[i] /\ y.backend = s[j]
    BY <1>10
  <2>2. PICK p \in 1..Len(c), q \in 1..Len(c) : p < q /\ c[p] = s[i] /\ c[q] = s[j]
    BY <1>11, <1>14
  <2>3. p <= q
    BY <2>2
  <2>4. QED
    BY <1>12, <2>1, <2>2, <2>3
<1>15. Along(all, InOrder(c))
  BY <1>6, <1>8, <1>13, <1>14, Flattened
<1>16. /\ Sorted(all) \in Seq(Entry)
       /\ ToSet(Sorted(all)) = ToSet(all)
       /\ Along(Sorted(all), Ranks(Entry, InOrder(c)))
  BY <1>15, EntryTypes, SortedRanks
<1>17. ASSUME NEW e
       PROVE  e \in ToSet(all) <=> \E b \in ToSet(c) : b.enabled /\ e \in ToSet(Registered(b, alias))
  <2>1. e \in ToSet(all) <=> \E i \in 1..n : e \in ToSet(Registered(s[i], alias))
    BY <1>6, <1>9
  <2>2. ASSUME e \in ToSet(all)
        PROVE  \E b \in ToSet(c) : b.enabled /\ e \in ToSet(Registered(b, alias))
    <3>1. PICK i \in 1..n : e \in ToSet(Registered(s[i], alias))
      BY <2>1, <2>2
    <3>2. PICK b : b = s[i]
      OBVIOUS
    <3>3. QED
      BY <1>3, <3>1, <3>2
  <2>3. ASSUME NEW b \in ToSet(c), b.enabled, e \in ToSet(Registered(b, alias))
        PROVE  e \in ToSet(all)
    <3>1. PICK i \in 1..n : s[i] = b
      BY <1>3, <2>3
    <3>2. QED
      BY <2>1, <2>3, <3>1
  <2>4. QED
    BY <2>2, <2>3
<1>18. QED
  BY <1>7, <1>8, <1>16, <1>17

LEMMA KeysListed ==
    ASSUME NEW m \in Model, NEW alias \in STRING
    PROVE  /\ GoesBy(m) \in Seq(STRING)
           /\ GoesByAlias(m, alias) => alias \in ToSet(GoesBy(m))
<1>1. PICK one \in Seq(STRING) : one = <<m.name>>
  <2>1. <<m.name>> = Append(<<>>, m.name) /\ <<>> \in Seq(STRING) /\ m.name \in STRING
    BY DEF Model
  <2>2. QED
    BY <2>1, AppendProperties
<1>2. PICK aliases \in Seq(STRING) : aliases = m.aliases
  BY DEF Model
<1>3. PICK named : named = ToSet(one) \ {""}
  OBVIOUS
<1>4. PICK others : others = ToSet(aliases) \ {"", m.name}
  OBVIOUS
<1>5. PICK s \in Seq(STRING) : s = Keep(one, named) /\ ToSet(s) = ToSet(one) \cap named
  BY Kept
<1>6. PICK u \in Seq(STRING) : u = Keep(aliases, others) /\ ToSet(u) = ToSet(aliases) \cap others
  BY Kept
<1>7. GoesBy(m) = s \o u
  BY <1>1, <1>2, <1>3, <1>4, <1>5, <1>6 DEF GoesBy, Without
<1>8. s \o u \in Seq(STRING) /\ ToSet(s \o u) = ToSet(s) \cup ToSet(u)
  BY Joined
<1>9. ToSet(one) = {m.name}
  BY <1>1 DEF ToSet
<1>10. ASSUME GoesByAlias(m, alias) PROVE alias \in ToSet(s) \cup ToSet(u)
  <2>1. alias # "" /\ (alias = m.name \/ alias \in ToSet(aliases))
    BY <1>2, <1>10 DEF GoesByAlias
  <2>2. CASE alias = m.name
    BY <1>3, <1>5, <1>9, <2>1, <2>2
  <2>3. CASE alias # m.name
    BY <1>4, <1>6, <2>1, <2>3
  <2>4. QED
    BY <2>2, <2>3
<1>11. QED
  BY <1>7, <1>8, <1>10

\* Where no name stands for two models, one at most goes by an alias.
LEMMA OneGoesBy ==
    ASSUME NEW b \in Backend, UniqueModels(b), NEW alias \in STRING,
           NEW m1 \in ToSet(b.models), NEW m2 \in ToSet(b.models),
           GoesByAlias(m1, alias), GoesByAlias(m2, alias)
    PROVE  m1 = m2
<1>1. PICK models \in Seq(Model) : models = b.models
  BY EntryTypes
<1>2. PICK n \in Nat : n = Len(models) /\ DOMAIN models = 1..n
  OBVIOUS
<1>3. \A j \in 1..n : models[j] \in Model
  BY <1>2, ElementOfSeq
<1>4. PICK W : W = Seq(STRING)
  OBVIOUS
<1> DEFINE ss == [j \in 1..n |-> GoesBy(models[j])]
<1>5. \A j \in 1..n : GoesBy(models[j]) \in W
  BY <1>3, <1>4, KeysListed
<1>6. ss \in Seq(Seq(STRING)) /\ Len(ss) = n /\ \A j \in 1..n : ss[j] = GoesBy(models[j])
  <2>1. ss \in [1..n -> W] /\ \A j \in 1..n : ss[j] = GoesBy(models[j])
    BY <1>5
  <2> HIDE DEF ss
  <2>2. QED
    BY <1>4, <2>1, FunctionIsSeq
<1>7. IsInjective(FlattenSeq(ss))
  BY <1>1, <1>2 DEF UniqueModels
<1> HIDE DEF ss
<1>8. PICK all \in Seq(STRING) : all = FlattenSeq(ss)
  BY <1>6, Flattened
<1>9. ASSUME NEW i \in 1..n, NEW j \in 1..n, GoesByAlias(models[i], alias), GoesByAlias(models[j], alias)
      PROVE  ~(i < j)
  <2>1. alias \in ToSet(ss[i]) /\ alias \in ToSet(ss[j])
    BY <1>3, <1>6, <1>9, KeysListed
  <2>2. i < j => Precedes(all, alias, alias)
    BY <1>6, <1>8, <2>1, Flattened
  <2>3. ASSUME NEW p \in 1..Len(all), NEW q \in 1..Len(all), all[p] = all[q]
        PROVE  ~(p < q)
    <3>1. p \in DOMAIN all /\ q \in DOMAIN all
      OBVIOUS
    <3>2. p = q
      BY <1>7, <1>8, <2>3, <3>1 DEF IsInjective
    <3>3. QED
      BY <3>2
  <2>4. QED
    BY <2>2, <2>3 DEF Precedes
<1>10. PICK i \in 1..n, j \in 1..n : models[i] = m1 /\ models[j] = m2
  BY <1>1, <1>2, Elements
<1>11. ~(i < j) /\ ~(j < i)
  BY <1>9, <1>10
<1>12. i = j
  BY <1>11
<1>13. QED
  BY <1>10, <1>12

LEMMA DefaultOnes ==
    ASSUME NEW c \in Seq(Backend)
    PROVE  /\ DefaultBackend(c) \in Seq(Backend)
           /\ ToSet(DefaultBackend(c)) \subseteq ToSet(Enabled(c))
           /\ OneDefault(c) => Len(DefaultBackend(c)) <= 1
           /\ \A b : b \in ToSet(DefaultBackend(c)) <=> b \in ToSet(c) /\ IsDefault(c, b)
<1>1. PICK s \in Seq(Backend) : s = Enabled(c)
  BY EnabledOnes
<1>2. PICK kept : kept = {b \in ToSet(c) : b.default}
  OBVIOUS
<1>3. PICK marked \in Seq(Backend) : marked = Keep(s, kept) /\ ToSet(marked) = ToSet(s) \cap kept
  BY Kept
<1>4. DefaultBackend(c) = IF marked = <<>> /\ Len(s) = 1 THEN s ELSE marked
  BY <1>1, <1>2, <1>3 DEF DefaultBackend
<1> DEFINE R == {x \in Backend \X Backend : ~(x[1].default /\ x[2].default)}
<1>5. ASSUME OneDefault(c) PROVE Len(marked) <= 1
  <2>1. ASSUME NEW i \in 1..Len(c), NEW j \in 1..Len(c), i < j PROVE <<c[i], c[j]>> \in R
    <3>1. c[i] \in Backend /\ c[j] \in Backend
      BY ElementOfSeq
    <3>2. i \in DOMAIN c /\ j \in DOMAIN c /\ i # j
      BY <2>1
    <3>3. ~(c[i].default /\ c[j].default)
      BY <1>5, <3>2 DEF OneDefault
    <3>4. QED
      BY <3>1, <3>3
  <2>2. \A x \in R : ~(x[1].default /\ x[2].default)
    OBVIOUS
  <2> HIDE DEF R
  <2>3. Along(c, R)
    BY <2>1 DEF Along
  <2>4. Along(marked, R)
    <3>1. Along(s, R)
      BY <1>1, <2>3, EnabledOnes
    <3>2. QED
      BY <1>3, <3>1, Kept
  <2>5. ASSUME Len(marked) > 1 PROVE FALSE
    <3>1. 1 \in 1..Len(marked) /\ 2 \in 1..Len(marked) /\ 1 < 2
      BY <2>5
    <3>2. PICK x : x = <<marked[1], marked[2]>>
      OBVIOUS
    <3>3. x \in R
      BY <2>4, <3>1, <3>2 DEF Along
    <3>4. marked[1] \in kept /\ marked[2] \in kept
      BY <1>3, <3>1, Elements
    <3>5. marked[1].default /\ marked[2].default
      BY <1>2, <3>4
    <3>6. x[1] = marked[1] /\ x[2] = marked[2]
      BY <3>2
    <3>7. QED
      BY <2>2, <3>3, <3>5, <3>6
  <2>6. QED
    BY <2>5
<1> DEFINE One == \A i, j \in DOMAIN c : (c[i].enabled /\ c[j].enabled) => i = j
<1>6. \A b : b \in ToSet(s) <=> b \in ToSet(c) /\ b.enabled
  BY <1>1, EnabledOnes
<1>7. One => Len(s) <= 1
  <2> SUFFICES ASSUME One, Len(s) > 1 PROVE FALSE
    OBVIOUS
  <2> DEFINE Q == {x \in Backend \X Backend : ~(x[1].enabled /\ x[2].enabled)}
  <2>1. ASSUME NEW i \in 1..Len(c), NEW j \in 1..Len(c), i < j PROVE <<c[i], c[j]>> \in Q
    <3>1. c[i] \in Backend /\ c[j] \in Backend
      BY ElementOfSeq
    <3>2. i \in DOMAIN c /\ j \in DOMAIN c /\ i # j
      BY <2>1
    <3>3. ~(c[i].enabled /\ c[j].enabled)
      BY <3>2
    <3>4. QED
      BY <3>1, <3>3
  <2>2. \A x \in Q : ~(x[1].enabled /\ x[2].enabled)
    OBVIOUS
  <2> HIDE DEF Q
  <2>3. Along(s, Q)
    BY <1>1, <2>1, EnabledOnes DEF Along
  <2>4. 1 \in 1..Len(s) /\ 2 \in 1..Len(s) /\ 1 < 2
    OBVIOUS
  <2>5. PICK x : x = <<s[1], s[2]>>
    OBVIOUS
  <2>6. x \in Q
    BY <2>3, <2>4, <2>5 DEF Along
  <2>7. s[1] \in ToSet(s) /\ s[2] \in ToSet(s)
    BY <2>4, Elements
  <2>8. s[1].enabled /\ s[2].enabled
    BY <1>6, <2>7
  <2>9. x[1] = s[1] /\ x[2] = s[2]
    BY <2>5
  <2>10. QED
    BY <2>2, <2>6, <2>8, <2>9
<1>8. Len(s) = 1 => One
  <2> SUFFICES ASSUME Len(s) = 1, NEW i \in DOMAIN c, NEW j \in DOMAIN c,
                      c[i].enabled, c[j].enabled, i # j
               PROVE  FALSE
    OBVIOUS
  <2>1. PICK on : on = {b \in ToSet(c) : b.enabled}
    OBVIOUS
  <2>2. s = Keep(c, on)
    BY <1>1, <2>1 DEF Enabled
  <2>3. i \in 1..Len(c) /\ j \in 1..Len(c)
    BY LenProperties
  <2>4. c[i] \in on /\ c[j] \in on
    BY <2>1, <2>3, Elements
  <2>5. CASE i < j
    <3>1. PICK m : m = Len(Keep(c, on))
      OBVIOUS
    <3>2. m >= 2
      BY <2>3, <2>4, <2>5, <3>1, KeptTwo
    <3>3. m = 1
      BY <2>2, <3>1, Zenon
    <3>4. QED
      BY <3>2, <3>3
  <2>6. CASE j < i
    <3>1. PICK m : m = Len(Keep(c, on))
      OBVIOUS
    <3>2. m >= 2
      BY <2>3, <2>4, <2>6, <3>1, KeptTwo
    <3>3. m = 1
      BY <2>2, <3>1, Zenon
    <3>4. QED
      BY <3>2, <3>3
  <2>7. QED
    BY <2>3, <2>5, <2>6
<1>9. \A b : IsDefault(c, b) <=> b.enabled /\ (b.default \/ One)
  BY DEF IsDefault
<1> HIDE DEF One
<1>10. \A b : b \in ToSet(marked) <=> b \in ToSet(c) /\ b.enabled /\ b.default
  BY <1>2, <1>3, <1>6
<1>11. marked = <<>> <=> \A b : b \notin ToSet(marked)
  BY Elements
<1>12. \A b : b \in ToSet(s) => Len(s) >= 1
  BY Elements, EmptySeq, LenProperties
<1>13. Len(s) \in Nat
  BY LenProperties
<1>14. CASE marked = <<>> /\ Len(s) = 1
  <2>1. DefaultBackend(c) = s
    BY <1>4, <1>14
  <2>2. Len(s) <= 1
    BY <1>14
  <2>3. \A b : b \in ToSet(s) <=> b \in ToSet(c) /\ IsDefault(c, b)
    BY <1>6, <1>8, <1>9, <1>14
  <2>4. QED
    BY <1>1, <2>1, <2>2, <2>3
<1>15. CASE ~(marked = <<>> /\ Len(s) = 1)
  <2>1. DefaultBackend(c) = marked
    BY <1>4, <1>15
  <2>2. ToSet(marked) \subseteq ToSet(s)
    BY <1>3
  <2>3. ASSUME NEW b, b \in ToSet(c), IsDefault(c, b) PROVE b \in ToSet(marked)
    <3>1. b.enabled /\ (b.default \/ One)
      BY <1>9, <2>3
    <3>2. CASE b.default
      BY <1>10, <2>3, <3>1, <3>2
    <3>3. CASE One
      <4>1. Len(s) = 1
        <5>1. Len(s) <= 1
          BY <1>7, <3>3, Zenon
        <5>2. Len(s) >= 1
          BY <1>6, <1>12, <2>3, <3>1, Zenon
        <5>3. PICK m \in Nat : m = Len(s)
          BY <1>13
        <5>4. m <= 1 /\ m >= 1
          BY <5>1, <5>2, <5>3
        <5>5. QED
          BY <5>3, <5>4
      <4>2. PICK d : d \in ToSet(marked)
        BY <1>11, <1>15, <4>1
      <4>3. d \in ToSet(s) /\ b \in ToSet(s)
        BY <1>6, <2>2, <2>3, <3>1, <4>2
      <4>4. d = b
        <5>1. \A x : x \in ToSet(s) => x = s[1]
          <6>1. \A x : x \in ToSet(s) <=> \E k \in 1..1 : s[k] = x
            BY <4>1, Elements
          <6>2. \A k \in 1..1 : k = 1
            OBVIOUS
          <6>3. QED
            BY <6>1, <6>2
        <5>2. QED
          BY <4>3, <5>1
      <4>5. QED
        BY <4>2, <4>4
    <3>4. QED
      BY <3>1, <3>2, <3>3
  <2>4. \A b : b \in ToSet(marked) => b \in ToSet(c) /\ IsDefault(c, b)
    BY <1>9, <1>10
  <2>5. QED
    BY <1>1, <1>5, <2>1, <2>2, <2>3, <2>4
<1>16. QED
  BY <1>14, <1>15

\* The backends that offer a model, and those of them that come no later.
Offers(c, model) == {b \in ToSet(c) : b.enabled /\ model # "" /\ Names(b, model) # {}}
NoLater(c, b, d) == \E p \in {i \in DOMAIN c : c[i] = b}, q \in {i \in DOMAIN c : c[i] = d} : p <= q

LEMMA NamesListed ==
    ASSUME NEW b \in Backend, UniqueModels(b), NEW model \in STRING, model # ""
    PROVE  /\ Names(b, model) # {} <=> \E e : e \in ToSet(Registered(b, model))
           /\ Names(b, model) # {} => Cardinality(Names(b, model)) = 1
           /\ \A e \in ToSet(Registered(b, model)) :
                 e \in Entry /\ e.backend = b /\ Names(b, model) = {Forwarded(e, model)}
<1> DEFINE Name(m) == IF m.name = "" THEN model ELSE m.name
<1>1. PICK ms : ms = ToSet(b.models)
  OBVIOUS
<1>2. Names(b, model) = {Name(m) : m \in {m \in ms : GoesByAlias(m, model)}}
  BY <1>1 DEF Names, GoesByAlias
<1>3. \A m \in ms : m \in Model
  <2>1. b.models \in Seq(Model)
    BY EntryTypes
  <2>2. QED
    BY <1>1, <2>1, Elements
<1>4. \A m \in ms : Forwarded(EntryOf(b, m), model) = Name(m)
  BY DEF Forwarded, EntryOf
<1> HIDE DEF Name
<1>5. \A m1, m2 \in ms : GoesByAlias(m1, model) /\ GoesByAlias(m2, model) => m1 = m2
  BY <1>1, OneGoesBy
<1>6. \A e : e \in ToSet(Registered(b, model))
                <=> \E m \in ms : GoesByAlias(m, model) /\ e = EntryOf(b, m)
  <2>1. \A e : e \in ToSet(Registered(b, model))
                 <=> \E m \in ToSet(b.models) : GoesByAlias(m, model) /\ e = EntryOf(b, m)
    BY RegisteredOnes
  <2>2. QED
    BY <1>1, <2>1
<1>7. ASSUME NEW m \in ms, GoesByAlias(m, model) PROVE Names(b, model) = {Name(m)}
  BY <1>2, <1>5, <1>7
<1>8. Names(b, model) # {} <=> \E e : e \in ToSet(Registered(b, model))
  BY <1>2, <1>6
<1>9. ASSUME Names(b, model) # {} PROVE Cardinality(Names(b, model)) = 1
  <2>1. PICK m \in ms : GoesByAlias(m, model)
    BY <1>2, <1>9
  <2>2. QED
    BY <1>7, <2>1, FS_Singleton
<1>10. ASSUME NEW e \in ToSet(Registered(b, model))
       PROVE  e \in Entry /\ e.backend = b /\ Names(b, model) = {Forwarded(e, model)}
  <2>1. PICK m \in ms : GoesByAlias(m, model) /\ e = EntryOf(b, m)
    BY <1>6
  <2>2. Names(b, model) = {Name(m)} /\ Forwarded(e, model) = Name(m)
    BY <1>4, <1>7, <2>1
  <2>3. QED
    BY <1>3, <2>1, <2>2, EntryTypes
<1>11. QED
  BY <1>8, <1>9, <1>10

\* What CandidatesAreExact says of the candidates of a request by its model.
Exact(c, model, cands) ==
    LET offers == Offers(c, model)
    IN  /\ offers = {} =>
             /\ Len(cands) <= 1
             /\ {e.backend : e \in ToSet(cands)} = {b \in ToSet(c) : IsDefault(c, b)}
             /\ \A e \in ToSet(cands) : Forwarded(e, model) = model
        /\ offers # {} =>
             /\ \A b \in offers : Cardinality(Names(b, model)) = 1
             /\ {e.backend : e \in ToSet(cands)} = offers
             /\ \A b \in offers :
                   {Forwarded(e, model) : e \in {e \in ToSet(cands) : e.backend = b}} = Names(b, model)
             /\ \A i, j \in DOMAIN cands : i < j =>
                   \/ cands[i].backend.priority < cands[j].backend.priority
                   \/ /\ cands[i].backend.priority = cands[j].backend.priority
                      /\ NoLater(c, cands[i].backend, cands[j].backend)

LEMMA ResolvedOnes ==
    ASSUME NEW c \in Seq(Backend), \A i \in DOMAIN c : UniqueModels(c[i]),
           NEW model \in STRING, model # ""
    PROVE  /\ ResolveCandidates(c, model) # <<>> <=> Offers(c, model) # {}
           /\ Offers(c, model) # {} => Exact(c, model, ResolveCandidates(c, model))
           /\ \A b \in Offers(c, model) : \E e \in ToSet(ResolveCandidates(c, model)) : e.backend = b
           /\ \A e \in ToSet(ResolveCandidates(c, model)) :
                 /\ e.backend \in Offers(c, model)
                 /\ Names(e.backend, model) = {Forwarded(e, model)}
<1>1. PICK s \in Seq(Entry) :
         /\ s = ResolveCandidates(c, model)
         /\ \A e : e \in ToSet(s) <=> \E b \in ToSet(c) : b.enabled /\ e \in ToSet(Registered(b, model))
         /\ Along(s, Ranks(Entry, InOrder(c)))
  BY Candidates
<1>2. \A b \in ToSet(c) : b \in Backend /\ UniqueModels(b)
  <2>1. \A i \in 1..Len(c) : c[i] \in Backend /\ UniqueModels(c[i])
    BY ElementOfSeq, LenProperties
  <2>2. \A b : b \in ToSet(c) <=> \E i \in 1..Len(c) : c[i] = b
    BY Elements
  <2>3. QED
    BY <2>1, <2>2
<1>3. PICK offers : offers = Offers(c, model)
  OBVIOUS
<1>4. \A b : b \in offers <=> b \in ToSet(c) /\ b.enabled /\ Names(b, model) # {}
  BY <1>3 DEF Offers
<1>5. \A b \in ToSet(c) : Names(b, model) # {} <=> \E e : e \in ToSet(Registered(b, model))
  BY <1>2, NamesListed
<1>6. \A b \in ToSet(c) : Names(b, model) # {} => Cardinality(Names(b, model)) = 1
  BY <1>2, NamesListed
<1>7. \A b \in ToSet(c) : \A e \in ToSet(Registered(b, model)) :
         e.backend = b /\ Names(b, model) = {Forwarded(e, model)}
  BY <1>2, NamesListed
<1>8. ASSUME NEW e \in ToSet(s)
      PROVE  e.backend \in offers /\ Names(e.backend, model) = {Forwarded(e, model)}
  <2>1. PICK b \in ToSet(c) : b.enabled /\ e \in ToSet(Registered(b, model))
    BY <1>1
  <2>2. e.backend = b /\ Names(b, model) = {Forwarded(e, model)}
    BY <1>7, <2>1
  <2>3. b \in offers
    BY <1>4, <1>5, <2>1
  <2>4. QED
    BY <2>2, <2>3
<1>9. ASSUME NEW b \in offers PROVE \E e \in ToSet(s) : e.backend = b
  <2>1. b \in ToSet(c) /\ b.enabled
    BY <1>4
  <2>2. PICK e : e \in ToSet(Registered(b, model))
    BY <1>4, <1>5
  <2>3. e \in ToSet(s)
    BY <1>1, <2>1, <2>2
  <2>4. QED
    BY <1>7, <2>1, <2>2, <2>3
<1>10. s # <<>> <=> offers # {}
  <2>1. s = <<>> <=> ToSet(s) = {}
    BY Elements
  <2>2. QED
    BY <1>8, <1>9, <2>1
<1>11. {e.backend : e \in ToSet(s)} = offers
  BY <1>8, <1>9
<1>12. ASSUME NEW b \in offers
       PROVE  {Forwarded(e, model) : e \in {e \in ToSet(s) : e.backend = b}} = Names(b, model)
  <2>1. PICK e \in ToSet(s) : e.backend = b
    BY <1>9
  <2>2. \A d \in ToSet(s) : d.backend = b => Names(b, model) = {Forwarded(d, model)}
    BY <1>8
  <2>3. QED
    BY <2>1, <2>2
<1>13. ASSUME NEW i \in DOMAIN s, NEW j \in DOMAIN s, i < j
       PROVE  \/ s[i].backend.priority < s[j].backend.priority
              \/ /\ s[i].backend.priority = s[j].backend.priority
                 /\ NoLater(c, s[i].backend, s[j].backend)
  <2>1. i \in 1..Len(s) /\ j \in 1..Len(s)
    BY LenProperties
  <2>2. PICK x \in Entry, y \in Entry : x = s[i] /\ y = s[j]
    BY <2>1, ElementOfSeq
  <2>3. <<x, y>> \in Ranks(Entry, InOrder(c))
    BY <1>1, <1>13, <2>1, <2>2 DEF Along
  <2>4. Priority(x) < Priority(y) \/ (Priority(x) = Priority(y) /\ <<x, y>> \in InOrder(c))
    BY <2>3, RanksDef
  <2>5. ASSUME <<x, y>> \in InOrder(c) PROVE NoLater(c, x.backend, y.backend)
    <3>1. PICK z : z = <<x, y>>
      OBVIOUS
    <3>2. z[1] = x /\ z[2] = y
      BY <3>1
    <3>3. \E p, q \in 1..Len(c) : p <= q /\ c[p] = z[1].backend /\ c[q] = z[2].backend
      BY <2>5, <3>1 DEF InOrder
    <3>4. DOMAIN c = 1..Len(c)
      BY LenProperties
    <3>5. QED
      BY <3>2, <3>3, <3>4 DEF NoLater
  <2>6. QED
    BY <2>2, <2>4, <2>5 DEF Priority
<1>14. offers # {} => Exact(c, model, s)
  <2>1. \A b \in offers : Cardinality(Names(b, model)) = 1
    BY <1>4, <1>6
  <2>2. QED
    BY <1>3, <1>11, <1>12, <1>13, <2>1 DEF Exact
<1>15. QED
  BY <1>1, <1>3, <1>8, <1>9, <1>10, <1>14

\* An entry names its backend's model for the model that was asked for.
Mapped(e, model) ==
    (model # "" /\ Names(e.backend, model) # {}) => Forwarded(e, model) \in Names(e.backend, model)

LEMMA ByModelOnes ==
    ASSUME NEW c \in Seq(Backend), Accepted(c), NEW model \in STRING
    PROVE  /\ ByModel(c, model) \in Seq(Entry)
           /\ \A e \in ToSet(ByModel(c, model)) :
                 e.backend \in ToSet(c) /\ e.backend.enabled /\ Mapped(e, model)
           /\ Exact(c, model, ByModel(c, model))
<1>1. \A i \in DOMAIN c : UniqueModels(c[i])
  BY DEF Accepted
<1>2. PICK s \in Seq(Entry) : s = ResolveCandidates(c, model)
  BY Candidates
<1>3. PICK cands : cands = ByModel(c, model)
  OBVIOUS
<1>4. CASE model # "" /\ s # <<>>
  <2>1. cands = s
    BY <1>2, <1>3, <1>4 DEF ByModel
  <2>2. /\ Exact(c, model, s)
        /\ \A e \in ToSet(s) :
              /\ e.backend \in Offers(c, model)
              /\ Names(e.backend, model) = {Forwarded(e, model)}
    BY <1>1, <1>2, <1>4, ResolvedOnes
  <2>3. \A b \in Offers(c, model) : b \in ToSet(c) /\ b.enabled
    BY DEF Offers
  <2>4. \A e \in ToSet(s) : e.backend \in ToSet(c) /\ e.backend.enabled /\ Mapped(e, model)
    BY <2>2, <2>3 DEF Mapped
  <2>5. QED
    BY <1>3, <2>1, <2>2, <2>4
<1>5. CASE ~(model # "" /\ s # <<>>)
  <2>1. PICK d \in Seq(Backend) :
           /\ d = DefaultBackend(c) /\ Len(d) <= 1
           /\ \A b \in ToSet(d) : b \in ToSet(c) /\ b.enabled
           /\ \A b : b \in ToSet(d) <=> b \in ToSet(c) /\ IsDefault(c, b)
    BY DefaultOnes, EnabledOnes DEF Accepted
  <2>2. PICK n \in Nat : n = Len(d) /\ DOMAIN d = 1..n /\ n <= 1
    BY <2>1, LenProperties
  <2>3. \A i \in 1..n : d[i] \in Backend /\ d[i] \in ToSet(d)
    BY <2>2, ElementOfSeq, Elements
  <2>4. cands = [i \in 1..n |-> [backend |-> d[i], model |-> model]]
    BY <1>2, <1>3, <1>5, <2>1, <2>2 DEF ByModel
  <2>5. cands \in Seq(Entry) /\ Len(cands) = n
    <3>1. cands \in [1..n -> Entry]
      BY <2>3, <2>4 DEF Entry
    <3>2. QED
      BY <3>1, FunctionIsSeq
  <2>6. /\ \A e \in ToSet(cands) :
              e.backend \in ToSet(c) /\ e.backend.enabled /\ Forwarded(e, model) = model
        /\ {e.backend : e \in ToSet(cands)} = {b \in ToSet(c) : IsDefault(c, b)}
    <3>1. PICK v \in Seq(Entry) : v = cands /\ Len(v) = n
      BY <2>5
    <3>2. \A e : e \in ToSet(v) <=> \E i \in 1..n : v[i] = e
      BY <3>1, Elements
    <3>3. \A i \in 1..n : v[i].backend = d[i] /\ v[i].model = model
      BY <2>4, <3>1
    <3>4. \A e \in ToSet(v) : e.backend \in ToSet(d) /\ Forwarded(e, model) = model
      <4>1. ASSUME NEW e, e \in ToSet(v) PROVE e.backend \in ToSet(d) /\ e.model = model
        <5>1. PICK i \in 1..n : v[i] = e
          BY <3>2, <4>1
        <5>2. QED
          BY <2>3, <3>3, <5>1
      <4>2. QED
        BY <4>1 DEF Forwarded
    <3>5. \A b \in ToSet(d) : \E e \in ToSet(v) : e.backend = b
      <4>1. \A b : b \in ToSet(d) <=> \E i \in 1..n : d[i] = b
        BY <2>2, Elements
      <4>2. ASSUME NEW b, b \in ToSet(d) PROVE \E e \in ToSet(v) : e.backend = b
        <5>1. PICK i \in 1..n : d[i] = b
          BY <4>1, <4>2
        <5>2. PICK e : e = v[i]
          OBVIOUS
        <5>3. e \in ToSet(v) /\ e.backend = b
          BY <3>2, <3>3, <5>1, <5>2
        <5>4. QED
          BY <5>3
      <4>3. QED
        BY <4>2
    <3>6. {e.backend : e \in ToSet(v)} = {b \in ToSet(c) : IsDefault(c, b)}
      BY <2>1, <3>4, <3>5
    <3>7. QED
      BY <2>1, <3>1, <3>4, <3>6
  <2>7. Offers(c, model) = {}
    <3>1. CASE model = ""
      BY <3>1 DEF Offers
    <3>2. CASE model # ""
      BY <1>1, <1>2, <1>5, <3>2, ResolvedOnes
    <3>3. QED
      BY <3>1, <3>2
  <2>8. \A e \in ToSet(cands) : Mapped(e, model)
    BY <2>6, <2>7 DEF Mapped, Offers
  <2>9. Exact(c, model, cands)
    BY <2>2, <2>5, <2>6, <2>7 DEF Exact
  <2>10. QED
    BY <1>3, <2>5, <2>6, <2>8, <2>9
<1>6. QED
  BY <1>4, <1>5

\* Within the backend of the prefix a model is found iff that backend offers
\* it, and under the name it has there.
LEMMA WithinOnes ==
    ASSUME NEW c \in Seq(Backend), Accepted(c), NEW model \in STRING, model # "",
           NEW b \in ToSet(c), b.enabled
    PROVE  /\ Within(c, model, b) \in Seq(Entry)
           /\ Within(c, model, b) = <<>> => Names(b, model) = {}
           /\ Within(c, model, b) # <<>> =>
                 /\ Within(c, model, b)[1] \in Entry
                 /\ Names(b, model) = {Forwarded(Within(c, model, b)[1], model)}
<1>1. \A i \in DOMAIN c : UniqueModels(c[i])
  BY DEF Accepted
<1>2. PICK s \in Seq(Entry) : s = ResolveCandidates(c, model)
  BY Candidates
<1>3. /\ \A d \in Offers(c, model) : \E e \in ToSet(s) : e.backend = d
      /\ \A e \in ToSet(s) : Names(e.backend, model) = {Forwarded(e, model)}
  BY <1>1, <1>2, ResolvedOnes
<1>4. PICK kept : kept = {e \in ToSet(s) : e.backend = b}
  OBVIOUS
<1>5. PICK found \in Seq(Entry) : found = Keep(s, kept) /\ ToSet(found) = ToSet(s) \cap kept
  BY Kept
<1>6. Within(c, model, b) = found
  BY <1>2, <1>4, <1>5 DEF Within
<1>7. ASSUME found = <<>> PROVE Names(b, model) = {}
  <2>1. ToSet(found) = {}
    BY <1>7, Elements
  <2>2. b \notin Offers(c, model)
    BY <1>3, <1>4, <1>5, <2>1
  <2>3. QED
    BY <2>2 DEF Offers
<1>8. ASSUME found # <<>> PROVE found[1] \in Entry /\ Names(b, model) = {Forwarded(found[1], model)}
  <2>1. PICK e : e = found[1]
    OBVIOUS
  <2>2. e \in ToSet(found) /\ e \in Entry
    BY <1>8, <2>1, FirstElement
  <2>3. QED
    BY <1>3, <1>4, <1>5, <2>1, <2>2
<1>9. QED
  BY <1>6, <1>7, <1>8

-----------------------------------------------------------------------------
(* The requests, while configurations replace each other.                     *)

Active == [pc : {"not_found", "prefix", "select", "forward"}, path : Paths, model : Models,
           in : Configs, gen : Nat, cands : Seq(Entry), ordered : Seq(Entry),
           healthy : SUBSET STRING]

ByItsPrefix(q) == Len(q.cands) = 1 /\ MatchByPrefix(q.in, q.path) = {q.cands[1].backend}

\* The locals of a request that is under way, with c and g in force: what it
\* was routed by is what its snapshot says, whatever is in force by now.
Fine(q, c, g) ==
    q.pc # "idle" =>
       /\ Accepted(q.in) /\ q.gen <= g /\ (q.gen = g => q.in = c)
       /\ q.pc = "prefix" => ByItsPrefix(q) /\ q.cands[1].model = q.model
       /\ q.pc \in {"select", "forward"} =>
             \/ ByItsPrefix(q) /\ (q.gen = g => \A e \in ToSet(q.cands) : Mapped(e, q.model))
             \/ /\ MatchByPrefix(q.in, q.path) = {} /\ q.cands # <<>>
                /\ q.cands = ByModel(q.in, q.model)
       /\ q.pc = "not_found" =>
             /\ MatchByPrefix(q.in, q.path) = {} /\ q.cands = <<>>
             /\ q.cands = ByModel(q.in, q.model)

RoutingInv == /\ conf \in Configs /\ Accepted(conf) /\ gen \in Nat
              /\ req \in [Requests -> Active \cup {Idle}]
              /\ \A r \in Requests : Fine(req[r], conf, gen)

LEMMA ConfigTypes ==
    /\ \A c \in Configs : c \in Seq(Backend)
    /\ \A c \in StartConfigs : c \in Configs /\ Accepted(c)
    /\ \A path \in Paths : path \in Seq(STRING)
    /\ \A model \in Models : model \in STRING
BY RoutingAssumption

LEMMA ActiveTypes ==
    /\ \A q \in Active :
          /\ q.pc \in {"not_found", "prefix", "select", "forward"} /\ q.pc # "idle" /\ q # Idle
          /\ q.path \in Paths /\ q.model \in Models /\ q.in \in Configs /\ q.gen \in Nat
          /\ q.cands \in Seq(Entry) /\ q.ordered \in Seq(Entry) /\ q.healthy \in SUBSET STRING
    /\ Idle.pc = "idle" /\ \A c, g : Fine(Idle, c, g)
BY DEF Active, Idle, Fine

\* A sequence of one entry.
LEMMA OneEntry ==
    ASSUME NEW b \in Backend, NEW m \in STRING
    PROVE  /\ <<[backend |-> b, model |-> m]>> \in Seq(Entry)
           /\ Len(<<[backend |-> b, model |-> m]>>) = 1
           /\ <<[backend |-> b, model |-> m]>>[1] = [backend |-> b, model |-> m]
           /\ ToSet(<<[backend |-> b, model |-> m]>>) = {[backend |-> b, model |-> m]}
<1>1. PICK e \in Entry : e = [backend |-> b, model |-> m]
  BY DEF Entry
<1>2. <<e>> \in Seq(Entry)
  <2>1. <<e>> = Append(<<>>, e) /\ <<>> \in Seq(Entry)
    OBVIOUS
  <2>2. QED
    BY <2>1, AppendProperties
<1>3. Len(<<e>>) = 1 /\ <<e>>[1] = e
  OBVIOUS
<1>4. ToSet(<<e>>) = {e}
  BY <1>3 DEF ToSet
<1>5. QED
  BY <1>1, <1>2, <1>3, <1>4

LEMMA RequestStep ==
    ASSUME RoutingInv, NEW r \in Requests, NEW q \in Active \cup {Idle}, Fine(q, conf, gen),
           req' = [req EXCEPT ![r] = q], conf' = conf, gen' = gen
    PROVE  RoutingInv'
<1>1. req' \in [Requests -> Active \cup {Idle}]
  BY DEF RoutingInv
<1>2. ASSUME NEW s \in Requests PROVE Fine(req'[s], conf, gen)
  BY DEF RoutingInv
<1>3. QED
  BY <1>1, <1>2 DEF RoutingInv

LEMMA RouteStep ==
    ASSUME RoutingInv, NEW r \in Requests, Route(r)
    PROVE  RoutingInv'
<1>1. conf \in Configs /\ conf \in Seq(Backend) /\ Accepted(conf) /\ gen \in Nat
  BY ConfigTypes DEF RoutingInv
<1> DEFINE Cands(path, model) ==
               IF MatchByPrefix(conf, path) = {} THEN ByModel(conf, model)
               ELSE <<[backend |-> CHOOSE b \in MatchByPrefix(conf, path) : TRUE, model |-> model]>>
           Locals(path, model) ==
               [pc |-> IF MatchByPrefix(conf, path) # {} THEN "prefix"
                       ELSE IF Cands(path, model) = <<>> THEN "not_found" ELSE "select",
                path |-> path, model |-> model, in |-> conf, gen |-> gen,
                cands |-> Cands(path, model), ordered |-> <<>>, healthy |-> {}]
<1>2. PICK path, model, best, cands, q :
         /\ path \in Paths /\ model \in Models
         /\ best = MatchByPrefix(conf, path)
         /\ cands = IF best = {} THEN ByModel(conf, model)
                    ELSE <<[backend |-> CHOOSE b \in best : TRUE, model |-> model]>>
         /\ q = [pc |-> IF best # {} THEN "prefix" ELSE IF cands = <<>> THEN "not_found" ELSE "select",
                 path |-> path, model |-> model, in |-> conf, gen |-> gen, cands |-> cands,
                 ordered |-> <<>>, healthy |-> {}]
         /\ req' = [req EXCEPT ![r] = q] /\ conf' = conf /\ gen' = gen
  <2>1. conf' = conf /\ gen' = gen
    BY DEF Route
  <2>2. PICK path \in Paths, model \in Models : req' = [req EXCEPT ![r] = Locals(path, model)]
    BY Zenon DEF Route
  <2>3. PICK best : best = MatchByPrefix(conf, path)
    OBVIOUS
  <2>4. PICK cands : cands = IF best = {} THEN ByModel(conf, model)
                             ELSE <<[backend |-> CHOOSE b \in best : TRUE, model |-> model]>>
    OBVIOUS
  <2>5. cands = Cands(path, model)
    BY <2>3, <2>4
  <2>6. PICK q :
           q = [pc |-> IF best # {} THEN "prefix" ELSE IF cands = <<>> THEN "not_found" ELSE "select",
                path |-> path, model |-> model, in |-> conf, gen |-> gen, cands |-> cands,
                ordered |-> <<>>, healthy |-> {}]
    OBVIOUS
  <2>7. q = Locals(path, model)
    BY <2>3, <2>5, <2>6
  <2>8. QED
    BY <2>1, <2>2, <2>3, <2>4, <2>6, <2>7, ZenonT(60)
<1> HIDE DEF Cands, Locals
<1>3. path \in Seq(STRING) /\ model \in STRING
  BY <1>2, ConfigTypes
<1>4. cands \in Seq(Entry) /\ (best # {} => Len(cands) = 1 /\ best = {cands[1].backend} /\ cands[1].model = model)
  <2>1. CASE best = {}
    BY <1>1, <1>2, <1>3, <2>1, ByModelOnes
  <2>2. CASE best # {}
    <3>1. PICK b \in Backend : best = {b}
      BY <1>1, <1>2, <1>3, <2>2, MatchIsLongest
    <3>2. cands = <<[backend |-> b, model |-> model]>>
      BY <1>2, <3>1
    <3>3. QED
      BY <1>3, <3>1, <3>2, OneEntry
  <2>3. QED
    BY <2>1, <2>2
<1>5. q \in Active
  BY <1>1, <1>2, <1>4 DEF Active
<1>6. Fine(q, conf, gen)
  <2>1. /\ q.in = conf /\ q.gen = gen /\ q.path = path /\ q.model = model /\ q.cands = cands
        /\ q.pc = IF best # {} THEN "prefix" ELSE IF cands = <<>> THEN "not_found" ELSE "select"
    BY <1>2
  <2>2. Accepted(q.in) /\ q.gen <= gen /\ (q.gen = gen => q.in = conf)
    BY <1>1, <2>1
  <2>3. q.pc = "prefix" => ByItsPrefix(q) /\ q.cands[1].model = q.model
    BY <1>2, <1>4, <2>1 DEF ByItsPrefix
  <2>4. q.pc \in {"select", "forward"} =>
           MatchByPrefix(q.in, q.path) = {} /\ q.cands # <<>> /\ q.cands = ByModel(q.in, q.model)
    BY <1>2, <2>1
  <2>5. q.pc = "not_found" =>
           MatchByPrefix(q.in, q.path) = {} /\ q.cands = <<>> /\ q.cands = ByModel(q.in, q.model)
    BY <1>2, <2>1
  <2>6. QED
    BY <2>2, <2>3, <2>4, <2>5 DEF Fine
<1>7. QED
  BY <1>2, <1>5, <1>6, RequestStep

\* The name under which handleWithBackend asks its backend: with the snapshot
\* the request was routed by, the name the model has there.
LEMMA PrefixResolveStep ==
    ASSUME RoutingInv, NEW r \in Requests, PrefixResolve(r)
    PROVE  RoutingInv'
<1>1. PICK q : q = req[r]
  OBVIOUS
<1>2. q \in Active /\ q.pc = "prefix" /\ Fine(q, conf, gen)
  BY <1>1, ActiveTypes DEF PrefixResolve, RoutingInv
<1>3. /\ Accepted(q.in) /\ q.gen <= gen /\ (q.gen = gen => q.in = conf)
      /\ Len(q.cands) = 1 /\ MatchByPrefix(q.in, q.path) = {q.cands[1].backend}
  BY <1>2 DEF Fine, ByItsPrefix
<1>4. q.in \in Seq(Backend) /\ q.path \in Seq(STRING) /\ q.model \in STRING
  BY <1>2, ActiveTypes, ConfigTypes
<1>5. PICK b \in Backend :
         /\ b = q.cands[1].backend /\ MatchByPrefix(q.in, q.path) = {b}
         /\ b \in ToSet(q.in) /\ b.enabled
  BY <1>3, <1>4, MatchIsLongest
<1>6. PICK found :
         found = IF gen = q.gen /\ q.model # "" THEN Within(conf, q.model, b) ELSE <<>>
  OBVIOUS
<1>7. PICK model : model = IF found = <<>> \/ found[1].model = "" THEN q.model ELSE found[1].model
  OBVIOUS
<1>8. PICK cands : cands = <<[backend |-> b, model |-> model]>>
  OBVIOUS
<1>9. PICK p : p = [q EXCEPT !.pc = "select", !.cands = cands]
  BY Zenon
<1>10. req' = [req EXCEPT ![r] = p] /\ conf' = conf /\ gen' = gen
  BY <1>1, <1>5, <1>6, <1>7, <1>8, <1>9, Zenon DEF PrefixResolve
<1>11. gen = q.gen /\ q.model # "" =>
          /\ found # <<>> => found[1] \in Entry /\ Names(b, q.model) = {Forwarded(found[1], q.model)}
          /\ found = <<>> => Names(b, q.model) = {}
  <2>1. SUFFICES ASSUME gen = q.gen, q.model # ""
                 PROVE  /\ found # <<>> => found[1] \in Entry /\ Names(b, q.model) = {Forwarded(found[1], q.model)}
                        /\ found = <<>> => Names(b, q.model) = {}
    OBVIOUS
  <2>2. found = Within(q.in, q.model, b)
    BY <1>3, <1>6, <2>1
  <2>3. QED
    BY <1>3, <1>4, <1>5, <2>1, <2>2, WithinOnes
<1>12. model \in STRING
  BY <1>4, <1>6, <1>7, <1>11 DEF Entry
<1>13. /\ cands \in Seq(Entry) /\ Len(cands) = 1 /\ cands[1] = [backend |-> b, model |-> model]
       /\ ToSet(cands) = {[backend |-> b, model |-> model]}
  BY <1>8, <1>12, OneEntry
<1>14. gen = q.gen => Mapped([backend |-> b, model |-> model], q.model)
  <2>1. SUFFICES ASSUME gen = q.gen, q.model # "", Names(b, q.model) # {}
                 PROVE  (IF model = "" THEN q.model ELSE model) \in Names(b, q.model)
    BY DEF Mapped, Forwarded
  <2>2. found # <<>> /\ Names(b, q.model) = {IF found[1].model = "" THEN q.model ELSE found[1].model}
    BY <1>11, <2>1 DEF Forwarded
  <2>3. QED
    BY <1>7, <2>1, <2>2
<1>15. /\ p \in Active
       /\ p.pc = "select" /\ p.in = q.in /\ p.gen = q.gen /\ p.path = q.path /\ p.model = q.model
       /\ p.cands = cands
  BY <1>2, <1>9, <1>13 DEF Active
<1>16. Fine(p, conf, gen)
  <2>1. ByItsPrefix(p)
    BY <1>5, <1>13, <1>15 DEF ByItsPrefix
  <2>2. p.gen = gen => \A e \in ToSet(p.cands) : Mapped(e, p.model)
    BY <1>13, <1>14, <1>15
  <2>3. QED
    BY <1>3, <1>15, <2>1, <2>2 DEF Fine
<1>17. QED
  BY <1>10, <1>15, <1>16, RequestStep

LEMMA SelectStep ==
    ASSUME RoutingInv, NEW r \in Requests, Select(r)
    PROVE  RoutingInv'
<1>1. PICK q : q = req[r]
  OBVIOUS
<1>2. q \in Active /\ q.pc = "select" /\ Fine(q, conf, gen)
  BY <1>1, ActiveTypes DEF Select, RoutingInv
<1>3. PICK s \in Seq(Entry) : s = q.cands
  BY <1>2, ActiveTypes
<1>4. PICK healthy \in SUBSET {e.backend.name : e \in ToSet(s)} :
         req' = [req EXCEPT ![r].pc = "forward", ![r].healthy = healthy,
                            ![r].ordered = IF SelectOrdered(s, healthy) = <<>>
                                           THEN SelectFallback(s) ELSE SelectOrdered(s, healthy)]
  BY <1>1, <1>3 DEF Select
<1>5. PICK kept : kept = {e \in ToSet(s) : e.backend.name \in healthy}
  OBVIOUS
<1>6. PICK chosen \in Seq(Entry) : chosen = SelectOrdered(s, healthy)
  BY <1>5, Kept DEF SelectOrdered
<1>7. PICK ordered \in Seq(Entry) : ordered = IF chosen = <<>> THEN s ELSE chosen
  OBVIOUS
<1>8. healthy \in SUBSET STRING
  <2>1. \A e \in ToSet(s) : e \in Entry
    BY Elements
  <2>2. \A e \in Entry : e.backend.name \in STRING
    BY DEF Entry, Backend
  <2>3. QED
    BY <2>1, <2>2
<1>9. PICK p : p = [q EXCEPT !.pc = "forward", !.healthy = healthy, !.ordered = ordered]
  OBVIOUS
<1>10. req' = [req EXCEPT ![r] = p] /\ conf' = conf /\ gen' = gen
  <2>1. conf' = conf /\ gen' = gen
    BY DEF Select
  <2>2. QED
    BY <1>1, <1>4, <1>6, <1>7, <1>9, <2>1 DEF SelectFallback
<1>11. /\ p \in Active
       /\ p.pc = "forward" /\ p.in = q.in /\ p.gen = q.gen /\ p.path = q.path /\ p.model = q.model
       /\ p.cands = q.cands
  BY <1>2, <1>8, <1>9 DEF Active
<1>12. Fine(p, conf, gen)
  BY <1>2, <1>11 DEF Fine, ByItsPrefix
<1>13. QED
  BY <1>10, <1>11, <1>12, RequestStep

LEMMA IdleStep ==
    ASSUME RoutingInv, NEW r \in Requests,
           req' = [req EXCEPT ![r] = Idle], conf' = conf, gen' = gen
    PROVE  RoutingInv'
<1>1. PICK q : q = Idle
  OBVIOUS
<1>2. q \in Active \cup {Idle} /\ Fine(q, conf, gen)
  BY <1>1, ActiveTypes
<1>3. QED
  BY <1>1, <1>2, RequestStep

\* The configuration of a snapshot outlives the one in force.
LEMMA ReloadStep ==
    ASSUME RoutingInv, Reload
    PROVE  RoutingInv'
<1>1. /\ conf' \in Configs /\ Accepted(conf') /\ gen \in Nat /\ gen' = gen + 1 /\ req' = req
  BY DEF Reload, RoutingInv
<1>2. ASSUME NEW s \in Requests PROVE Fine(req[s], conf', gen')
  <2>1. PICK q : q = req[s]
    OBVIOUS
  <2>2. q \in Active \cup {Idle} /\ Fine(q, conf, gen)
    BY <2>1 DEF RoutingInv
  <2>3. CASE q = Idle
    BY <2>1, <2>3, ActiveTypes
  <2>4. CASE q \in Active
    <3>1. q.gen \in Nat /\ q.pc # "idle"
      BY <2>4, ActiveTypes
    <3>2. q.gen <= gen
      BY <2>2, <3>1 DEF Fine
    <3>3. q.gen <= gen' /\ q.gen # gen'
      BY <1>1, <3>1, <3>2
    <3>4. QED
      BY <2>1, <2>2, <3>3 DEF Fine
  <2>5. QED
    BY <2>2, <2>3, <2>4
<1>3. QED
  BY <1>1, <1>2 DEF RoutingInv

\* Whatever a request was routed by is what its own snapshot says, through
\* every step of it, of the other requests and of the reloads.
THEOREM RoutingInvariant == Spec => []RoutingInv
<1>1. Init => RoutingInv
  <2>1. SUFFICES ASSUME Init PROVE RoutingInv
    OBVIOUS
  <2>2. conf \in StartConfigs /\ gen = 1 /\ req = [r \in Requests |-> Idle]
    BY <2>1 DEF Init, RoutingInit
  <2>3. conf \in Configs /\ Accepted(conf) /\ gen \in Nat
    BY <2>2, ConfigTypes
  <2>4. req \in [Requests -> Active \cup {Idle}]
    BY <2>2
  <2>5. \A r \in Requests : Fine(req[r], conf, gen)
    BY <2>2, ActiveTypes
  <2>6. QED
    BY <2>3, <2>4, <2>5 DEF RoutingInv
<1>2. RoutingInv /\ [Next]_vars => RoutingInv'
  <2>1. SUFFICES ASSUME RoutingInv, [Next]_vars PROVE RoutingInv'
    OBVIOUS
  <2>2. ASSUME NEW r \in Requests, Route(r) PROVE RoutingInv'
    BY <2>1, <2>2, RouteStep
  <2>3. ASSUME NEW r \in Requests, PrefixResolve(r) PROVE RoutingInv'
    BY <2>1, <2>3, PrefixResolveStep
  <2>4. ASSUME NEW r \in Requests, Select(r) PROVE RoutingInv'
    BY <2>1, <2>4, SelectStep
  <2>5. ASSUME NEW r \in Requests, Finish(r) PROVE RoutingInv'
    BY <2>1, <2>5, IdleStep DEF Finish
  <2>6. ASSUME Reload PROVE RoutingInv'
    BY <2>1, <2>6, ReloadStep
  <2>7. ASSUME NEW r \in Requests, Forward(r) PROVE RoutingInv'
    <3>1. req' = [req EXCEPT ![r] = Idle] /\ conf' = conf /\ gen' = gen
      BY <2>7 DEF Forward
    <3>2. QED
      BY <2>1, <3>1, IdleStep
  <2>8. ASSUME UNCHANGED routingVars PROVE RoutingInv'
    BY <2>1, <2>8 DEF RoutingInv, routingVars
  <2>9. ASSUME RoutingNext PROVE RoutingInv'
    BY <2>2, <2>3, <2>4, <2>5, <2>6, <2>9 DEF RoutingNext
  <2>10. ASSUME StreamOver \/ ConversationOver PROVE UNCHANGED routingVars
    BY <2>10 DEF StreamOver, ConversationOver
  <2>11. ASSUME UNCHANGED vars PROVE UNCHANGED routingVars
    BY <2>11 DEF vars
  <2>12. QED
    BY <2>1, <2>7, <2>8, <2>9, <2>10, <2>11 DEF Next
<1>3. QED
  BY <1>1, <1>2, PTL DEF Spec

-----------------------------------------------------------------------------
(* What the invariant says of a request that has been routed.                 *)

LEMMA RoutedOnes ==
    ASSUME RoutingInv, NEW r \in Requests, req[r].pc = "prefix" \/ Routed(r)
    PROVE  /\ req[r] \in Active /\ req[r].in \in Seq(Backend) /\ Accepted(req[r].in)
           /\ req[r].path \in Seq(STRING) /\ req[r].model \in STRING /\ req[r].cands \in Seq(Entry)
           /\ ByPrefix(r) <=> MatchByPrefix(req[r].in, req[r].path) # {}
           /\ \/ ByItsPrefix(req[r]) /\ (Routed(r) /\ req[r].gen = gen => MappedIn(r))
              \/ /\ ~ByPrefix(r) /\ req[r].cands # <<>>
                 /\ req[r].cands = ByModel(req[r].in, req[r].model)
<1>1. PICK q : q = req[r]
  OBVIOUS
<1>2. q \in Active /\ q.pc \in {"prefix", "select", "forward"} /\ Fine(q, conf, gen)
  BY <1>1, ActiveTypes DEF RoutingInv, Routed
<1>3. /\ q.in \in Seq(Backend) /\ Accepted(q.in) /\ q.path \in Seq(STRING)
      /\ q.model \in STRING /\ q.cands \in Seq(Entry)
  BY <1>2, ActiveTypes, ConfigTypes DEF Fine
<1>4. ByPrefix(r) <=> MatchByPrefix(q.in, q.path) # {}
  <2>1. MatchByPrefix(q.in, q.path) = {} <=> \A b \in ToSet(q.in) : ~(b.enabled /\ Matches(b, q.path))
    BY <1>3, MatchIsLongest
  <2>2. QED
    BY <1>1, <2>1 DEF ByPrefix
<1>5. (\A e \in ToSet(q.cands) : Mapped(e, q.model)) => MappedIn(r)
  BY <1>1 DEF MappedIn, Mapped
<1>6. \/ ByItsPrefix(q) /\ (Routed(r) /\ q.gen = gen => MappedIn(r))
      \/ ~ByPrefix(r) /\ q.cands # <<>> /\ q.cands = ByModel(q.in, q.model)
  BY <1>1, <1>2, <1>4, <1>5 DEF Fine, Routed
<1>7. QED
  BY <1>1, <1>2, <1>3, <1>4, <1>6

\* And of one that is answered with 404.
LEMMA NotFoundOnes ==
    ASSUME RoutingInv, NEW r \in Requests, req[r].pc = "not_found"
    PROVE  /\ req[r].in \in Seq(Backend) /\ Accepted(req[r].in) /\ req[r].model \in STRING
           /\ req[r].cands = <<>> /\ req[r].cands = ByModel(req[r].in, req[r].model)
<1>1. PICK q : q = req[r]
  OBVIOUS
<1>2. q \in Active /\ q.pc = "not_found" /\ Fine(q, conf, gen)
  BY <1>1, ActiveTypes DEF RoutingInv
<1>3. q.in \in Seq(Backend) /\ Accepted(q.in) /\ q.model \in STRING
  BY <1>2, ActiveTypes, ConfigTypes DEF Fine
<1>4. QED
  BY <1>1, <1>2, <1>3 DEF Fine

\* A request whose path has a prefix goes to the first enabled backend of the
\* longest one, whatever reloads do meanwhile.
THEOREM LongestPrefix == Spec => []PrefixIsLongest
<1>1. RoutingInv => PrefixIsLongest
  <2>1. SUFFICES ASSUME RoutingInv, NEW r \in Requests, req[r].pc = "prefix" \/ Routed(r)
                 PROVE  LET b == req[r].cands[1].backend
                        IN  /\ \A e \in ToSet(req[r].cands) : e.backend.enabled
                            /\ ByPrefix(r) =>
                                 /\ Matches(b, req[r].path)
                                 /\ \A d \in ToSet(Enabled(req[r].in)) : Matches(d, req[r].path) =>
                                       \A p \in b.prefix, q \in d.prefix :
                                          \/ Len(q) < Len(p)
                                          \/ q = p /\ \A j \in Positions(r, d) :
                                                         \E i \in Positions(r, b) : i <= j
    BY DEF PrefixIsLongest
  <2>2. PICK c \in Seq(Backend), path \in Seq(STRING), cands \in Seq(Entry) :
           /\ c = req[r].in /\ path = req[r].path /\ cands = req[r].cands
    BY <2>1, RoutedOnes
  <2>3. CASE ByItsPrefix(req[r])
    <3>1. Len(cands) = 1 /\ MatchByPrefix(c, path) = {cands[1].backend}
      BY <2>2, <2>3 DEF ByItsPrefix
    <3>2. PICK b : b = cands[1].backend
      OBVIOUS
    <3>3. /\ b \in ToSet(c) /\ b.enabled /\ Matches(b, path)
          /\ \A d \in ToSet(Enabled(c)) : Matches(d, path) =>
                \A p \in b.prefix, q \in d.prefix :
                   Len(q) < Len(p) \/ (q = p /\ BeforeIn(c, Len(c), b, d))
      <4>1. PICK first \in Backend :
               /\ MatchByPrefix(c, path) = {first}
               /\ first \in ToSet(c) /\ first.enabled /\ Matches(first, path)
               /\ \A d \in ToSet(Enabled(c)) : Matches(d, path) =>
                     \A p \in first.prefix, q \in d.prefix :
                        Len(q) < Len(p) \/ (q = p /\ BeforeIn(c, Len(c), first, d))
        BY <3>1, MatchIsLongest
      <4>2. first = b
        BY <3>1, <3>2, <4>1
      <4>3. QED
        BY <4>1, <4>2
    <3>4. \A e \in ToSet(cands) : e = cands[1]
      <4>1. \A e : e \in ToSet(cands) <=> \E i \in 1..Len(cands) : cands[i] = e
        BY Elements
      <4>2. \A i \in 1..1 : i = 1
        OBVIOUS
      <4>3. QED
        BY <3>1, <4>1, <4>2
    <3>5. ASSUME NEW d, BeforeIn(c, Len(c), b, d), NEW j \in Positions(r, d)
          PROVE  \E i \in Positions(r, b) : i <= j
      <4>1. j \in 1..Len(c) /\ c[j] = d
        BY <2>2, <3>5, LenProperties DEF Positions
      <4>2. PICK i \in 1..j : c[i] = b
        BY <3>5, <4>1 DEF BeforeIn
      <4>3. i \in DOMAIN c /\ i <= j
        BY <4>1, <4>2, LenProperties
      <4>4. QED
        BY <2>2, <4>2, <4>3 DEF Positions
    <3>6. QED
      BY <2>2, <3>2, <3>3, <3>4, <3>5
  <2>4. CASE ~ByItsPrefix(req[r])
    <3>1. ~ByPrefix(r) /\ cands = ByModel(c, req[r].model) /\ req[r].model \in STRING /\ Accepted(c)
      BY <2>1, <2>2, <2>4, RoutedOnes
    <3>2. \A e \in ToSet(cands) : e.backend.enabled
      BY <3>1, ByModelOnes
    <3>3. QED
      BY <2>2, <3>1, <3>2
  <2>5. QED
    BY <2>3, <2>4
<1>2. QED
  BY <1>1, RoutingInvariant, PTL

\* Without a prefix, the candidates for a model are exactly the enabled
\* backends that offer it, each under the one name it has there, by priority
\* and then in the order of the configuration; for any other model, or none,
\* the default backend alone, by the client's name; and without it 404.
THEOREM ExactCandidates == Spec => []CandidatesAreExact
<1>1. RoutingInv => CandidatesAreExact
  <2>1. ASSUME RoutingInv, NEW r \in Requests, Routed(r), ~ByPrefix(r)
        PROVE  Exact(req[r].in, req[r].model, req[r].cands) /\ req[r].cands # <<>>
    <3>1. PICK c \in Seq(Backend), model \in STRING, cands \in Seq(Entry) :
             c = req[r].in /\ model = req[r].model /\ cands = req[r].cands
      BY <2>1, RoutedOnes
    <3>2. Accepted(c) /\ (ByPrefix(r) <=> MatchByPrefix(c, req[r].path) # {})
      BY <2>1, <3>1, RoutedOnes
    <3>3. ~ByItsPrefix(req[r])
      BY <2>1, <3>1, <3>2 DEF ByItsPrefix
    <3>4. cands # <<>> /\ cands = ByModel(c, model)
      BY <2>1, <3>1, <3>3, RoutedOnes
    <3>5. QED
      BY <2>1, <3>1, <3>2, <3>4, ByModelOnes
  <2>2. ASSUME RoutingInv, NEW r \in Requests, req[r].pc = "not_found"
        PROVE  Exact(req[r].in, req[r].model, req[r].cands) /\ req[r].cands = <<>>
    BY <2>2, NotFoundOnes, ByModelOnes
  <2>3. ASSUME RoutingInv, NEW r \in Requests, Routed(r) \/ req[r].pc = "not_found", ~ByPrefix(r)
        PROVE  /\ Exact(req[r].in, req[r].model, req[r].cands)
               /\ req[r].pc = "not_found" <=> req[r].cands = <<>>
    BY <2>1, <2>2, <2>3 DEF Routed
  <2>4. QED
    BY <2>3, Zenon DEF CandidatesAreExact, Exact, Offers, NoLater, Positions
<1>2. QED
  BY <1>1, RoutingInvariant, PTL

\* Unless a reload came after its snapshot, a request asks every backend for
\* the model by the name the model has there, never by an alias.
THEOREM MappedModels == Spec => []ModelIsMapped
<1>1. RoutingInv => ModelIsMapped
  <2>1. ASSUME RoutingInv, NEW r \in Requests, Routed(r), req[r].gen = gen
        PROVE  MappedIn(r)
    <3>1. CASE ByItsPrefix(req[r]) /\ (Routed(r) /\ req[r].gen = gen => MappedIn(r))
      BY <2>1, <3>1
    <3>2. CASE req[r].cands = ByModel(req[r].in, req[r].model)
      <4>1. req[r].in \in Seq(Backend) /\ Accepted(req[r].in) /\ req[r].model \in STRING
        BY <2>1, RoutedOnes
      <4>2. \A e \in ToSet(req[r].cands) : Mapped(e, req[r].model)
        BY <3>2, <4>1, ByModelOnes
      <4>3. QED
        BY <4>2 DEF MappedIn, Mapped
    <3>3. QED
      BY <2>1, <3>1, <3>2, RoutedOnes
  <2>2. QED
    BY <2>1 DEF ModelIsMapped
<1>2. QED
  BY <1>1, RoutingInvariant, PTL

-----------------------------------------------------------------------------
(* Sequences of events.                                                       *)

\* The events of the canonical stream and of the clients' streams.
ClientTypes == {"message_start", "thinking_start", "text_start", "call_start", "stop", "error",
                "end_turn", "max_tokens", "tool_use", "message_stop",
                "role", "length", "tool_calls", "DONE"}
Event == [t : CanonicalType \cup ClientTypes, i : Nat, n : Nat]

LEMMA EventOf ==
    \A t \in CanonicalType \cup ClientTypes, i, n \in Nat :
       Ev(t, i, n) \in Event /\ Ev(t, i, n).t = t /\ Ev(t, i, n).i = i /\ Ev(t, i, n).n = n
BY DEF Ev, Event

LEMMA ConcatAt ==
    ASSUME NEW A, NEW s \in Seq(A), NEW u \in Seq(A), NEW n \in Nat, n = Len(s), NEW m \in Nat, m = Len(u)
    PROVE  /\ s \o u \in Seq(A) /\ Len(s \o u) = n + m
           /\ \A i \in 1..n : (s \o u)[i] = s[i]
           /\ \A i \in 1..m : (s \o u)[n + i] = u[i]
OBVIOUS

LEMMA TwoMore ==
    ASSUME NEW A, NEW s \in Seq(A), NEW u \in Seq(A), Len(u) = 2
    PROVE  s \o u = Append(Append(s, u[1]), u[2])
<1>3. PICK a \in A, b \in A : u[1] = a /\ u[2] = b
  OBVIOUS
<1>4. PICK n \in Nat : n = Len(s)
  OBVIOUS
<1>5. PICK w \in Seq(A) : w = s \o u
  BY ConcatProperties
<1>6. Len(w) = n + 2 /\ (\A i \in 1..n : w[i] = s[i]) /\ w[n + 1] = a /\ w[n + 2] = b
  <2>1. Len(w) = n + 2 /\ \A i \in 1..(n + 2) : w[i] = IF i <= n THEN s[i] ELSE u[i - n]
    <3>1. /\ Len(s \o u) = Len(s) + Len(u)
          /\ \A i \in 1..(Len(s) + Len(u)) : (s \o u)[i] = IF i <= Len(s) THEN s[i] ELSE u[i - Len(s)]
      BY ConcatProperties, Zenon
    <3>2. QED
      BY <1>4, <1>5, <3>1
  <2>2. /\ n + 1 \in 1..(n + 2) /\ n + 2 \in 1..(n + 2) /\ ~(n + 1 <= n) /\ ~(n + 2 <= n)
        /\ (n + 1) - n = 1 /\ (n + 2) - n = 2
        /\ \A i \in 1..n : i \in 1..(n + 2) /\ i <= n
    OBVIOUS
  <2>3. QED
    BY <1>3, <2>1, <2>2
<1>7. PICK t \in Seq(A) : t = Append(s, a)
  BY AppendProperties
<1>8. PICK v \in Seq(A) : v = Append(t, b)
  BY AppendProperties
<1>9. Len(t) = n + 1 /\ (\A i \in 1..n : t[i] = s[i]) /\ t[n + 1] = a
  BY <1>4, <1>7
<1>10. Len(v) = n + 2 /\ (\A i \in 1..(n + 1) : v[i] = t[i]) /\ v[n + 2] = b
  BY <1>8, <1>9
<1>11. \A i \in 1..(n + 2) : i \in 1..n \/ i = n + 1 \/ i = n + 2
  OBVIOUS
<1>12. \A i \in 1..(n + 2) : w[i] = v[i]
  <2>1. \A i \in 1..n : i \in 1..(n + 1)
    OBVIOUS
  <2>2. n + 1 \in 1..(n + 1)
    OBVIOUS
  <2>3. QED
    BY <1>6, <1>9, <1>10, <1>11, <2>1, <2>2
<1>13. w = v
  BY <1>6, <1>10, <1>12
<1>14. QED
  BY <1>3, <1>5, <1>7, <1>8, <1>13

\* What is kept of a sequence that has one element more.
LEMMA KeptAppend ==
    ASSUME NEW A, NEW s \in Seq(A), NEW x \in A, NEW kept
    PROVE  Keep(Append(s, x), kept) = IF x \in kept THEN Append(Keep(s, kept), x) ELSE Keep(s, kept)
<1>1. PICK n \in Nat : n = Len(s)
  OBVIOUS
<1>2. PICK t \in Seq(A) : t = Append(s, x)
  BY AppendProperties
<1>3. Len(t) = n + 1 /\ t[n + 1] = x /\ \A i \in 1..n : t[i] = s[i]
  BY <1>1, <1>2
<1>4. PICK f : KeepRun(f, A, s, kept)
  BY KeepLoop
<1>5. PICK g : KeepRun(g, A, t, kept)
  BY KeepLoop
<1>6. /\ f[0] = <<>> /\ Keep(s, kept) = f[n]
      /\ \A i \in 1..n : f[i] = IF s[i] \in kept THEN Append(f[i - 1], s[i]) ELSE f[i - 1]
  BY <1>1, <1>4 DEF KeepRun
<1>7. /\ g[0] = <<>> /\ Keep(t, kept) = g[n + 1]
      /\ \A i \in 1..(n + 1) : g[i] = IF t[i] \in kept THEN Append(g[i - 1], t[i]) ELSE g[i - 1]
  BY <1>3, <1>5 DEF KeepRun
<1> DEFINE T == {i \in 0..n : f[i] = g[i]}
<1>8. 0 \in T
  BY <1>6, <1>7
<1>9. ASSUME NEW i \in 1..n, i - 1 \in T PROVE i \in T
  <2>1. f[i - 1] = g[i - 1] /\ i \in 1..(n + 1) /\ t[i] = s[i]
    BY <1>3, <1>9
  <2>2. f[i] = g[i]
    BY <1>6, <1>7, <2>1, Zenon
  <2>3. QED
    BY <2>2
<1>10. n \in T
  <2>1. \A i \in 0..n : i \in T
    <3> HIDE DEF T
    <3> QED
      BY <1>8, <1>9, LoopInduction
  <2>2. QED
    BY <2>1
<1>11. n + 1 \in 1..(n + 1) /\ (n + 1) - 1 = n
  OBVIOUS
<1>12. g[n + 1] = IF x \in kept THEN Append(g[n], x) ELSE g[n]
  BY <1>3, <1>7, <1>11
<1>13. f[n] = g[n]
  BY <1>10
<1>14. QED
  BY <1>2, <1>6, <1>7, <1>12, <1>13

LEMMA KeptNone == \A kept : Keep(<<>>, kept) = <<>>
<1>1. TAKE kept
<1>2. PICK s \in Seq(Nat) : s = <<>>
  BY EmptySeq
<1>3. PICK f : KeepRun(f, Nat, s, kept)
  BY KeepLoop
<1>4. Len(s) = 0
  BY <1>2
<1>5. QED
  BY <1>2, <1>3, <1>4 DEF KeepRun

-----------------------------------------------------------------------------
(* The loop that encodes the events of one line.                             *)

EncodeRun(f, to, p, evs) ==
    /\ f[0] = p
    /\ \A i \in 1..Len(evs) : f[i] = EncodeOne(to, f[i - 1], evs[i])
    /\ Encode(to, p, evs) = f[Len(evs)]

LEMMA EncodeLoop ==
    ASSUME NEW A, NEW evs \in Seq(A), NEW to, NEW p
    PROVE  \E f : EncodeRun(f, to, p, evs)
<1>1. PICK n \in Nat : n = Len(evs)
  OBVIOUS
<1> DEFINE Step(v, i) == EncodeOne(to, v, evs[i])
           Runs(f, k) == f = [i \in 0..k |-> IF i = 0 THEN p ELSE Step(f[i - 1], i)]
           f == CHOOSE f : Runs(f, n)
           S == {k \in Nat : k <= n => \E g : Runs(g, k)}
<1>2. Encode(to, p, evs) = f[n]
  BY <1>1, Zenon DEF Encode
<1> HIDE DEF Step
<1>3. 0 \in S
  <2>1. Runs([i \in 0..0 |-> p], 0)
    OBVIOUS
  <2>2. QED
    BY <2>1
<1>4. ASSUME NEW k \in S PROVE k + 1 \in S
  <2>1. SUFFICES ASSUME k + 1 <= n PROVE \E g : Runs(g, k + 1)
    <3> k + 1 \in Nat
      OBVIOUS
    <3> HIDE DEF Runs
    <3> QED
      OBVIOUS
  <2>2. PICK g : Runs(g, k)
    <3> k \in Nat /\ k <= n
      BY <2>1
    <3> HIDE DEF Runs
    <3> QED
      OBVIOUS
  <2> DEFINE h == [i \in 0..(k + 1) |-> IF i = k + 1 THEN Step(g[k], k + 1) ELSE g[i]]
  <2>3. g[0] = p /\ \A i \in 1..k : g[i] = Step(g[i - 1], i)
    BY <2>2
  <2>4. h[0] = p /\ h[k + 1] = Step(g[k], k + 1) /\ \A i \in 0..k : h[i] = g[i]
    <3>1. k \in Nat
      BY <1>4
    <3>2. /\ \A i \in 0..k : i \in 0..(k + 1) /\ i # k + 1
          /\ 0 \in 0..k /\ k + 1 \in 0..(k + 1)
      BY <3>1
    <3>3. QED
      BY <2>3, <3>2
  <2>5. \A i \in 1..(k + 1) : h[i] = Step(h[i - 1], i)
    <3>1. ASSUME NEW i \in 1..(k + 1) PROVE h[i] = Step(h[i - 1], i)
      <4>1. i - 1 \in 0..k /\ h[i - 1] = g[i - 1] /\ (i = k + 1 \/ i \in 1..k)
        BY <2>4
      <4>2. CASE i = k + 1
        <5>1. i - 1 = k
          BY <4>2
        <5>2. QED
          BY <2>4, <4>1, <4>2, <5>1
      <4>3. CASE i \in 1..k
        <5>1. h[i] = g[i]
          BY <2>4, <4>3
        <5>2. QED
          BY <2>3, <4>1, <4>3, <5>1, Zenon
      <4>4. QED
        BY <4>1, <4>2, <4>3
    <3>2. QED
      BY <3>1
  <2>6. h = [i \in DOMAIN h |-> h[i]] /\ DOMAIN h = 0..(k + 1)
    OBVIOUS
  <2> HIDE DEF h
  <2>7. \A i \in 0..(k + 1) : i = 0 \/ i \in 1..(k + 1)
    OBVIOUS
  <2>8. Runs(h, k + 1)
    BY <2>4, <2>5, <2>6, <2>7
  <2>9. QED
    BY <2>8
<1>5. S = Nat
  <2> HIDE DEF S
  <2>1. S \in SUBSET Nat
    BY DEF S
  <2>2. QED
    BY <1>3, <1>4, <2>1, SetInduction
<1>6. \E g : Runs(g, n)
  <2>1. n \in S
    BY <1>5
  <2>2. n <= n
    OBVIOUS
  <2> HIDE DEF Runs
  <2>3. QED
    BY <2>1, <2>2
<1>7. Runs(f, n)
  <2> HIDE DEF Runs
  <2> QED
    BY <1>6, Zenon
<1> HIDE DEF f
<1>8. f[0] = p /\ \A i \in 1..n : f[i] = Step(f[i - 1], i)
  BY <1>7
<1>9. QED
  BY <1>1, <1>2, <1>8, Zenon DEF Step, EncodeRun

-----------------------------------------------------------------------------
(* What the canonical events of a stream may be, whatever protocol they come *)
(* from and go to.                                                           *)

DeltaTypes == {"thinking", "text", "args"}

\* What the events so far have told: whether a text and thinking are open,
\* which calls are (by their index), whether there was a call or a failure,
\* whether the answer is over, and the deltas.
Told == [from : Protocols, text : BOOLEAN, thinking : BOOLEAN, calls : SUBSET Nat,
         called : BOOLEAN, failed : BOOLEAN, ends : BOOLEAN,
         deltas : Seq(DeltaTypes \X Nat \X Nat)]

\* The call that the backend means by an index.
Own(from, i) == IF from = "openai" THEN i - 1 ELSE i

DeltaOf(from, ev) == <<ev.t, IF ev.t = "args" THEN Own(from, ev.i) ELSE 0, ev.n>>

\* Event ev may come after what c says, and d says no more than what holds then.
Tells(c, ev, d) ==
    /\ c \in Told /\ d \in Told /\ ev \in Event /\ ev.t \in CanonicalType
    /\ d.from = c.from
    /\ c.ends => ev.t = "failed" /\ c.from = "openai-responses"
    /\ d.ends = (c.ends \/ ev.t \in {"completed", "incomplete", "failed"})
    /\ d.failed = (c.failed \/ ev.t = "failed")
    /\ d.called = (c.called \/ ev.t = "call_added")
    /\ ev.t = "text" => c.text
    /\ ev.t = "thinking" => c.thinking
    /\ ev.t = "args" => ev.i \in c.calls
    /\ ev.t = "call_added" => ev.i \notin c.calls /\ ev.n = Own(c.from, ev.i)
    /\ d.text => ev.t = "part_added" \/ (c.text /\ ev.t \notin {"text_done", "call_added"})
    /\ d.thinking => ev.t = "thinking_added" \/ (c.thinking /\ ev.t \notin {"part_added", "call_added"})
    /\ d.failed \/ d.calls = IF ev.t = "call_added" THEN c.calls \cup {ev.i}
                             ELSE IF ev.t = "args_done" THEN c.calls \ {ev.i} ELSE c.calls
    /\ d.deltas = IF ev.t \in DeltaTypes THEN Append(c.deltas, DeltaOf(c.from, ev)) ELSE c.deltas

\* A sequence of events leads from what c says to what d says.
Carrying(cs, evs) == \A k \in 1..Len(evs) : Tells(cs[k - 1], evs[k], cs[k])
Carries(c, evs, d) ==
    /\ c \in Told /\ evs \in Seq(Event)
    /\ \E cs : cs[0] = c /\ cs[Len(evs)] = d /\ Carrying(cs, evs)

LEMMA CarriesNone ==
    ASSUME NEW c \in Told
    PROVE  Carries(c, <<>>, c)
<1>1. [k \in 0..0 |-> c][0] = c
  OBVIOUS
<1>2. <<>> \in Seq(Event) /\ Len(<<>>) = 0
  BY EmptySeq
<1>3. \A cs : Carrying(cs, <<>>)
  BY DEF Carrying
<1>4. QED
  BY <1>1, <1>2, <1>3 DEF Carries

LEMMA CarriesOne ==
    ASSUME NEW c, NEW ev, NEW d, Tells(c, ev, d)
    PROVE  Carries(c, <<ev>>, d)
<1>1. c \in Told /\ ev \in Event
  BY DEF Tells
<1>2. <<ev>> \in Seq(Event) /\ Len(<<ev>>) = 1 /\ <<ev>>[1] = ev
  BY <1>1
<1>3. PICK cs : cs = [k \in 0..1 |-> IF k = 0 THEN c ELSE d]
  OBVIOUS
<1>4. cs[0] = c /\ cs[1] = d
  BY <1>3
<1>5. Carrying(cs, <<ev>>)
  <2>1. SUFFICES ASSUME NEW k \in 1..1 PROVE Tells(cs[k - 1], <<ev>>[k], cs[k])
    BY <1>2 DEF Carrying
  <2>2. k = 1 /\ k - 1 = 0
    OBVIOUS
  <2>3. QED
    BY <1>2, <1>4, <2>2
<1>6. QED
  BY <1>1, <1>2, <1>4, <1>5 DEF Carries

LEMMA CarriesBoth ==
    ASSUME NEW c, NEW a, NEW d, NEW b, NEW e, Carries(c, a, d), Carries(d, b, e)
    PROVE  Carries(c, a \o b, e)
<1>1. c \in Told /\ a \in Seq(Event) /\ b \in Seq(Event)
  BY DEF Carries
<1>2. PICK n \in Nat, m \in Nat : n = Len(a) /\ m = Len(b)
  BY <1>1
<1>3. PICK t \in Seq(Event) : t = a \o b
  BY <1>1, ConcatProperties
<1>4. Len(t) = n + m /\ (\A i \in 1..n : t[i] = a[i]) /\ (\A i \in 1..m : t[n + i] = b[i])
  BY <1>1, <1>2, <1>3
<1>5. PICK as : as[0] = c /\ as[n] = d /\ \A k \in 1..n : Tells(as[k - 1], a[k], as[k])
  BY <1>2 DEF Carries, Carrying
<1>6. PICK bs : bs[0] = d /\ bs[m] = e /\ \A k \in 1..m : Tells(bs[k - 1], b[k], bs[k])
  BY <1>2 DEF Carries, Carrying
<1>7. PICK cs : cs = [k \in 0..(n + m) |-> IF k < n THEN as[k] ELSE bs[k - n]]
  OBVIOUS
<1>8. /\ \A k \in 0..n : cs[k] = as[k]
      /\ \A k \in 0..m : cs[n + k] = bs[k]
  <2>1. \A k \in 0..m : n + k \in 0..(n + m) /\ ~(n + k < n) /\ (n + k) - n = k
    OBVIOUS
  <2>2. \A k \in 0..m : cs[n + k] = bs[k]
    BY <1>7, <2>1
  <2>3. ASSUME NEW k \in 0..n PROVE cs[k] = as[k]
    <3>1. CASE k < n
      <4>1. k \in 0..(n + m)
        OBVIOUS
      <4>2. QED
        BY <1>7, <3>1, <4>1
    <3>2. CASE k = n
      <4>1. k = n + 0 /\ 0 \in 0..m
        BY <3>2
      <4>2. QED
        BY <1>5, <1>6, <2>2, <3>2, <4>1
    <3>3. k < n \/ k = n
      OBVIOUS
    <3>4. QED
      BY <3>1, <3>2, <3>3
  <2>4. QED
    BY <2>2, <2>3
<1>9. ASSUME NEW k \in 1..(n + m) PROVE Tells(cs[k - 1], t[k], cs[k])
  <2>1. CASE k \in 1..n
    <3>1. k \in 0..n /\ k - 1 \in 0..n
      BY <2>1
    <3>2. QED
      BY <1>4, <1>5, <1>8, <2>1, <3>1
  <2>2. CASE k \notin 1..n
    <3>1. PICK j \in 1..m : j = k - n
      BY <2>2
    <3>2. k = n + j /\ k - 1 = n + (j - 1) /\ j \in 0..m /\ j - 1 \in 0..m
      BY <3>1
    <3>3. QED
      BY <1>4, <1>6, <1>8, <3>2
  <2>3. QED
    BY <2>1, <2>2
<1>10. cs[0] = c /\ cs[n + m] = e
  <2>1. 0 \in 0..n /\ m \in 0..m
    OBVIOUS
  <2>2. QED
    BY <1>5, <1>6, <1>8, <2>1
<1>11. QED
  BY <1>1, <1>3, <1>4, <1>9, <1>10 DEF Carries, Carrying

LEMMA CarriesTypes ==
    ASSUME NEW c, NEW evs, NEW d, Carries(c, evs, d)
    PROVE  c \in Told /\ d \in Told /\ d.from = c.from /\ evs \in Seq(Event)
<1>1. c \in Told /\ evs \in Seq(Event)
  BY DEF Carries
<1>2. PICK n \in Nat : n = Len(evs)
  BY <1>1
<1>3. PICK cs : cs[0] = c /\ cs[n] = d /\ \A k \in 1..n : Tells(cs[k - 1], evs[k], cs[k])
  BY <1>2 DEF Carries, Carrying
<1> DEFINE T == {k \in 0..n : cs[k] \in Told /\ cs[k].from = c.from}
<1>4. 0 \in T
  BY <1>1, <1>3
<1>5. \A k \in 1..n : k - 1 \in T => k \in T
  <2>1. \A x, ev, y : Tells(x, ev, y) => y \in Told /\ y.from = x.from
    BY DEF Tells
  <2>2. QED
    BY <1>3, <2>1
<1>6. \A k \in 0..n : k \in T
  <2> HIDE DEF T
  <2> QED
    BY <1>4, <1>5, LoopInduction
<1>7. QED
  BY <1>1, <1>3, <1>6

Deltas == DeltaTypes \X Nat \X Nat

LEMMA DeltaTold ==
    ASSUME NEW c, NEW ev, NEW d, Tells(c, ev, d), ev.t \in DeltaTypes
    PROVE  /\ c.deltas \in Seq(Deltas) /\ DeltaOf(c.from, ev) \in Deltas
           /\ d.deltas = Append(c.deltas, DeltaOf(c.from, ev))
<1>1. c.deltas \in Seq(Deltas) /\ d.deltas \in Seq(Deltas)
  BY DEF Tells, Told, Deltas
<1>2. d.deltas = Append(c.deltas, DeltaOf(c.from, ev))
  BY DEF Tells
<1>3. PICK s, n, x, t : /\ s \in Seq(Deltas) /\ s = c.deltas /\ n \in Nat /\ n = Len(s)
                        /\ x = DeltaOf(c.from, ev) /\ t \in Seq(Deltas) /\ t = d.deltas
  <2>1. PICK s \in Seq(Deltas) : s = c.deltas
    BY <1>1
  <2>2. Len(s) \in Nat
    OBVIOUS
  <2>3. QED
    BY <1>1, <2>1, <2>2
<1>4. t = Append(s, x)
  BY <1>2, <1>3
<1>5. Len(t) = n + 1 /\ t[n + 1] = x
  BY <1>3, <1>4
<1>6. n + 1 \in 1..Len(t)
  BY <1>3, <1>5
<1>7. x \in Deltas
  BY <1>3, <1>5, <1>6
<1>8. QED
  BY <1>1, <1>2, <1>3, <1>7

AnyShown == {"thinking", "text", "args"} \X Nat \X Nat

LEMMA KeepsAny ==
    ASSUME NEW c, NEW ev, NEW d, Tells(c, ev, d)
    PROVE  Keep(d.deltas, AnyShown) =
              IF ev.t \in DeltaTypes THEN Append(Keep(c.deltas, AnyShown), DeltaOf(c.from, ev))
                                     ELSE Keep(c.deltas, AnyShown)
<1>1. CASE ev.t \notin DeltaTypes
  BY <1>1 DEF Tells
<1>2. CASE ev.t \in DeltaTypes
  <2>1. PICK x : x = DeltaOf(c.from, ev)
    OBVIOUS
  <2>2. c.deltas \in Seq(Deltas) /\ x \in Deltas /\ d.deltas = Append(c.deltas, x)
    BY <1>2, <2>1, DeltaTold
  <2>3. x \in AnyShown
    BY <2>2 DEF Deltas, DeltaTypes, AnyShown
  <2>4. PICK a \in Seq(Deltas) : a = c.deltas
    BY <2>2
  <2>5. Keep(Append(a, x), AnyShown) = Append(Keep(a, AnyShown), x)
    BY <2>2, <2>3, KeptAppend
  <2>6. QED
    BY <1>2, <2>1, <2>2, <2>4, <2>5
<1>3. QED
  BY <1>1, <1>2

-----------------------------------------------------------------------------
(* What a client receives.                                                   *)

IsCall(ev) == ev.t \in {"call_start", "call_added"}

\* Every call that began with index b, and one did, is v.
Owned(s, b, v) == /\ \E j \in 1..Len(s) : IsCall(s[j]) /\ s[j].i = b
                  /\ \A j \in 1..Len(s) : IsCall(s[j]) /\ s[j].i = b => s[j].n = v

LEMMA MaxIn ==
    ASSUME NEW k \in Nat, NEW S \in SUBSET (1..k), S # {}
    PROVE  Max(S) \in S
<1> DEFINE R == OpToRel(<, Nat)
           T == {i \in Nat : i <= k /\ k - i \in S}
<1>1. IsWellFoundedOn(R, Nat)
  BY NatLessThanWellFounded, Zenon
<1>2. \A x, y \in Nat : x < y => <<x, y>> \in R
  BY Zenon DEF OpToRel
<1>3. T \subseteq Nat /\ T # {}
  <2>1. PICK x \in S : TRUE
    OBVIOUS
  <2>2. k - x \in Nat /\ k - x <= k /\ k - (k - x) = x
    BY <2>1
  <2>3. k - x \in T
    BY <2>1, <2>2
  <2>4. QED
    BY <2>3
<1> HIDE DEF R, T
<1>4. PICK i \in T : \A j \in T : ~(<<j, i>> \in R)
  BY <1>1, <1>3, WFMin, Zenon
<1>5. i \in Nat /\ i <= k /\ k - i \in S
  BY <1>4 DEF T
<1>6. ASSUME NEW y \in S PROVE k - i >= y
  <2>1. y \in 1..k /\ k - y \in Nat /\ k - y <= k /\ k - (k - y) = y
    OBVIOUS
  <2>2. k - y \in T
    BY <2>1 DEF T
  <2>3. ~(k - y < i)
    BY <1>2, <1>4, <1>5, <2>1, <2>2
  <2>4. QED
    BY <1>5, <2>1, <2>3
<1>7. \E x \in S : \A y \in S : x >= y
  BY <1>5, <1>6
<1>8. QED
  BY <1>7, Zenon DEF Max

LEMMA ReceivedAppend ==
    ASSUME NEW s \in Seq(Event), NEW ev \in Event
    PROVE  /\ Append(s, ev) \in Seq(Event)
           /\ ev.t \notin DeltaTypes => Received(Append(s, ev)) = Received(s)
           /\ ev.t \in {"thinking", "text"} =>
                 Received(Append(s, ev)) = Append(Received(s), <<ev.t, 0, ev.n>>)
           /\ \A v \in Nat : ev.t = "args" /\ Owned(s, ev.i, v) =>
                 Received(Append(s, ev)) = Append(Received(s), <<ev.t, v, ev.n>>)
<1>1. PICK n \in Nat : n = Len(s)
  OBVIOUS
<1>2. PICK t \in Seq(Event) : t = Append(s, ev)
  BY AppendProperties
<1>3. /\ Len(t) = n + 1 /\ t[n + 1] = ev /\ \A i \in 1..n : t[i] = s[i]
      /\ DOMAIN s = 1..n /\ DOMAIN t = 1..(n + 1)
  BY <1>1, <1>2
<1>4. PICK A : A = {DeltaAt(t, k) : k \in 1..(n + 1)}
  OBVIOUS
<1>5. \A k \in 1..n : DeltaAt(t, k) = DeltaAt(s, k)
  <2>1. SUFFICES ASSUME NEW k \in 1..n PROVE DeltaAt(t, k) = DeltaAt(s, k)
    OBVIOUS
  <2>2. t[k] = s[k] /\ \A j \in 1..(k - 1) : t[j] = s[j]
    BY <1>3
  <2>3. ASSUME NEW i PROVE CallAt(t, k, i) = CallAt(s, k, i)
    <3>1. PICK begun : begun = {j \in 1..(k - 1) : s[j].t \in {"call_start", "call_added"} /\ s[j].i = i}
      OBVIOUS
    <3>2. begun = {j \in 1..(k - 1) : t[j].t \in {"call_start", "call_added"} /\ t[j].i = i}
      BY <2>2, <3>1
    <3>3. CASE begun = {}
      BY <3>1, <3>2, <3>3 DEF CallAt
    <3>4. CASE begun # {}
      <4>1. begun \in SUBSET (1..(k - 1)) /\ k - 1 \in Nat
        BY <3>1
      <4>2. Max(begun) \in begun
        BY <3>4, <4>1, MaxIn
      <4>3. s[Max(begun)] = t[Max(begun)]
        BY <2>2, <4>1, <4>2
      <4>4. CallAt(t, k, i) = t[Max(begun)].n /\ CallAt(s, k, i) = s[Max(begun)].n
        BY <3>1, <3>2, <3>4 DEF CallAt
      <4>5. QED
        BY <4>3, <4>4
    <3>5. QED
      BY <3>3, <3>4
  <2>4. QED
    BY <2>2, <2>3 DEF DeltaAt
<1>6. PICK x \in A : x = DeltaAt(t, n + 1)
  BY <1>4
<1>7. PICK ds \in Seq(A) : ds = [k \in 1..n |-> DeltaAt(s, k)] /\ Len(ds) = n
  <2>1. [k \in 1..n |-> DeltaAt(s, k)] \in [1..n -> A]
    BY <1>4, <1>5
  <2>2. QED
    BY <2>1, FunctionIsSeq
<1>8. [k \in 1..(n + 1) |-> DeltaAt(t, k)] = Append(ds, x)
  <2>1. PICK us \in Seq(A) : us = [k \in 1..(n + 1) |-> DeltaAt(t, k)] /\ Len(us) = n + 1
    <3>1. [k \in 1..(n + 1) |-> DeltaAt(t, k)] \in [1..(n + 1) -> A] /\ n + 1 \in Nat
      BY <1>4
    <3>2. QED
      BY <3>1, FunctionIsSeq, ZenonT(60)
  <2>2. PICK vs \in Seq(A) : vs = Append(ds, x)
    BY AppendProperties
  <2>3. Len(vs) = n + 1 /\ vs[n + 1] = x /\ \A k \in 1..n : vs[k] = ds[k]
    BY <1>7, <2>2
  <2>4. \A k \in 1..(n + 1) : us[k] = vs[k]
    <3>1. \A k \in 1..n : us[k] = ds[k]
      BY <1>5, <1>7, <2>1
    <3>2. us[n + 1] = x
      BY <1>6, <2>1
    <3>3. \A k \in 1..(n + 1) : k = n + 1 \/ k \in 1..n
      OBVIOUS
    <3>4. QED
      BY <2>3, <3>1, <3>2, <3>3
  <2>5. us = vs
    BY <2>1, <2>3, <2>4
  <2>6. QED
    BY <2>1, <2>2, <2>5
<1>9. PICK kept : kept = {"thinking", "text", "args"} \X Int \X Nat
  OBVIOUS
<1>10. Received(s) = Keep(ds, kept) /\ Received(t) = Keep(Append(ds, x), kept)
  BY <1>3, <1>7, <1>8, <1>9 DEF Received
<1>11. Received(t) = IF x \in kept THEN Append(Received(s), x) ELSE Received(s)
  BY <1>10, KeptAppend
<1>12. x = <<ev.t, IF ev.t = "args" THEN CallAt(t, n + 1, ev.i) ELSE 0, ev.n>>
  BY <1>3, <1>6 DEF DeltaAt
<1>13. ev.n \in Nat
  BY DEF Event
<1>14. ev.t \notin DeltaTypes => x \notin kept
  BY <1>9, <1>12 DEF DeltaTypes
<1>15. ev.t \in {"thinking", "text"} => x = <<ev.t, 0, ev.n>> /\ x \in kept
  BY <1>9, <1>12, <1>13
<1>16. ASSUME NEW v \in Nat, ev.t = "args", Owned(s, ev.i, v)
       PROVE  x = <<ev.t, v, ev.n>> /\ x \in kept
  <2>1. PICK begun : begun = {j \in 1..n : t[j].t \in {"call_start", "call_added"} /\ t[j].i = ev.i}
    OBVIOUS
  <2>2. begun = {j \in 1..n : IsCall(s[j]) /\ s[j].i = ev.i}
    BY <1>3, <2>1 DEF IsCall
  <2>3. begun # {} /\ \A j \in begun : s[j].n = v
    BY <1>1, <1>16, <2>2 DEF Owned
  <2>4. begun \in SUBSET (1..n)
    BY <2>1
  <2>5. Max(begun) \in begun
    BY <2>3, <2>4, MaxIn
  <2>6. t[Max(begun)].n = v
    BY <1>3, <2>3, <2>4, <2>5
  <2>7. (n + 1) - 1 = n
    OBVIOUS
  <2>8. CallAt(t, n + 1, ev.i) = t[Max(begun)].n
    BY <2>1, <2>3, <2>7 DEF CallAt
  <2>9. QED
    BY <1>9, <1>12, <1>13, <1>16, <2>6, <2>8
<1>17. QED
  BY <1>2, <1>11, <1>14, <1>15, <1>16

LEMMA OwnedAppend ==
    ASSUME NEW s \in Seq(Event), NEW ev \in Event, NEW b, NEW v
    PROVE  /\ Owned(s, b, v) /\ (IsCall(ev) /\ ev.i = b => ev.n = v) => Owned(Append(s, ev), b, v)
           /\ IsCall(ev) /\ ev.i = b /\ ev.n = v
              /\ (\A j \in 1..Len(s) : IsCall(s[j]) /\ s[j].i = b => s[j].n = v)
                    => Owned(Append(s, ev), b, v)
<1>1. PICK n \in Nat : n = Len(s)
  OBVIOUS
<1>2. PICK t \in Seq(Event) : t = Append(s, ev)
  BY AppendProperties
<1>3. Len(t) = n + 1 /\ t[n + 1] = ev /\ \A i \in 1..n : t[i] = s[i]
  BY <1>1, <1>2
<1>4. /\ \A i \in 1..(n + 1) : i = n + 1 \/ i \in 1..n
      /\ n + 1 \in 1..(n + 1) /\ \A i \in 1..n : i \in 1..(n + 1)
  OBVIOUS
<1>5. Owned(s, b, v) /\ (IsCall(ev) /\ ev.i = b => ev.n = v) => Owned(t, b, v)
  BY <1>1, <1>3, <1>4 DEF Owned, IsCall
<1>6. IsCall(ev) /\ ev.i = b /\ ev.n = v
      /\ (\A j \in 1..Len(s) : IsCall(s[j]) /\ s[j].i = b => s[j].n = v) => Owned(t, b, v)
  BY <1>1, <1>3, <1>4 DEF Owned, IsCall
<1>7. QED
  BY <1>2, <1>5, <1>6

-----------------------------------------------------------------------------
(* The blocks of an Anthropic stream.                                        *)

BeginTypes == {"thinking_start", "text_start", "call_start"}
BegunIn(s, n) == {j \in 1..n : Begins(s, j)}

\* The lifecycle of the first `next' blocks, of which those in `open' are opened.
Lifecycle(s, next, opened) ==
    /\ s \in Seq(Event) /\ next \in Nat
    /\ \A k \in 1..Len(s) : InLifecycle(s, k)
    /\ IsFiniteSet(BegunIn(s, Len(s))) /\ Cardinality(BegunIn(s, Len(s))) = next
    /\ {s[j].i : j \in BegunIn(s, Len(s))} = 0..(next - 1)
    /\ {s[j].i : j \in {j \in 1..Len(s) : s[j].t = "stop"}} \subseteq 0..(next - 1)
    /\ opened = OpenAt(s, Len(s) + 1)

LEMMA LifecycleOpen ==
    ASSUME NEW s, NEW next, NEW opened, Lifecycle(s, next, opened)
    PROVE  opened \subseteq 0..(next - 1) /\ (opened # {} => s # <<>>)
<1>1. PICK n \in Nat : n = Len(s)
  BY DEF Lifecycle
<1>2. (n + 1) - 1 = n
  OBVIOUS
<1>3. opened \subseteq {s[j].i : j \in BegunIn(s, n)}
  BY <1>1, <1>2 DEF Lifecycle, OpenAt, BegunIn
<1>4. s = <<>> => BegunIn(s, n) = {}
  BY <1>1 DEF BegunIn, Lifecycle
<1>5. QED
  BY <1>1, <1>3, <1>4 DEF Lifecycle

\* One event more changes nothing of the events before it.
LEMMA PrefixLifecycle ==
    ASSUME NEW s \in Seq(Event), NEW ev \in Event, NEW t \in Seq(Event), t = Append(s, ev)
    PROVE  /\ \A k \in 1..Len(s) : InLifecycle(s, k) => InLifecycle(t, k)
           /\ OpenAt(t, Len(s) + 1) = OpenAt(s, Len(s) + 1)
           /\ BegunIn(t, Len(s)) = BegunIn(s, Len(s))
<1>1. PICK n \in Nat : n = Len(s)
  OBVIOUS
<1>2. Len(t) = n + 1 /\ t[n + 1] = ev /\ \A i \in 1..n : t[i] = s[i]
  BY <1>1
<1>3. \A j \in 1..n : Begins(t, j) <=> Begins(s, j)
  BY <1>2 DEF Begins
<1>4. ASSUME NEW k \in 1..(n + 1)
      PROVE  /\ {j \in 1..(k - 1) : Begins(t, j)} = {j \in 1..(k - 1) : Begins(s, j)}
             /\ OpenAt(t, k) = OpenAt(s, k)
  <2>1. \A j \in 1..(k - 1) : j \in 1..n
    OBVIOUS
  <2>2. PICK B : B = {j \in 1..(k - 1) : Begins(s, j)}
    OBVIOUS
  <2>3. B = {j \in 1..(k - 1) : Begins(t, j)}
    BY <1>3, <2>1, <2>2
  <2>4. PICK C : C = {j \in 1..(k - 1) : s[j].t = "stop"}
    OBVIOUS
  <2>5. C = {j \in 1..(k - 1) : t[j].t = "stop"}
    BY <1>2, <2>1, <2>4
  <2>6. {t[j].i : j \in B} = {s[j].i : j \in B} /\ {t[j].i : j \in C} = {s[j].i : j \in C}
    BY <1>2, <2>1, <2>2, <2>4
  <2>7. QED
    BY <2>2, <2>3, <2>4, <2>5, <2>6 DEF OpenAt
<1>5. BegunIn(t, n) = BegunIn(s, n)
  BY <1>3 DEF BegunIn
<1>6. ASSUME NEW k \in 1..n, InLifecycle(s, k) PROVE InLifecycle(t, k)
  <2>1. k \in 1..(n + 1) /\ 1 \in 1..n /\ t[k] = s[k] /\ t[1] = s[1]
    BY <1>2
  <2>2. /\ {j \in 1..(k - 1) : Begins(t, j)} = {j \in 1..(k - 1) : Begins(s, j)}
        /\ OpenAt(t, k) = OpenAt(s, k)
    BY <1>4, <2>1
  <2>3. Begins(t, k) <=> Begins(s, k)
    BY <1>3
  <2>4. QED
    BY <1>6, <2>1, <2>2, <2>3, Zenon DEF InLifecycle
<1>7. n + 1 \in 1..(n + 1)
  OBVIOUS
<1>8. QED
  BY <1>1, <1>4, <1>5, <1>6, <1>7

LEMMA LifecycleAppend ==
    ASSUME NEW s, NEW next, NEW opened, Lifecycle(s, next, opened), NEW ev \in Event
    PROVE  /\ ev.t \in BeginTypes /\ ev.i = next /\ s # <<>> /\ s[1].t = "message_start"
                 => Lifecycle(Append(s, ev), next + 1, opened \cup {next})
           /\ ev.t \in DeltaTypes /\ ev.i \in opened => Lifecycle(Append(s, ev), next, opened)
           /\ ev.t = "stop" /\ ev.i \in opened => Lifecycle(Append(s, ev), next, opened \ {ev.i})
           /\ ev.t \notin BeginTypes \cup DeltaTypes \cup {"stop"} /\ (ev.t = "message_stop" => opened = {})
                 => Lifecycle(Append(s, ev), next, opened)
<1>1. s \in Seq(Event) /\ next \in Nat
  BY DEF Lifecycle
<1>2. PICK n \in Nat : n = Len(s)
  BY <1>1
<1>3. PICK t \in Seq(Event) : t = Append(s, ev)
  BY <1>1, AppendProperties
<1>4. Len(t) = n + 1 /\ t[n + 1] = ev /\ \A i \in 1..n : t[i] = s[i]
  BY <1>1, <1>2, <1>3
<1>5. PICK B : B = BegunIn(s, n)
  OBVIOUS
<1>6. PICK C : C = {j \in 1..n : s[j].t = "stop"}
  OBVIOUS
<1>7. /\ \A k \in 1..n : InLifecycle(t, k)
      /\ OpenAt(t, n + 1) = opened
      /\ BegunIn(t, n) = B
  BY <1>1, <1>2, <1>3, <1>5, PrefixLifecycle DEF Lifecycle
<1>8. /\ IsFiniteSet(B) /\ Cardinality(B) = next
      /\ {s[j].i : j \in B} = 0..(next - 1)
      /\ {s[j].i : j \in C} \subseteq 0..(next - 1)
      /\ B \subseteq 1..n /\ C \subseteq 1..n
  BY <1>2, <1>5, <1>6 DEF Lifecycle, BegunIn
<1>9. /\ \A i \in 1..(n + 1) : i = n + 1 \/ i \in 1..n
      /\ n + 1 \in 1..(n + 1) /\ n + 1 \notin 1..n /\ (\A i \in 1..n : i \in 1..(n + 1))
      /\ (n + 1) - 1 = n /\ ((n + 1) + 1) - 1 = n + 1
  OBVIOUS
<1>10. {t[j].i : j \in B} = 0..(next - 1) /\ {t[j].i : j \in C} = {s[j].i : j \in C}
  BY <1>4, <1>8
<1>11. opened = 0..(next - 1) \ {s[j].i : j \in C}
  <2>1. {j \in 1..n : t[j].t = "stop"} = C
    BY <1>4, <1>6
  <2>2. {j \in 1..n : Begins(t, j)} = B
    BY <1>7 DEF BegunIn
  <2>3. OpenAt(t, n + 1) = {t[j].i : j \in B} \ {t[j].i : j \in C}
    BY <1>9, <2>1, <2>2 DEF OpenAt
  <2>4. QED
    BY <1>7, <1>10, <2>3
<1>12. PICK E : E = BegunIn(t, n + 1)
  OBVIOUS
<1>13. PICK F : F = {j \in 1..(n + 1) : t[j].t = "stop"}
  OBVIOUS
<1>14. E = IF ev.t \in BeginTypes THEN B \cup {n + 1} ELSE B
  <2>1. \A j \in 1..n : Begins(t, j) <=> j \in B
    BY <1>7 DEF BegunIn
  <2>2. Begins(t, n + 1) <=> ev.t \in BeginTypes
    BY <1>4 DEF Begins, BeginTypes
  <2>3. QED
    BY <1>8, <1>9, <1>12, <2>1, <2>2 DEF BegunIn
<1>15. F = IF ev.t = "stop" THEN C \cup {n + 1} ELSE C
  BY <1>4, <1>6, <1>9, <1>13
<1>16. OpenAt(t, Len(t) + 1) = {t[j].i : j \in E} \ {t[j].i : j \in F}
  BY <1>4, <1>9, <1>12, <1>13 DEF OpenAt, BegunIn
<1>17. /\ InLifecycle(t, n + 1) <=>
             /\ ev.t \in BeginTypes => t[1].t = "message_start" /\ ev.i = next
             /\ ev.t \in {"thinking", "text", "args", "stop"} => ev.i \in opened
             /\ ev.t = "message_stop" => opened = {}
  <2>1. Begins(t, n + 1) <=> ev.t \in BeginTypes
    BY <1>4 DEF Begins, BeginTypes
  <2>2. {j \in 1..((n + 1) - 1) : Begins(t, j)} = B
    BY <1>7, <1>9 DEF BegunIn
  <2>3. QED
    BY <1>4, <1>7, <1>8, <2>1, <2>2 DEF InLifecycle
<1>18. ASSUME InLifecycle(t, n + 1), NEW more, NEW after,
              more \in Nat, IsFiniteSet(E), Cardinality(E) = more,
              {t[j].i : j \in E} = 0..(more - 1),
              {t[j].i : j \in F} \subseteq 0..(more - 1),
              after = OpenAt(t, Len(t) + 1)
       PROVE  Lifecycle(t, more, after)
  <2>1. \A k \in 1..Len(t) : InLifecycle(t, k)
    BY <1>4, <1>7, <1>9, <1>18
  <2>2. E = BegunIn(t, Len(t)) /\ F = {j \in 1..Len(t) : t[j].t = "stop"}
    BY <1>4, <1>12, <1>13
  <2>3. QED
    BY <1>18, <2>1, <2>2 DEF Lifecycle
<1>19. ASSUME ev.t \in BeginTypes, ev.i = next, s # <<>>, s[1].t = "message_start"
       PROVE  Lifecycle(t, next + 1, opened \cup {next})
  <2>1. ev.t # "stop" /\ ev.t # "message_stop" /\ ev.t \notin {"thinking", "text", "args", "stop"}
    BY <1>19 DEF BeginTypes
  <2>2. t[1] = s[1]
    <3>1. n # 0
      BY <1>1, <1>2, <1>19
    <3>2. 1 \in 1..n
      BY <3>1
    <3>3. QED
      BY <1>4, <3>2
  <2>3. InLifecycle(t, n + 1)
    BY <1>17, <1>19, <2>1, <2>2
  <2>4. E = B \cup {n + 1} /\ F = C /\ n + 1 \notin B
    BY <1>8, <1>9, <1>14, <1>15, <1>19, <2>1
  <2>5. IsFiniteSet(E) /\ Cardinality(E) = next + 1
    BY <1>8, <2>4, FS_AddElement
  <2>6. {t[j].i : j \in E} = 0..next
    <3>1. t[n + 1].i = next
      BY <1>4, <1>19
    <3>2. {t[j].i : j \in E} = {t[j].i : j \in B} \cup {next}
      BY <2>4, <3>1
    <3>3. 0..next = 0..(next - 1) \cup {next}
      BY <1>1
    <3>4. QED
      BY <1>10, <3>2, <3>3
  <2>7. next + 1 \in Nat /\ (next + 1) - 1 = next
    BY <1>1
  <2>8. {t[j].i : j \in F} \subseteq 0..(next - 1) /\ 0..(next - 1) \subseteq 0..next /\ next \notin 0..(next - 1)
    <3>1. {t[j].i : j \in F} \subseteq 0..(next - 1)
      BY <1>8, <1>10, <2>4
    <3>2. 0..(next - 1) \subseteq 0..next /\ next \notin 0..(next - 1)
      BY <1>1
    <3>3. QED
      BY <3>1, <3>2
  <2>9. opened \cup {next} = OpenAt(t, Len(t) + 1)
    <3>1. 0..next = 0..(next - 1) \cup {next}
      BY <1>1
    <3>2. {t[j].i : j \in F} = {s[j].i : j \in C}
      BY <1>10, <2>4
    <3>3. QED
      BY <1>11, <1>16, <2>6, <2>8, <3>1, <3>2
  <2>10. QED
    BY <1>18, <2>3, <2>5, <2>6, <2>7, <2>8, <2>9
<1>20. ASSUME ev.t \notin BeginTypes, ev.t # "stop", InLifecycle(t, n + 1)
       PROVE  Lifecycle(t, next, opened)
  <2>1. E = B /\ F = C
    BY <1>14, <1>15, <1>20
  <2>2. opened = OpenAt(t, Len(t) + 1)
    BY <1>10, <1>11, <1>16, <2>1
  <2>3. QED
    BY <1>1, <1>8, <1>10, <1>18, <1>20, <2>1, <2>2
<1>21. ASSUME ev.t = "stop", ev.i \in opened
       PROVE  Lifecycle(t, next, opened \ {ev.i})
  <2>1. ev.t \notin BeginTypes /\ ev.t # "message_stop"
    BY <1>21 DEF BeginTypes
  <2>2. E = B /\ F = C \cup {n + 1}
    BY <1>14, <1>15, <1>21, <2>1
  <2>3. InLifecycle(t, n + 1)
    BY <1>17, <1>21, <2>1
  <2>4. {t[j].i : j \in F} = {s[j].i : j \in C} \cup {ev.i}
    <3>1. {t[j].i : j \in F} = {t[j].i : j \in C} \cup {ev.i}
      BY <1>4, <2>2
    <3>2. QED
      BY <1>10, <3>1
  <2>5. opened \ {ev.i} = OpenAt(t, Len(t) + 1)
    BY <1>10, <1>11, <1>16, <2>2, <2>4
  <2>6. QED
    BY <1>1, <1>8, <1>10, <1>11, <1>18, <1>21, <2>2, <2>3, <2>4, <2>5
<1>22. QED
  BY <1>3, <1>17, <1>19, <1>20, <1>21 DEF BeginTypes, DeltaTypes

\* The order in which the blocks of a set are stopped.
LEMMA SetInOrder ==
    ASSUME NEW S, IsFiniteSet(S)
    PROVE  \E n \in Nat : /\ SetToSeq(S) \in [1..n -> S]
                          /\ \A i, j \in 1..n : SetToSeq(S)[i] = SetToSeq(S)[j] => i = j
                          /\ \A x \in S : \E i \in 1..n : SetToSeq(S)[i] = x
<1>1. PICK n \in Nat : n = Cardinality(S) /\ ExistsBijection(1..n, S)
  BY FS_CardinalityType
<1>2. PICK g : g \in Injection(1..n, S)
  BY <1>1 DEF ExistsBijection, Bijection
<1>3. g \in [1..n -> S] /\ IsInjective(g)
  BY <1>2 DEF Injection
<1>4. PICK f : f = SetToSeq(S)
  OBVIOUS
<1>5. f \in [1..n -> S] /\ IsInjective(f)
  BY <1>1, <1>3, <1>4, Zenon DEF SetToSeq
<1>6. f \in Injection(1..n, S)
  BY <1>5 DEF Injection
<1>7. f \in Surjection(1..n, S)
  <2>1. Cardinality(1..n) = n
    BY FS_Interval
  <2>2. QED
    BY <1>1, <1>6, <2>1, FS_Injection
<1>8. \A i, j \in 1..n : f[i] = f[j] => i = j
  BY <1>5 DEF IsInjective
<1>9. \A x \in S : \E i \in 1..n : f[i] = x
  BY <1>7 DEF Surjection
<1>10. QED
  BY <1>4, <1>5, <1>8, <1>9

\* What an Anthropic client has got while its message is not over.
MidTypes == {"message_start", "stop"} \cup BeginTypes \cup DeltaTypes
Wire(s, next, opened, rec) ==
    /\ Lifecycle(s, next, opened)
    /\ Received(s) = rec
    /\ \A k \in 1..Len(s) : s[k].t \in MidTypes
    /\ s # <<>> => s[1].t = "message_start"

LEMMA WireAppend ==
    ASSUME NEW s, NEW next, NEW opened, NEW rec, Wire(s, next, opened, rec), NEW ev \in Event
    PROVE  /\ s \in Seq(Event) /\ Append(s, ev) # <<>> /\ Append(s, ev) \in Seq(Event)
           /\ ev.t = "message_start" => Wire(Append(s, ev), next, opened, rec)
           /\ ev.t \in BeginTypes /\ ev.i = next /\ s # <<>>
                 => Wire(Append(s, ev), next + 1, opened \cup {next}, rec)
           /\ ev.t \in {"thinking", "text"} /\ ev.i \in opened
                 => Wire(Append(s, ev), next, opened, Append(rec, <<ev.t, 0, ev.n>>))
           /\ \A v \in Nat : ev.t = "args" /\ ev.i \in opened /\ Owned(s, ev.i, v)
                 => Wire(Append(s, ev), next, opened, Append(rec, <<ev.t, v, ev.n>>))
           /\ ev.t = "stop" /\ ev.i \in opened => Wire(Append(s, ev), next, opened \ {ev.i}, rec)
<1>1. Lifecycle(s, next, opened) /\ s \in Seq(Event) /\ Received(s) = rec
  BY DEF Wire, Lifecycle
<1>2. PICK n \in Nat : n = Len(s)
  BY <1>1
<1>3. PICK t \in Seq(Event) : t = Append(s, ev)
  BY <1>1, AppendProperties
<1>4. Len(t) = n + 1 /\ t[n + 1] = ev /\ (\A i \in 1..n : t[i] = s[i]) /\ t # <<>>
  BY <1>1, <1>2, <1>3
<1>5. ASSUME ev.t \in MidTypes, s = <<>> => ev.t = "message_start"
      PROVE  (\A k \in 1..Len(t) : t[k].t \in MidTypes) /\ t[1].t = "message_start"
  <2>1. \A k \in 1..(n + 1) : k = n + 1 \/ k \in 1..n
    OBVIOUS
  <2>2. \A k \in 1..n : s[k].t \in MidTypes
    BY <1>2 DEF Wire
  <2>3. CASE s = <<>>
    <3>1. n = 0
      BY <1>2, <2>3
    <3>2. QED
      BY <1>4, <1>5, <2>1, <2>2, <2>3, <3>1
  <2>4. CASE s # <<>>
    <3>1. 1 \in 1..n
      BY <1>1, <1>2, <2>4
    <3>2. QED
      BY <1>4, <1>5, <2>1, <2>2, <2>4, <3>1 DEF Wire
  <2>5. QED
    BY <2>3, <2>4
<1>6. opened # {} => s # <<>>
  BY <1>1, LifecycleOpen
<1>7. s # <<>> => s[1].t = "message_start"
  BY DEF Wire
<1>8. /\ ev.t \in BeginTypes /\ ev.i = next /\ s # <<>> /\ s[1].t = "message_start"
           => Lifecycle(t, next + 1, opened \cup {next})
      /\ ev.t \in DeltaTypes /\ ev.i \in opened => Lifecycle(t, next, opened)
      /\ ev.t = "stop" /\ ev.i \in opened => Lifecycle(t, next, opened \ {ev.i})
      /\ ev.t \notin BeginTypes \cup DeltaTypes \cup {"stop"} /\ (ev.t = "message_stop" => opened = {})
           => Lifecycle(t, next, opened)
  BY <1>1, <1>3, LifecycleAppend
<1>9. /\ ev.t \notin DeltaTypes => Received(t) = rec
      /\ ev.t \in {"thinking", "text"} => Received(t) = Append(rec, <<ev.t, 0, ev.n>>)
      /\ \A v \in Nat : ev.t = "args" /\ Owned(s, ev.i, v) => Received(t) = Append(rec, <<ev.t, v, ev.n>>)
  BY <1>1, <1>3, ReceivedAppend
<1>10. ev.t = "message_start" => Wire(t, next, opened, rec)
  <2>1. ev.t = "message_start" => ev.t \notin BeginTypes \cup DeltaTypes \cup {"stop"} /\ ev.t # "message_stop"
                                  /\ ev.t \in MidTypes
    BY DEF BeginTypes, DeltaTypes, MidTypes
  <2>2. QED
    BY <1>5, <1>8, <1>9, <2>1 DEF Wire
<1>11. ev.t \in BeginTypes /\ ev.i = next /\ s # <<>> => Wire(t, next + 1, opened \cup {next}, rec)
  <2>1. ev.t \in BeginTypes => ev.t \notin DeltaTypes /\ ev.t \in MidTypes
    BY DEF BeginTypes, DeltaTypes, MidTypes
  <2>2. QED
    BY <1>5, <1>7, <1>8, <1>9, <2>1 DEF Wire
<1>12. ev.t \in {"thinking", "text"} /\ ev.i \in opened
          => Wire(t, next, opened, Append(rec, <<ev.t, 0, ev.n>>))
  <2>1. ev.t \in {"thinking", "text"} => ev.t \in DeltaTypes /\ ev.t \in MidTypes
    BY DEF DeltaTypes, MidTypes
  <2>2. QED
    BY <1>5, <1>6, <1>8, <1>9, <2>1 DEF Wire
<1>13. ASSUME NEW v \in Nat, ev.t = "args", ev.i \in opened, Owned(s, ev.i, v)
       PROVE  Wire(t, next, opened, Append(rec, <<ev.t, v, ev.n>>))
  <2>1. ev.t \in DeltaTypes /\ ev.t \in MidTypes
    BY <1>13 DEF DeltaTypes, MidTypes
  <2>2. QED
    BY <1>5, <1>6, <1>8, <1>9, <1>13, <2>1 DEF Wire
<1>14. ev.t = "stop" /\ ev.i \in opened => Wire(t, next, opened \ {ev.i}, rec)
  <2>1. ev.t = "stop" => ev.t \notin DeltaTypes /\ ev.t \in MidTypes
    BY DEF DeltaTypes, MidTypes
  <2>2. QED
    BY <1>5, <1>6, <1>8, <1>9, <2>1 DEF Wire
<1>15. QED
  BY <1>1, <1>3, <1>4, <1>10, <1>11, <1>12, <1>13, <1>14

LEMMA WireStops ==
    ASSUME NEW s, NEW next, NEW opened, NEW rec, Wire(s, next, opened, rec), NEW blocks \in SUBSET opened
    PROVE  /\ Wire(s \o Stops(blocks), next, opened \ blocks, rec)
           /\ s \o Stops(blocks) \in Seq(Event)
           /\ s # <<>> => s \o Stops(blocks) # <<>>
           /\ \A b, w : Owned(s, b, w) => Owned(s \o Stops(blocks), b, w)
<1>1. Lifecycle(s, next, opened) /\ s \in Seq(Event) /\ next \in Nat
  BY DEF Wire, Lifecycle
<1>2. IsFiniteSet(blocks) /\ blocks \subseteq Nat
  <2>1. blocks \subseteq 0..(next - 1)
    BY <1>1, LifecycleOpen
  <2>2. IsFiniteSet(0..(next - 1))
    BY <1>1, FS_Interval
  <2>3. IsFiniteSet(blocks)
    BY <2>1, <2>2, FS_Subset
  <2>4. 0..(next - 1) \subseteq Nat
    OBVIOUS
  <2>5. QED
    BY <2>1, <2>3, <2>4
<1>3. PICK order : order = SetToSeq(blocks)
  OBVIOUS
<1>4. PICK m \in Nat : /\ order \in [1..m -> blocks]
                       /\ \A i, j \in 1..m : order[i] = order[j] => i = j
                       /\ \A x \in blocks : \E i \in 1..m : order[i] = x
  BY <1>2, <1>3, SetInOrder, SMTT(60)
<1>5. PICK u \in Seq(Event) : u = Stops(blocks) /\ Len(u) = m /\ \A i \in 1..m : u[i] = Ev("stop", order[i], 0)
  <2>1. \A i \in 1..m : Ev("stop", order[i], 0) \in Event
    <3>1. \A i \in 1..m : order[i] \in Nat
      BY <1>2, <1>4
    <3>2. \A x \in Nat : Ev("stop", x, 0) \in Event
      BY EventOf DEF ClientTypes
    <3>3. QED
      BY <3>1, <3>2
  <2>2. [i \in 1..m |-> Ev("stop", order[i], 0)] \in [1..m -> Event]
    BY <2>1
  <2>3. PICK f : f = [i \in 1..m |-> Ev("stop", order[i], 0)]
    OBVIOUS
  <2>4. f \in Seq(Event) /\ Len(f) = m
    BY <2>2, <2>3, FunctionIsSeq
  <2>5. f = Stops(blocks)
    BY <1>3, <1>4, <2>3 DEF Stops
  <2>6. QED
    BY <2>3, <2>4, <2>5
<1>6. PICK n \in Nat : n = Len(s)
  BY <1>1
<1>7. PICK v : v = [k \in 0..m |-> [i \in 1..(n + k) |-> IF i <= n THEN s[i] ELSE u[i - n]]]
  OBVIOUS
<1>8. \A k \in 0..m : v[k] \in Seq(Event) /\ Len(v[k]) = n + k
                      /\ \A i \in 1..(n + k) : v[k][i] = IF i <= n THEN s[i] ELSE u[i - n]
  <2>1. SUFFICES ASSUME NEW k \in 0..m
                 PROVE  v[k] \in Seq(Event) /\ Len(v[k]) = n + k
                        /\ \A i \in 1..(n + k) : v[k][i] = IF i <= n THEN s[i] ELSE u[i - n]
    OBVIOUS
  <2>2. PICK w : w = [i \in 1..(n + k) |-> IF i <= n THEN s[i] ELSE u[i - n]]
    OBVIOUS
  <2>3. \A i \in 1..(n + k) : (IF i <= n THEN s[i] ELSE u[i - n]) \in Event
    <3>1. SUFFICES ASSUME NEW i \in 1..(n + k) PROVE (IF i <= n THEN s[i] ELSE u[i - n]) \in Event
      OBVIOUS
    <3>2. CASE i <= n
      BY <1>1, <1>6, <3>2
    <3>3. CASE ~(i <= n)
      <4>1. i - n \in 1..m
        BY <3>3
      <4>2. QED
        BY <1>5, <3>3, <4>1
    <3>4. QED
      BY <3>2, <3>3
  <2>4. w \in [1..(n + k) -> Event] /\ n + k \in Nat
    BY <2>2, <2>3
  <2>5. w \in Seq(Event) /\ Len(w) = n + k
    BY <2>4, FunctionIsSeq
  <2>6. v[k] = w
    BY <1>7, <2>2
  <2>7. QED
    BY <2>2, <2>5, <2>6
<1>9. ASSUME NEW k \in 1..m PROVE v[k] = Append(v[k - 1], u[k])
  <2>1. k - 1 \in 0..m /\ k \in 0..m /\ u[k] \in Event
    BY <1>5
  <2>2. PICK a \in Seq(Event), e \in Event : a = v[k - 1] /\ e = u[k]
    BY <1>8, <2>1
  <2>3. PICK b \in Seq(Event) : b = v[k]
    BY <1>8, <2>1
  <2>4. Len(a) = n + (k - 1) /\ Len(b) = n + k
        /\ (\A i \in 1..(n + (k - 1)) : a[i] = IF i <= n THEN s[i] ELSE u[i - n])
        /\ \A i \in 1..(n + k) : b[i] = IF i <= n THEN s[i] ELSE u[i - n]
    BY <1>8, <2>1, <2>2, <2>3
  <2>5. \A i \in 1..(n + (k - 1)) : i \in 1..(n + k) /\ b[i] = a[i]
    BY <2>4
  <2>6. b[n + k] = e
    <3>1. n + k \in 1..(n + k) /\ ~(n + k <= n) /\ (n + k) - n = k
      OBVIOUS
    <3>2. QED
      BY <2>2, <2>4, <3>1
  <2>7. b = Append(a, e)
    <3>1. PICK d \in Seq(Event) : d = Append(a, e)
      BY AppendProperties
    <3>2. Len(d) = n + k /\ d[n + k] = e /\ \A i \in 1..(n + (k - 1)) : d[i] = a[i]
      BY <2>4, <3>1
    <3>3. \A i \in 1..(n + k) : i = n + k \/ i \in 1..(n + (k - 1))
      OBVIOUS
    <3>4. \A i \in 1..(n + k) : b[i] = d[i]
      BY <2>5, <2>6, <3>2, <3>3
    <3>5. QED
      BY <2>4, <3>1, <3>2, <3>4
  <2>8. QED
    BY <2>2, <2>3, <2>7
<1> DEFINE T == {k \in 0..m : /\ Wire(v[k], next, opened \ Upto(order, k), rec)
                              /\ \A b, w : Owned(s, b, w) => Owned(v[k], b, w)}
<1>10. 0 \in T
  <2>1. PICK z \in Seq(Event) : z = v[0]
    BY <1>8
  <2>2. Len(z) = n /\ \A i \in 1..n : z[i] = s[i]
    BY <1>8, <2>1
  <2>3. z = s
    BY <1>1, <1>6, <2>2
  <2>4. Upto(order, 0) = {}
    BY DEF Upto
  <2>5. Wire(v[0], next, opened \ Upto(order, 0), rec)
    BY <2>1, <2>3, <2>4
  <2>6. (\A b, w : Owned(s, b, w) => Owned(v[0], b, w)) /\ 0 \in 0..m
    BY <2>1, <2>3
  <2>7. QED
    BY <2>5, <2>6, Zenon
<1>11. ASSUME NEW k \in 1..m, k - 1 \in T PROVE k \in T
  <2>1. PICK a, e : a = v[k - 1] /\ e = u[k] /\ e \in Event
    BY <1>5
  <2>2. PICK left : left = opened \ Upto(order, k - 1)
    OBVIOUS
  <2>3. Wire(a, next, left, rec) /\ \A b, w : Owned(s, b, w) => Owned(a, b, w)
    BY <1>11, <2>1, <2>2
  <2>4. e.t = "stop" /\ e.i = order[k] /\ order[k] \in blocks
    BY <1>4, <1>5, <2>1 DEF Ev
  <2>5. order[k] \notin Upto(order, k - 1)
    <3>1. \A i \in 1..(k - 1) : i \in 1..m /\ i # k
      OBVIOUS
    <3>2. \A i \in 1..(k - 1) : order[i] # order[k]
      BY <1>4, <3>1
    <3>3. QED
      BY <3>2 DEF Upto
  <2>6. e.i \in left
    BY <2>2, <2>4, <2>5
  <2>7. a \in Seq(Event) /\ Wire(Append(a, e), next, left \ {e.i}, rec)
    BY <2>1, <2>3, <2>4, <2>6, WireAppend
  <2>8. Upto(order, k) = Upto(order, k - 1) \cup {order[k]}
    <3>1. \A j \in 1..k : j = k \/ j \in 1..(k - 1)
      OBVIOUS
    <3>2. k \in 1..k /\ \A j \in 1..(k - 1) : j \in 1..k
      OBVIOUS
    <3>3. QED
      BY <3>1, <3>2 DEF Upto
  <2>9. left \ {e.i} = opened \ Upto(order, k)
    BY <2>2, <2>4, <2>8
  <2>10. \A b, w : Owned(a, b, w) => Owned(Append(a, e), b, w)
    <3>1. ~IsCall(e)
      BY <2>4 DEF IsCall
    <3>2. QED
      BY <2>1, <2>7, <3>1, OwnedAppend
  <2>11. v[k] = Append(a, e)
    BY <1>9, <2>1
  <2>12. Wire(v[k], next, opened \ Upto(order, k), rec)
    BY <2>7, <2>9, <2>11
  <2>13. \A b, w : Owned(s, b, w) => Owned(v[k], b, w)
    BY <2>3, <2>10, <2>11
  <2>14. k \in 0..m
    OBVIOUS
  <2>15. QED
    BY <2>12, <2>13, <2>14, Zenon
<1>12. \A k \in 0..m : k \in T
  <2> HIDE DEF T
  <2> QED
    BY <1>10, <1>11, LoopInduction
<1>13. Upto(order, m) = blocks
  BY <1>4 DEF Upto
<1>14. v[m] = s \o u
  <2>1. PICK w \in Seq(Event) : w = v[m]
    BY <1>8
  <2>2. Len(w) = n + m /\ \A i \in 1..(n + m) : w[i] = IF i <= n THEN s[i] ELSE u[i - n]
    BY <1>8, <2>1
  <2>3. PICK d \in Seq(Event) : d = s \o u
    BY <1>1, ConcatProperties
  <2>4. Len(d) = n + m /\ (\A i \in 1..n : d[i] = s[i]) /\ \A i \in 1..m : d[n + i] = u[i]
    <3>1. m = Len(u) /\ s \in Seq(Event) /\ u \in Seq(Event)
      BY <1>1, <1>5
    <3>2. /\ Len(s \o u) = n + m
          /\ \A i \in 1..n : (s \o u)[i] = s[i]
          /\ \A i \in 1..m : (s \o u)[n + i] = u[i]
      BY <1>6, <3>1, ConcatAt
    <3>3. QED
      BY <2>3, <3>2, Zenon
  <2>5. ASSUME NEW i \in 1..(n + m) PROVE w[i] = d[i]
    <3>1. CASE i <= n
      <4>1. i \in 1..n
        BY <3>1
      <4>2. QED
        BY <2>2, <2>4, <3>1, <4>1
    <3>2. CASE ~(i <= n)
      <4>1. i - n \in 1..m /\ i = n + (i - n)
        BY <3>2
      <4>2. d[n + (i - n)] = u[i - n]
        BY <2>4, <4>1
      <4>3. QED
        BY <2>2, <3>2, <4>1, <4>2
    <3>3. QED
      BY <3>1, <3>2
  <2>6. w = d
    BY <2>2, <2>4, <2>5
  <2>7. QED
    BY <2>1, <2>3, <2>6
<1>15. m \in T
  <2>1. m \in 0..m
    OBVIOUS
  <2> HIDE DEF T
  <2>2. QED
    BY <1>12, <2>1
<1>16. s # <<>> => s \o u # <<>>
  BY <1>1, <1>5
<1>17. m \in 0..m
  OBVIOUS
<1>18. QED
  BY <1>5, <1>8, <1>13, <1>14, <1>15, <1>16, <1>17

-----------------------------------------------------------------------------
(* The Anthropic encoder.                                                    *)

AnthropicEncoder ==
    [started : BOOLEAN, next : Nat, thinking : SUBSET Nat, text : SUBSET Nat,
     calls : UNION {[D -> Nat] : D \in SUBSET Nat}, saw : BOOLEAN,
     stop : {"end_turn", "max_tokens"}, failed : BOOLEAN]
AnthropicPair == [e : AnthropicEncoder, out : Seq(Event)]

AtMostOne(S) == \A x, y \in S : x = y
CallBlocks(e) == {e.calls[i] : i \in DOMAIN e.calls}

\* Each open block is what exactly one of thinking, text and calls holds, and
\* the deltas that the client has received are rec.
AnthropicOK(p, from, rec) ==
    /\ p \in AnthropicPair
    /\ AtMostOne(p.e.thinking) /\ AtMostOne(p.e.text) /\ p.e.thinking \cap p.e.text = {}
    /\ \A i, j \in DOMAIN p.e.calls : p.e.calls[i] = p.e.calls[j] => i = j
    /\ CallBlocks(p.e) \cap (p.e.thinking \cup p.e.text) = {}
    /\ Wire(p.out, p.e.next, p.e.thinking \cup p.e.text \cup CallBlocks(p.e), rec)
    /\ p.e.started => p.out # <<>>
    /\ \A i \in DOMAIN p.e.calls : Own(from, i) \in Nat /\ Owned(p.out, p.e.calls[i], Own(from, i))

LEMMA EncoderTypes ==
    ASSUME NEW p \in AnthropicPair
    PROVE  /\ p.e \in AnthropicEncoder /\ p.out \in Seq(Event)
           /\ p.e.started \in BOOLEAN /\ p.e.next \in Nat /\ p.e.thinking \in SUBSET Nat
           /\ p.e.text \in SUBSET Nat /\ p.e.saw \in BOOLEAN /\ p.e.stop \in {"end_turn", "max_tokens"}
           /\ p.e.failed \in BOOLEAN
           /\ DOMAIN p.e.calls \in SUBSET Nat /\ p.e.calls \in [DOMAIN p.e.calls -> Nat]
<1>1. p.e \in AnthropicEncoder /\ p.out \in Seq(Event)
  BY DEF AnthropicPair
<1>2. p.e.calls \in UNION {[D -> Nat] : D \in SUBSET Nat}
  BY <1>1 DEF AnthropicEncoder
<1>3. PICK D \in SUBSET Nat : p.e.calls \in [D -> Nat]
  BY <1>2
<1>4. DOMAIN p.e.calls \in SUBSET Nat /\ p.e.calls \in [DOMAIN p.e.calls -> Nat]
  BY <1>3
<1>5. QED
  BY <1>1, <1>4 DEF AnthropicEncoder

\* A step that leaves the calls as they are.
LEMMA SameCalls ==
    ASSUME NEW p, NEW from, NEW rec, AnthropicOK(p, from, rec), NEW q \in AnthropicPair, NEW more,
           q.e.calls = p.e.calls,
           \A b, w : Owned(p.out, b, w) => Owned(q.out, b, w),
           AtMostOne(q.e.thinking), AtMostOne(q.e.text), q.e.thinking \cap q.e.text = {},
           CallBlocks(p.e) \cap (q.e.thinking \cup q.e.text) = {},
           Wire(q.out, q.e.next, q.e.thinking \cup q.e.text \cup CallBlocks(p.e), more),
           q.e.started => q.out # <<>>
    PROVE  AnthropicOK(q, from, more)
<1>1. CallBlocks(q.e) = CallBlocks(p.e)
  BY DEF CallBlocks
<1>2. /\ \A i, j \in DOMAIN q.e.calls : q.e.calls[i] = q.e.calls[j] => i = j
      /\ \A i \in DOMAIN q.e.calls : Own(from, i) \in Nat /\ Owned(q.out, q.e.calls[i], Own(from, i))
  BY Zenon DEF AnthropicOK
<1>3. QED
  BY <1>1, <1>2, Zenon DEF AnthropicOK

LEMMA StartStep ==
    ASSUME NEW p, NEW from, NEW rec, AnthropicOK(p, from, rec), NEW q, q = Start(p)
    PROVE  /\ AnthropicOK(q, from, rec) /\ q.e.started
           /\ q.e.thinking = p.e.thinking /\ q.e.text = p.e.text /\ q.e.calls = p.e.calls
           /\ q.e.saw = p.e.saw /\ q.e.stop = p.e.stop /\ q.e.failed = p.e.failed
<1>1. p \in AnthropicPair
  BY DEF AnthropicOK
<1>2. CASE p.e.started
  BY <1>2 DEF Start
<1>3. CASE ~p.e.started
  <2>1. PICK ev \in Event : ev = Plain("message_start") /\ ev.t = "message_start"
    BY EventOf DEF Plain, ClientTypes
  <2>2. q = [[p EXCEPT !.e.started = TRUE] EXCEPT !.out = Append(@, ev)]
    BY <1>3, <2>1 DEF Start, Put
  <2>3. q = [e |-> [p.e EXCEPT !.started = TRUE], out |-> Append(p.out, ev)]
    BY <1>1, <2>2 DEF AnthropicPair
  <2>4. q.e = [p.e EXCEPT !.started = TRUE] /\ q.out = Append(p.out, ev)
    BY <2>3
  <2>5. /\ q.e \in AnthropicEncoder /\ q.e.started /\ q.e.next = p.e.next
        /\ q.e.thinking = p.e.thinking /\ q.e.text = p.e.text /\ q.e.calls = p.e.calls
        /\ q.e.saw = p.e.saw /\ q.e.stop = p.e.stop /\ q.e.failed = p.e.failed
    BY <1>1, <2>4 DEF AnthropicPair, AnthropicEncoder
  <2>6. PICK s, t, next, opened : /\ s = p.out /\ t = q.out /\ next = p.e.next
                                  /\ opened = p.e.thinking \cup p.e.text \cup CallBlocks(p.e)
    OBVIOUS
  <2>7. Wire(s, next, opened, rec)
    BY <2>6 DEF AnthropicOK
  <2>8. /\ s \in Seq(Event) /\ t \in Seq(Event) /\ t # <<>> /\ Wire(t, next, opened, rec)
    <3>1. t = Append(s, ev)
      BY <2>4, <2>6
    <3>2. ev.t = "message_start"
      BY <2>1
    <3>3. QED
      BY <2>7, <3>1, <3>2, WireAppend
  <2>9. \A b, w : Owned(s, b, w) => Owned(t, b, w)
    <3>1. ~IsCall(ev)
      BY <2>1 DEF IsCall
    <3>2. QED
      BY <2>4, <2>6, <2>8, <3>1, OwnedAppend
  <2>10. CallBlocks(q.e) = CallBlocks(p.e)
    BY <2>5 DEF CallBlocks
  <2>11. q \in AnthropicPair
    BY <2>3, <2>4, <2>5, <2>6, <2>8 DEF AnthropicPair
  <2>12. AnthropicOK(q, from, rec)
    BY <2>5, <2>6, <2>8, <2>9, <2>10, <2>11 DEF AnthropicOK
  <2>13. QED
    BY <2>5, <2>12
<1>4. QED
  BY <1>2, <1>3

\* Thinking or the text is stopped.
LEMMA StopTextStep ==
    ASSUME NEW p, NEW from, NEW rec, AnthropicOK(p, from, rec), NEW q, q = StopText(p)
    PROVE  /\ AnthropicOK(q, from, rec) /\ q.e.started = p.e.started
           /\ q.e.thinking = p.e.thinking /\ q.e.text = {} /\ q.e.calls = p.e.calls
           /\ q.e.saw = p.e.saw /\ q.e.stop = p.e.stop /\ q.e.failed = p.e.failed
<1>1. p \in AnthropicPair
  BY DEF AnthropicOK
<1>2. PICK u : u = Stops(p.e.text)
  OBVIOUS
<1>3. q = [[p EXCEPT !.e.text = {}] EXCEPT !.out = @ \o u]
  BY <1>2 DEF StopText, PutAll
<1>4. q = [e |-> [p.e EXCEPT !.text = {}], out |-> p.out \o u]
  BY <1>1, <1>3 DEF AnthropicPair
<1>5. q.e = [p.e EXCEPT !.text = {}] /\ q.out = p.out \o u
  BY <1>4
<1>6. /\ q.e \in AnthropicEncoder /\ q.e.started = p.e.started /\ q.e.next = p.e.next
      /\ q.e.thinking = p.e.thinking /\ q.e.text = {} /\ q.e.calls = p.e.calls
      /\ q.e.saw = p.e.saw /\ q.e.stop = p.e.stop /\ q.e.failed = p.e.failed
  BY <1>1, <1>5 DEF AnthropicPair, AnthropicEncoder
<1>7. PICK s, t, next, opened, blocks :
         /\ s = p.out /\ t = q.out /\ next = p.e.next /\ blocks = p.e.text
         /\ opened = p.e.thinking \cup p.e.text \cup CallBlocks(p.e)
  OBVIOUS
<1>8. Wire(s, next, opened, rec) /\ blocks \in SUBSET opened
  BY <1>7 DEF AnthropicOK
<1>9. t = s \o Stops(blocks)
  BY <1>2, <1>5, <1>7
<1>10. /\ t \in Seq(Event) /\ Wire(t, next, opened \ blocks, rec) /\ (s # <<>> => t # <<>>)
       /\ \A b, w : Owned(s, b, w) => Owned(t, b, w)
  BY <1>8, <1>9, WireStops
<1>11. /\ p.e.thinking \cap p.e.text = {} /\ CallBlocks(p.e) \cap (p.e.thinking \cup p.e.text) = {}
       /\ AtMostOne(p.e.thinking) /\ AtMostOne(p.e.text) /\ (p.e.started => p.out # <<>>)
  BY DEF AnthropicOK
<1>12. opened \ blocks = q.e.thinking \cup q.e.text \cup CallBlocks(p.e)
  BY <1>6, <1>7, <1>11
<1>13. q \in AnthropicPair
  BY <1>4, <1>5, <1>6, <1>7, <1>10 DEF AnthropicPair
<1>14. AtMostOne(q.e.thinking) /\ AtMostOne(q.e.text)
  BY <1>6, <1>11 DEF AtMostOne
<1>15. Wire(q.out, q.e.next, q.e.thinking \cup q.e.text \cup CallBlocks(p.e), rec)
  BY <1>6, <1>7, <1>10, <1>12
<1>16. /\ q.e.thinking \cap q.e.text = {} /\ CallBlocks(p.e) \cap (q.e.thinking \cup q.e.text) = {}
       /\ (q.e.started => q.out # <<>>) /\ q.e.calls = p.e.calls
       /\ \A b, w : Owned(p.out, b, w) => Owned(q.out, b, w)
  BY <1>6, <1>7, <1>10, <1>11
<1>17. AnthropicOK(q, from, rec)
  BY <1>13, <1>14, <1>15, <1>16, SameCalls
<1>18. QED
  BY <1>6, <1>17

LEMMA StopThinkingStep ==
    ASSUME NEW p, NEW from, NEW rec, AnthropicOK(p, from, rec), NEW q, q = StopThinking(p)
    PROVE  /\ AnthropicOK(q, from, rec) /\ q.e.started = p.e.started
           /\ q.e.thinking = {} /\ q.e.text = p.e.text /\ q.e.calls = p.e.calls
           /\ q.e.saw = p.e.saw /\ q.e.stop = p.e.stop /\ q.e.failed = p.e.failed
<1>1. p \in AnthropicPair
  BY DEF AnthropicOK
<1>2. PICK u : u = Stops(p.e.thinking)
  OBVIOUS
<1>3. q = [[p EXCEPT !.e.thinking = {}] EXCEPT !.out = @ \o u]
  BY <1>2 DEF StopThinking, PutAll
<1>4. q = [e |-> [p.e EXCEPT !.thinking = {}], out |-> p.out \o u]
  BY <1>1, <1>3 DEF AnthropicPair
<1>5. q.e = [p.e EXCEPT !.thinking = {}] /\ q.out = p.out \o u
  BY <1>4
<1>6. /\ q.e \in AnthropicEncoder /\ q.e.started = p.e.started /\ q.e.next = p.e.next
      /\ q.e.thinking = {} /\ q.e.text = p.e.text /\ q.e.calls = p.e.calls
      /\ q.e.saw = p.e.saw /\ q.e.stop = p.e.stop /\ q.e.failed = p.e.failed
  BY <1>1, <1>5 DEF AnthropicPair, AnthropicEncoder
<1>7. PICK s, t, next, opened, blocks :
         /\ s = p.out /\ t = q.out /\ next = p.e.next /\ blocks = p.e.thinking
         /\ opened = p.e.thinking \cup p.e.text \cup CallBlocks(p.e)
  OBVIOUS
<1>8. Wire(s, next, opened, rec) /\ blocks \in SUBSET opened
  BY <1>7 DEF AnthropicOK
<1>9. t = s \o Stops(blocks)
  BY <1>2, <1>5, <1>7
<1>10. /\ t \in Seq(Event) /\ Wire(t, next, opened \ blocks, rec) /\ (s # <<>> => t # <<>>)
       /\ \A b, w : Owned(s, b, w) => Owned(t, b, w)
  BY <1>8, <1>9, WireStops
<1>11. /\ p.e.thinking \cap p.e.text = {} /\ CallBlocks(p.e) \cap (p.e.thinking \cup p.e.text) = {}
       /\ AtMostOne(p.e.thinking) /\ AtMostOne(p.e.text) /\ (p.e.started => p.out # <<>>)
  BY DEF AnthropicOK
<1>12. opened \ blocks = q.e.thinking \cup q.e.text \cup CallBlocks(p.e)
  BY <1>6, <1>7, <1>11
<1>13. q \in AnthropicPair
  BY <1>4, <1>5, <1>6, <1>7, <1>10 DEF AnthropicPair
<1>14. AtMostOne(q.e.thinking) /\ AtMostOne(q.e.text)
  BY <1>6, <1>11 DEF AtMostOne
<1>15. Wire(q.out, q.e.next, q.e.thinking \cup q.e.text \cup CallBlocks(p.e), rec)
  BY <1>6, <1>7, <1>10, <1>12
<1>16. /\ q.e.thinking \cap q.e.text = {} /\ CallBlocks(p.e) \cap (q.e.thinking \cup q.e.text) = {}
       /\ (q.e.started => q.out # <<>>) /\ q.e.calls = p.e.calls
       /\ \A b, w : Owned(p.out, b, w) => Owned(q.out, b, w)
  BY <1>6, <1>7, <1>10, <1>11
<1>17. AnthropicOK(q, from, rec)
  BY <1>13, <1>14, <1>15, <1>16, SameCalls
<1>18. QED
  BY <1>6, <1>17

\* Thinking or a text begins.
LEMMA StartTextStep ==
    ASSUME NEW p, NEW from, NEW rec, AnthropicOK(p, from, rec), p.e.started, NEW q, q = StartText(p)
    PROVE  /\ AnthropicOK(q, from, rec) /\ q.e.started
           /\ q.e.thinking = p.e.thinking /\ q.e.text # {} /\ q.e.calls = p.e.calls
           /\ q.e.saw = p.e.saw /\ q.e.stop = p.e.stop /\ q.e.failed = p.e.failed
<1>1. p \in AnthropicPair /\ p.e.next \in Nat
  BY EncoderTypes DEF AnthropicOK
<1>2. CASE p.e.text # {}
  BY <1>2 DEF StartText
<1>3. CASE p.e.text = {}
  <2>1. PICK next : next = p.e.next
    OBVIOUS
  <2>2. PICK ev \in Event : ev = Ev("text_start", next, 0) /\ ev.t = "text_start" /\ ev.i = next
    <3>1. "text_start" \in CanonicalType \cup ClientTypes /\ next \in Nat /\ 0 \in Nat
      BY <1>1, <2>1 DEF ClientTypes
    <3>2. QED
      BY <3>1, EventOf
  <2>3. q = [[p EXCEPT !.e.text = {next}, !.e.next = @ + 1] EXCEPT !.out = Append(@, ev)]
    BY <1>3, <2>1, <2>2 DEF StartText, Put
  <2>4. q = [e |-> [p.e EXCEPT !.text = {next}, !.next = next + 1], out |-> Append(p.out, ev)]
    BY <1>1, <2>1, <2>3 DEF AnthropicPair, AnthropicEncoder
  <2>5. q.e = [p.e EXCEPT !.text = {next}, !.next = next + 1] /\ q.out = Append(p.out, ev)
    BY <2>4
  <2>6. /\ q.e \in AnthropicEncoder /\ q.e.started = p.e.started /\ q.e.next = next + 1
        /\ q.e.thinking = p.e.thinking /\ q.e.text = {next} /\ q.e.calls = p.e.calls
        /\ q.e.saw = p.e.saw /\ q.e.stop = p.e.stop /\ q.e.failed = p.e.failed
    <3>1. p.e \in AnthropicEncoder /\ {next} \in SUBSET Nat /\ next + 1 \in Nat
      BY <1>1, <2>1 DEF AnthropicPair
    <3>2. PICK a, x : a \in AnthropicEncoder /\ a = p.e /\ x = q.e
      BY <3>1
    <3>3. x = [a EXCEPT !.text = {next}, !.next = next + 1]
      BY <2>5, <3>2
    <3>4. x \in AnthropicEncoder
      <4>1. PICK y : y = [a EXCEPT !.next = next + 1]
        OBVIOUS
      <4>2. y \in AnthropicEncoder
        BY <3>1, <3>2, <4>1 DEF AnthropicEncoder
      <4>3. x = [y EXCEPT !.text = {next}]
        BY <3>2, <3>3, <4>1 DEF AnthropicEncoder
      <4>4. QED
        BY <3>1, <4>2, <4>3 DEF AnthropicEncoder
    <3>5. /\ x.started = a.started /\ x.next = next + 1 /\ x.calls = a.calls /\ x.text = {next}
          /\ x.thinking = a.thinking /\ x.saw = a.saw /\ x.stop = a.stop /\ x.failed = a.failed
      BY <3>2, <3>3 DEF AnthropicEncoder
    <3>6. QED
      BY <3>2, <3>4, <3>5
  <2>7. PICK s, t, opened : /\ s = p.out /\ t = q.out
                            /\ opened = p.e.thinking \cup p.e.text \cup CallBlocks(p.e)
    OBVIOUS
  <2>8. Wire(s, next, opened, rec) /\ s # <<>> /\ t = Append(s, ev) /\ ev.t \in BeginTypes
    BY <2>1, <2>2, <2>5, <2>7 DEF AnthropicOK, BeginTypes
  <2>9. s \in Seq(Event) /\ t \in Seq(Event) /\ t # <<>> /\ Wire(t, next + 1, opened \cup {next}, rec)
    BY <2>2, <2>8, WireAppend
  <2>10. \A b, w : Owned(s, b, w) => Owned(t, b, w)
    <3>1. ~IsCall(ev)
      BY <2>2 DEF IsCall
    <3>2. QED
      BY <2>8, <2>9, <3>1, OwnedAppend
  <2>11. /\ p.e.thinking \cap p.e.text = {} /\ CallBlocks(p.e) \cap (p.e.thinking \cup p.e.text) = {}
         /\ AtMostOne(p.e.thinking) /\ AtMostOne(p.e.text)
    BY DEF AnthropicOK
  <2>12. next \notin opened
    <3>1. opened \subseteq 0..(next - 1)
      BY <2>8, LifecycleOpen DEF Wire
    <3>2. next \notin 0..(next - 1)
      BY <1>1, <2>1
    <3>3. QED
      BY <3>1, <3>2
  <2>13. opened \cup {next} = q.e.thinking \cup q.e.text \cup CallBlocks(p.e)
    BY <1>3, <2>6, <2>7
  <2>14. q \in AnthropicPair
    BY <2>4, <2>5, <2>6, <2>7, <2>9 DEF AnthropicPair
  <2>15. AtMostOne(q.e.thinking) /\ AtMostOne(q.e.text)
    BY <2>6, <2>11 DEF AtMostOne
  <2>16. Wire(q.out, q.e.next, q.e.thinking \cup q.e.text \cup CallBlocks(p.e), rec)
    BY <2>6, <2>7, <2>9, <2>13
  <2>17. /\ q.e.thinking \cap q.e.text = {} /\ CallBlocks(p.e) \cap (q.e.thinking \cup q.e.text) = {}
         /\ (q.e.started => q.out # <<>>) /\ q.e.calls = p.e.calls
         /\ \A b, w : Owned(p.out, b, w) => Owned(q.out, b, w)
    BY <2>6, <2>7, <2>9, <2>10, <2>11, <2>12
  <2>18. AnthropicOK(q, from, rec)
    BY <2>14, <2>15, <2>16, <2>17, SameCalls
  <2>19. QED
    BY <2>6, <2>18
<1>4. QED
  BY <1>2, <1>3

LEMMA StartThinkingStep ==
    ASSUME NEW p, NEW from, NEW rec, AnthropicOK(p, from, rec), p.e.started, NEW q, q = StartThinking(p)
    PROVE  /\ AnthropicOK(q, from, rec) /\ q.e.started
           /\ q.e.thinking # {} /\ q.e.text = p.e.text /\ q.e.calls = p.e.calls
           /\ q.e.saw = p.e.saw /\ q.e.stop = p.e.stop /\ q.e.failed = p.e.failed
<1>1. p \in AnthropicPair /\ p.e.next \in Nat
  BY EncoderTypes DEF AnthropicOK
<1>2. CASE p.e.thinking # {}
  BY <1>2 DEF StartThinking
<1>3. CASE p.e.thinking = {}
  <2>1. PICK next : next = p.e.next
    OBVIOUS
  <2>2. PICK ev \in Event : ev = Ev("thinking_start", next, 0) /\ ev.t = "thinking_start" /\ ev.i = next
    <3>1. "thinking_start" \in CanonicalType \cup ClientTypes /\ next \in Nat /\ 0 \in Nat
      BY <1>1, <2>1 DEF ClientTypes
    <3>2. QED
      BY <3>1, EventOf
  <2>3. q = [[p EXCEPT !.e.thinking = {next}, !.e.next = @ + 1] EXCEPT !.out = Append(@, ev)]
    BY <1>3, <2>1, <2>2 DEF StartThinking, Put
  <2>4. q = [e |-> [p.e EXCEPT !.thinking = {next}, !.next = next + 1], out |-> Append(p.out, ev)]
    BY <1>1, <2>1, <2>3 DEF AnthropicPair, AnthropicEncoder
  <2>5. q.e = [p.e EXCEPT !.thinking = {next}, !.next = next + 1] /\ q.out = Append(p.out, ev)
    BY <2>4
  <2>6. /\ q.e \in AnthropicEncoder /\ q.e.started = p.e.started /\ q.e.next = next + 1
        /\ q.e.thinking = {next} /\ q.e.text = p.e.text /\ q.e.calls = p.e.calls
        /\ q.e.saw = p.e.saw /\ q.e.stop = p.e.stop /\ q.e.failed = p.e.failed
    <3>1. p.e \in AnthropicEncoder /\ {next} \in SUBSET Nat /\ next + 1 \in Nat
      BY <1>1, <2>1 DEF AnthropicPair
    <3>2. PICK a, x : a \in AnthropicEncoder /\ a = p.e /\ x = q.e
      BY <3>1
    <3>3. x = [a EXCEPT !.thinking = {next}, !.next = next + 1]
      BY <2>5, <3>2
    <3>4. x \in AnthropicEncoder
      <4>1. PICK y : y = [a EXCEPT !.next = next + 1]
        OBVIOUS
      <4>2. y \in AnthropicEncoder
        BY <3>1, <3>2, <4>1 DEF AnthropicEncoder
      <4>3. x = [y EXCEPT !.thinking = {next}]
        BY <3>2, <3>3, <4>1 DEF AnthropicEncoder
      <4>4. QED
        BY <3>1, <4>2, <4>3 DEF AnthropicEncoder
    <3>5. /\ x.started = a.started /\ x.next = next + 1 /\ x.calls = a.calls /\ x.thinking = {next}
          /\ x.text = a.text /\ x.saw = a.saw /\ x.stop = a.stop /\ x.failed = a.failed
      BY <3>2, <3>3 DEF AnthropicEncoder
    <3>6. QED
      BY <3>2, <3>4, <3>5
  <2>7. PICK s, t, opened : /\ s = p.out /\ t = q.out
                            /\ opened = p.e.thinking \cup p.e.text \cup CallBlocks(p.e)
    OBVIOUS
  <2>8. Wire(s, next, opened, rec) /\ s # <<>> /\ t = Append(s, ev) /\ ev.t \in BeginTypes
    BY <2>1, <2>2, <2>5, <2>7 DEF AnthropicOK, BeginTypes
  <2>9. s \in Seq(Event) /\ t \in Seq(Event) /\ t # <<>> /\ Wire(t, next + 1, opened \cup {next}, rec)
    BY <2>2, <2>8, WireAppend
  <2>10. \A b, w : Owned(s, b, w) => Owned(t, b, w)
    <3>1. ~IsCall(ev)
      BY <2>2 DEF IsCall
    <3>2. QED
      BY <2>8, <2>9, <3>1, OwnedAppend
  <2>11. /\ p.e.thinking \cap p.e.text = {} /\ CallBlocks(p.e) \cap (p.e.thinking \cup p.e.text) = {}
         /\ AtMostOne(p.e.thinking) /\ AtMostOne(p.e.text)
    BY DEF AnthropicOK
  <2>12. next \notin opened
    <3>1. opened \subseteq 0..(next - 1)
      BY <2>8, LifecycleOpen DEF Wire
    <3>2. next \notin 0..(next - 1)
      BY <1>1, <2>1
    <3>3. QED
      BY <3>1, <3>2
  <2>13. opened \cup {next} = q.e.thinking \cup q.e.text \cup CallBlocks(p.e)
    BY <1>3, <2>6, <2>7
  <2>14. q \in AnthropicPair
    BY <2>4, <2>5, <2>6, <2>7, <2>9 DEF AnthropicPair
  <2>15. AtMostOne(q.e.thinking) /\ AtMostOne(q.e.text)
    BY <2>6, <2>11 DEF AtMostOne
  <2>16. Wire(q.out, q.e.next, q.e.thinking \cup q.e.text \cup CallBlocks(p.e), rec)
    BY <2>6, <2>7, <2>9, <2>13
  <2>17. /\ q.e.thinking \cap q.e.text = {} /\ CallBlocks(p.e) \cap (q.e.thinking \cup q.e.text) = {}
         /\ (q.e.started => q.out # <<>>) /\ q.e.calls = p.e.calls
         /\ \A b, w : Owned(p.out, b, w) => Owned(q.out, b, w)
    BY <2>6, <2>7, <2>9, <2>10, <2>11, <2>12
  <2>18. AnthropicOK(q, from, rec)
    BY <2>14, <2>15, <2>16, <2>17, SameCalls
  <2>19. QED
    BY <2>6, <2>18
<1>4. QED
  BY <1>2, <1>3

\* A call begins.
LEMMA StartCallStep ==
    ASSUME NEW p, NEW from, NEW rec, AnthropicOK(p, from, rec), p.e.started,
           NEW ev \in Event, ev.i \notin DOMAIN p.e.calls, ev.n = Own(from, ev.i),
           NEW q, q = StartCall(p, ev)
    PROVE  /\ AnthropicOK(q, from, rec) /\ q.e.started
           /\ q.e.thinking = p.e.thinking /\ q.e.text = p.e.text
           /\ DOMAIN q.e.calls = DOMAIN p.e.calls \cup {ev.i}
           /\ q.e.saw /\ q.e.stop = p.e.stop /\ q.e.failed = p.e.failed
<1>1. p \in AnthropicPair /\ p.e.next \in Nat /\ ev.i \in Nat /\ ev.n \in Nat
      /\ DOMAIN p.e.calls \in SUBSET Nat /\ p.e.calls \in [DOMAIN p.e.calls -> Nat]
  BY EncoderTypes DEF AnthropicOK, Event
<1>2. PICK next, old, i0, D : /\ next = p.e.next /\ old = p.e.calls /\ i0 = ev.i
                              /\ D = DOMAIN p.e.calls \cup {ev.i}
  OBVIOUS
<1>3. PICK calls : calls = [i \in D |-> IF i = i0 THEN next ELSE old[i]]
  OBVIOUS
<1>4. PICK w \in Event : /\ w = Ev("call_start", next, ev.n) /\ w.t = "call_start"
                         /\ w.i = next /\ w.n = ev.n
  <2>1. "call_start" \in CanonicalType \cup ClientTypes /\ next \in Nat /\ ev.n \in Nat
    BY <1>1, <1>2 DEF ClientTypes
  <2>2. QED
    BY <2>1, EventOf
<1>5. D \in SUBSET Nat /\ calls \in [D -> Nat] /\ next \in Nat /\ next + 1 \in Nat
  <2>1. \A i \in D : i # i0 => old[i] \in Nat
    BY <1>1, <1>2
  <2>2. QED
    BY <1>1, <1>2, <1>3, <2>1
<1>6. q = [[p EXCEPT !.e.calls = calls, !.e.next = @ + 1, !.e.saw = TRUE] EXCEPT !.out = Append(@, w)]
  BY <1>2, <1>3, <1>4, Zenon DEF StartCall, Put
<1>7. q = [e |-> [p.e EXCEPT !.calls = calls, !.next = next + 1, !.saw = TRUE], out |-> Append(p.out, w)]
  BY <1>1, <1>2, <1>6 DEF AnthropicPair, AnthropicEncoder
<1>8. q.e = [p.e EXCEPT !.calls = calls, !.next = next + 1, !.saw = TRUE] /\ q.out = Append(p.out, w)
  BY <1>7
<1>9. /\ q.e \in AnthropicEncoder /\ q.e.started = p.e.started /\ q.e.next = next + 1
      /\ q.e.thinking = p.e.thinking /\ q.e.text = p.e.text /\ q.e.calls = calls
      /\ q.e.saw = TRUE /\ q.e.stop = p.e.stop /\ q.e.failed = p.e.failed
  <2>1. p.e \in AnthropicEncoder /\ calls \in UNION {[S -> Nat] : S \in SUBSET Nat}
    BY <1>1, <1>5 DEF AnthropicPair
  <2>2. PICK a, x : a \in AnthropicEncoder /\ a = p.e /\ x = q.e
    BY <2>1
  <2>3. x = [a EXCEPT !.calls = calls, !.next = next + 1, !.saw = TRUE]
    BY <1>8, <2>2
  <2>4. x \in AnthropicEncoder
    <3>1. PICK M : M = UNION {[S -> Nat] : S \in SUBSET Nat}
      OBVIOUS
    <3>2. calls \in M /\ next + 1 \in Nat
      BY <1>5, <2>1, <3>1
    <3>3. AnthropicEncoder = [started : BOOLEAN, next : Nat, thinking : SUBSET Nat,
                              text : SUBSET Nat, calls : M, saw : BOOLEAN,
                              stop : {"end_turn", "max_tokens"}, failed : BOOLEAN]
      BY <3>1, Zenon DEF AnthropicEncoder
    <3>4. PICK y : y = [a EXCEPT !.next = next + 1, !.saw = TRUE]
      OBVIOUS
    <3>5. y \in AnthropicEncoder /\ x = [y EXCEPT !.calls = calls]
      BY <2>2, <2>3, <3>2, <3>4 DEF AnthropicEncoder
    <3>6. QED
      BY <3>2, <3>3, <3>5
  <2>5. /\ x.started = a.started /\ x.next = next + 1 /\ x.calls = calls /\ x.saw = TRUE
        /\ x.thinking = a.thinking /\ x.text = a.text /\ x.stop = a.stop /\ x.failed = a.failed
    BY <2>2, <2>3 DEF AnthropicEncoder
  <2>6. QED
    BY <2>2, <2>4, <2>5
<1>10. PICK s, t, opened : /\ s = p.out /\ t = q.out
                           /\ opened = p.e.thinking \cup p.e.text \cup CallBlocks(p.e)
  OBVIOUS
<1>11. Wire(s, next, opened, rec) /\ s # <<>> /\ t = Append(s, w) /\ w.t \in BeginTypes
  BY <1>2, <1>4, <1>8, <1>10 DEF AnthropicOK, BeginTypes
<1>12. s \in Seq(Event) /\ t \in Seq(Event) /\ t # <<>> /\ Wire(t, next + 1, opened \cup {next}, rec)
  BY <1>4, <1>11, WireAppend
<1>13. next \notin opened /\ \A j \in 1..Len(s) : IsCall(s[j]) => s[j].i # next
  <2>1. opened \subseteq 0..(next - 1) /\ next \notin 0..(next - 1)
    BY <1>5, <1>11, LifecycleOpen DEF Wire
  <2>2. {s[j].i : j \in BegunIn(s, Len(s))} = 0..(next - 1) /\ \A j \in 1..Len(s) : s[j].t \in MidTypes
    BY <1>11 DEF Wire, Lifecycle
  <2>3. \A j \in 1..Len(s) : IsCall(s[j]) => j \in BegunIn(s, Len(s))
    <3>1. "call_added" \notin MidTypes
      BY DEF MidTypes, BeginTypes, DeltaTypes
    <3>2. QED
      BY <2>2, <3>1 DEF IsCall, BegunIn, Begins
  <2>4. QED
    BY <2>1, <2>2, <2>3
<1>14. \A b, v : Owned(s, b, v) => Owned(t, b, v)
  <2>1. ASSUME NEW b, NEW v, Owned(s, b, v) PROVE Owned(t, b, v)
    <3>1. b # next
      BY <1>13, <2>1 DEF Owned
    <3>2. IsCall(w) /\ w.i = b => w.n = v
      BY <1>4, <3>1
    <3>3. QED
      BY <1>11, <1>12, <2>1, <3>2, OwnedAppend
  <2>2. QED
    BY <2>1
<1>15. Owned(t, next, ev.n)
  <2>1. IsCall(w) /\ w.i = next /\ w.n = ev.n
    BY <1>4 DEF IsCall
  <2>2. \A j \in 1..Len(s) : IsCall(s[j]) /\ s[j].i = next => s[j].n = ev.n
    BY <1>13
  <2>3. PICK v : v = ev.n
    OBVIOUS
  <2>4. Owned(Append(s, w), next, v)
    BY <1>12, <2>1, <2>2, <2>3, OwnedAppend
  <2>5. QED
    BY <1>11, <2>3, <2>4
<1>16. CallBlocks(q.e) = CallBlocks(p.e) \cup {next}
  <2>1. \A i \in D : calls[i] = IF i = i0 THEN next ELSE old[i]
    BY <1>3
  <2>2. DOMAIN calls = D /\ D = DOMAIN old \cup {i0} /\ i0 \notin DOMAIN old
    BY <1>2, <1>3
  <2>3. CallBlocks(q.e) = {calls[i] : i \in D} /\ CallBlocks(p.e) = {old[i] : i \in DOMAIN old}
    BY <1>2, <1>9, <2>2 DEF CallBlocks
  <2>4. QED
    BY <2>1, <2>2, <2>3
<1>17. /\ p.e.thinking \cap p.e.text = {} /\ CallBlocks(p.e) \cap (p.e.thinking \cup p.e.text) = {}
       /\ AtMostOne(p.e.thinking) /\ AtMostOne(p.e.text)
       /\ \A i, j \in DOMAIN old : old[i] = old[j] => i = j
       /\ \A i \in DOMAIN old : Own(from, i) \in Nat /\ Owned(s, old[i], Own(from, i))
  BY <1>2, <1>10, Zenon DEF AnthropicOK
<1>18. \A i, j \in DOMAIN q.e.calls : q.e.calls[i] = q.e.calls[j] => i = j
  <2>1. \A i \in DOMAIN old : old[i] # next
    BY <1>2, <1>10, <1>13 DEF CallBlocks
  <2>2. SUFFICES ASSUME NEW i \in D, NEW j \in D, calls[i] = calls[j] PROVE i = j
    BY <1>3, <1>9
  <2>3. (i = i0 \/ i \in DOMAIN old) /\ (j = i0 \/ j \in DOMAIN old)
    BY <1>2
  <2>4. i0 \notin DOMAIN old
    BY <1>2
  <2>5. QED
    BY <1>3, <1>17, <2>1, <2>2, <2>3, <2>4
<1>19. ASSUME NEW i \in DOMAIN q.e.calls
       PROVE  Own(from, i) \in Nat /\ Owned(q.out, q.e.calls[i], Own(from, i))
  <2>1. i \in D
    BY <1>3, <1>9, <1>19
  <2>2. CASE i = i0
    <3>1. Own(from, i) = ev.n /\ q.e.calls[i] = next
      BY <1>2, <1>3, <1>9, <2>1, <2>2
    <3>2. QED
      BY <1>1, <1>10, <1>15, <3>1
  <2>3. CASE i # i0
    <3>1. i \in DOMAIN old /\ q.e.calls[i] = old[i]
      BY <1>2, <1>3, <1>9, <2>1, <2>3
    <3>2. QED
      BY <1>10, <1>14, <1>17, <3>1
  <2>4. QED
    BY <2>2, <2>3
<1>20. q \in AnthropicPair
  BY <1>7, <1>8, <1>9, <1>10, <1>12 DEF AnthropicPair
<1>21. Wire(q.out, q.e.next, q.e.thinking \cup q.e.text \cup CallBlocks(q.e), rec)
  <2>1. opened \cup {next} = q.e.thinking \cup q.e.text \cup CallBlocks(q.e)
    BY <1>9, <1>10, <1>16
  <2>2. QED
    BY <1>9, <1>10, <1>12, <2>1
<1>22. /\ AtMostOne(q.e.thinking) /\ AtMostOne(q.e.text) /\ q.e.thinking \cap q.e.text = {}
       /\ CallBlocks(q.e) \cap (q.e.thinking \cup q.e.text) = {}
       /\ (q.e.started => q.out # <<>>)
  BY <1>9, <1>10, <1>12, <1>13, <1>16, <1>17
<1>23. AnthropicOK(q, from, rec)
  BY <1>18, <1>19, <1>20, <1>21, <1>22, Zenon DEF AnthropicOK
<1>24. DOMAIN q.e.calls = DOMAIN p.e.calls \cup {ev.i}
  BY <1>2, <1>3, <1>9
<1>25. QED
  BY <1>9, <1>23, <1>24

\* A call is stopped.
LEMMA StopCallStep ==
    ASSUME NEW p, NEW from, NEW rec, AnthropicOK(p, from, rec), NEW i0 \in DOMAIN p.e.calls,
           NEW q, q = StopCall(p, i0)
    PROVE  /\ AnthropicOK(q, from, rec) /\ q.e.started = p.e.started
           /\ q.e.thinking = p.e.thinking /\ q.e.text = p.e.text
           /\ DOMAIN q.e.calls = DOMAIN p.e.calls \ {i0}
           /\ q.e.saw = p.e.saw /\ q.e.stop = p.e.stop /\ q.e.failed = p.e.failed
<1>1. p \in AnthropicPair /\ p.e.next \in Nat
      /\ DOMAIN p.e.calls \in SUBSET Nat /\ p.e.calls \in [DOMAIN p.e.calls -> Nat]
  BY EncoderTypes DEF AnthropicOK
<1>2. PICK old, D, b0 : old = p.e.calls /\ D = DOMAIN p.e.calls \ {i0} /\ b0 = p.e.calls[i0]
  OBVIOUS
<1>3. PICK calls : calls = [i \in D |-> old[i]]
  OBVIOUS
<1>4. PICK w \in Event : w = Ev("stop", b0, 0) /\ w.t = "stop" /\ w.i = b0
  <2>1. "stop" \in CanonicalType \cup ClientTypes /\ b0 \in Nat /\ 0 \in Nat
    BY <1>1, <1>2 DEF ClientTypes
  <2>2. QED
    BY <2>1, EventOf
<1>5. D \in SUBSET Nat /\ calls \in [D -> Nat]
  BY <1>1, <1>2, <1>3
<1>6. q = [[p EXCEPT !.e.calls = calls] EXCEPT !.out = Append(@, w)]
  BY <1>2, <1>3, <1>4, Zenon DEF StopCall, Put, Restrict
<1>7. q = [e |-> [p.e EXCEPT !.calls = calls], out |-> Append(p.out, w)]
  BY <1>1, <1>6 DEF AnthropicPair, AnthropicEncoder
<1>8. q.e = [p.e EXCEPT !.calls = calls] /\ q.out = Append(p.out, w)
  BY <1>7
<1>9. /\ q.e \in AnthropicEncoder /\ q.e.started = p.e.started /\ q.e.next = p.e.next
      /\ q.e.thinking = p.e.thinking /\ q.e.text = p.e.text /\ q.e.calls = calls
      /\ q.e.saw = p.e.saw /\ q.e.stop = p.e.stop /\ q.e.failed = p.e.failed
  <2>1. p.e \in AnthropicEncoder /\ calls \in UNION {[S -> Nat] : S \in SUBSET Nat}
    BY <1>1, <1>5 DEF AnthropicPair
  <2>2. QED
    BY <1>8, <2>1 DEF AnthropicEncoder
<1>10. PICK s, t, next, opened : /\ s = p.out /\ t = q.out /\ next = p.e.next
                                 /\ opened = p.e.thinking \cup p.e.text \cup CallBlocks(p.e)
  OBVIOUS
<1>11. Wire(s, next, opened, rec) /\ b0 \in opened /\ t = Append(s, w)
  BY <1>2, <1>8, <1>10 DEF AnthropicOK, CallBlocks
<1>12. /\ s \in Seq(Event) /\ t \in Seq(Event) /\ t # <<>> /\ Wire(t, next, opened \ {b0}, rec)
  BY <1>4, <1>11, WireAppend
<1>13. \A b, v : Owned(s, b, v) => Owned(t, b, v)
  <2>1. ~IsCall(w)
    BY <1>4 DEF IsCall
  <2>2. QED
    BY <1>11, <1>12, <2>1, OwnedAppend
<1>14. /\ p.e.thinking \cap p.e.text = {} /\ CallBlocks(p.e) \cap (p.e.thinking \cup p.e.text) = {}
       /\ AtMostOne(p.e.thinking) /\ AtMostOne(p.e.text)
       /\ \A i, j \in DOMAIN old : old[i] = old[j] => i = j
       /\ \A i \in DOMAIN old : Own(from, i) \in Nat /\ Owned(s, old[i], Own(from, i))
  BY <1>2, <1>10, Zenon DEF AnthropicOK
<1>15. DOMAIN q.e.calls = D /\ (\A i \in D : i \in DOMAIN old /\ q.e.calls[i] = old[i]) /\ D = DOMAIN old \ {i0}
  BY <1>2, <1>3, <1>9
<1>16. CallBlocks(q.e) = CallBlocks(p.e) \ {b0}
  <2>1. CallBlocks(q.e) = {old[i] : i \in D} /\ CallBlocks(p.e) = {old[i] : i \in DOMAIN old}
    BY <1>2, <1>15 DEF CallBlocks
  <2>2. \A i \in D : old[i] # b0
    BY <1>2, <1>14, <1>15
  <2>3. \A i \in DOMAIN old : old[i] # b0 => i \in D
    BY <1>2, <1>15
  <2>4. QED
    BY <2>1, <2>2, <2>3, <1>15
<1>17. \A i, j \in DOMAIN q.e.calls : q.e.calls[i] = q.e.calls[j] => i = j
  BY <1>14, <1>15
<1>18. \A i \in DOMAIN q.e.calls : Own(from, i) \in Nat /\ Owned(q.out, q.e.calls[i], Own(from, i))
  BY <1>10, <1>13, <1>14, <1>15
<1>19. q \in AnthropicPair
  BY <1>7, <1>8, <1>9, <1>10, <1>12 DEF AnthropicPair
<1>20. Wire(q.out, q.e.next, q.e.thinking \cup q.e.text \cup CallBlocks(q.e), rec)
  <2>1. b0 \in CallBlocks(p.e)
    BY <1>2 DEF CallBlocks
  <2>2. opened \ {b0} = q.e.thinking \cup q.e.text \cup CallBlocks(q.e)
    BY <1>9, <1>10, <1>14, <1>16, <2>1
  <2>3. QED
    BY <1>9, <1>10, <1>12, <2>2
<1>21. /\ AtMostOne(q.e.thinking) /\ AtMostOne(q.e.text) /\ q.e.thinking \cap q.e.text = {}
       /\ CallBlocks(q.e) \cap (q.e.thinking \cup q.e.text) = {}
       /\ (q.e.started => q.out # <<>>)
  BY <1>9, <1>10, <1>12, <1>14, <1>16
<1>22. AnthropicOK(q, from, rec)
  BY <1>17, <1>18, <1>19, <1>20, <1>21, Zenon DEF AnthropicOK
<1>23. QED
  BY <1>2, <1>9, <1>15, <1>22

\* A delta is written within a block that is open.
LEMMA DeltaStep ==
    ASSUME NEW p, NEW from, NEW rec, AnthropicOK(p, from, rec), NEW ev \in Event, ev.t \in DeltaTypes,
           NEW blocks, AtMostOne(blocks), blocks # {},
           \/ ev.t = "text" /\ blocks = p.e.text
           \/ ev.t = "thinking" /\ blocks = p.e.thinking
           \/ ev.t = "args" /\ ev.i \in DOMAIN p.e.calls /\ blocks = {p.e.calls[ev.i]},
           NEW q, q = AnthropicDelta(p, ev, blocks)
    PROVE  AnthropicOK(q, from, Append(rec, DeltaOf(from, ev))) /\ q.e = p.e
<1>1. p \in AnthropicPair /\ p.e \in AnthropicEncoder /\ ev.n \in Nat
  BY EncoderTypes DEF AnthropicOK, Event
<1>2. PICK b : b \in blocks /\ b = CHOOSE block \in blocks : TRUE
  BY Zenon
<1>3. PICK s, next, opened : /\ s = p.out /\ next = p.e.next
                             /\ opened = p.e.thinking \cup p.e.text \cup CallBlocks(p.e)
  OBVIOUS
<1>4. Wire(s, next, opened, rec) /\ b \in opened
  BY <1>2, <1>3 DEF AnthropicOK, CallBlocks
<1>5. b \in Nat
  BY <1>4, LifecycleOpen DEF Wire
<1>6. PICK w \in Event : w = Ev(ev.t, b, ev.n) /\ w.t = ev.t /\ w.i = b /\ w.n = ev.n
  <2>1. ev.t \in CanonicalType \cup ClientTypes
    BY DEF Event
  <2>2. QED
    BY <1>1, <1>5, <2>1, EventOf
<1>7. q = [p EXCEPT !.out = Append(@, w)]
  BY <1>2, <1>6, Zenon DEF AnthropicDelta, Put
<1>8. q = [e |-> p.e, out |-> Append(p.out, w)]
  BY <1>1, <1>7 DEF AnthropicPair
<1>9. q.e = p.e /\ q.out = Append(p.out, w)
  BY <1>8
<1>10. PICK t : t = q.out /\ t = Append(s, w)
  BY <1>3, <1>9
<1>11. PICK more : more = Append(rec, DeltaOf(from, ev))
  OBVIOUS
<1>12. t \in Seq(Event) /\ t # <<>> /\ Wire(t, next, opened, more)
  <2>1. CASE ev.t \in {"text", "thinking"}
    <3>1. more = Append(rec, <<w.t, 0, w.n>>)
      BY <1>6, <1>11, <2>1 DEF DeltaOf
    <3>2. w.t \in {"thinking", "text"} /\ w.i \in opened
      BY <1>4, <1>6, <2>1
    <3>3. /\ Append(s, w) \in Seq(Event) /\ Append(s, w) # <<>>
          /\ Wire(Append(s, w), next, opened, Append(rec, <<w.t, 0, w.n>>))
      <4>1. Wire(s, next, opened, rec)
        BY <1>4
      <4>2. QED
        BY <3>2, <4>1, WireAppend
    <3>4. QED
      BY <1>10, <3>1, <3>3, Zenon
  <2>2. CASE ev.t = "args"
    <3>1. PICK v : v = Own(from, ev.i)
      OBVIOUS
    <3>2. v \in Nat /\ Owned(s, b, v)
      BY <1>2, <1>3, <2>2, <3>1 DEF AnthropicOK
    <3>3. more = Append(rec, <<w.t, v, w.n>>)
      BY <1>6, <1>11, <2>2, <3>1 DEF DeltaOf
    <3>4. w.t = "args" /\ w.i \in opened /\ Owned(s, w.i, v)
      BY <1>4, <1>6, <2>2, <3>2
    <3>5. /\ Append(s, w) \in Seq(Event) /\ Append(s, w) # <<>>
          /\ Wire(Append(s, w), next, opened, Append(rec, <<w.t, v, w.n>>))
      <4>1. Wire(s, next, opened, rec) /\ v \in Nat
        BY <1>4, <3>2
      <4>2. QED
        BY <3>4, <4>1, WireAppend
    <3>6. QED
      BY <1>10, <3>3, <3>5, Zenon
  <2>3. QED
    BY <2>1, <2>2 DEF DeltaTypes
<1>13. \A c, v : Owned(s, c, v) => Owned(t, c, v)
  <2>1. ~IsCall(w)
    BY <1>6 DEF IsCall, DeltaTypes
  <2>2. QED
    BY <1>4, <1>10, <1>12, <2>1, OwnedAppend DEF Wire, Lifecycle
<1>14. q \in AnthropicPair
  BY <1>1, <1>8, <1>9, <1>10, <1>12 DEF AnthropicPair
<1>15. /\ AtMostOne(q.e.thinking) /\ AtMostOne(q.e.text) /\ q.e.thinking \cap q.e.text = {}
       /\ CallBlocks(p.e) \cap (q.e.thinking \cup q.e.text) = {} /\ q.e.calls = p.e.calls
  BY <1>9 DEF AnthropicOK
<1>16. Wire(q.out, q.e.next, q.e.thinking \cup q.e.text \cup CallBlocks(p.e), more)
  BY <1>3, <1>9, <1>10, <1>12
<1>17. (q.e.started => q.out # <<>>) /\ \A c, v : Owned(p.out, c, v) => Owned(q.out, c, v)
  BY <1>3, <1>10, <1>12, <1>13
<1>18. AnthropicOK(q, from, more)
  BY <1>14, <1>15, <1>16, <1>17, SameCalls
<1>19. QED
  BY <1>9, <1>11, <1>18

\* A step of the status alone.
LEMMA StatusStep ==
    ASSUME NEW p, NEW from, NEW rec, AnthropicOK(p, from, rec), NEW q \in AnthropicPair,
           q.out = p.out, q.e.started = p.e.started, q.e.next = p.e.next,
           q.e.thinking = p.e.thinking, q.e.text = p.e.text, q.e.calls = p.e.calls
    PROVE  AnthropicOK(q, from, rec)
<1>1. /\ AtMostOne(q.e.thinking) /\ AtMostOne(q.e.text) /\ q.e.thinking \cap q.e.text = {}
      /\ CallBlocks(p.e) \cap (q.e.thinking \cup q.e.text) = {} /\ q.e.calls = p.e.calls
  BY DEF AnthropicOK
<1>2. /\ Wire(q.out, q.e.next, q.e.thinking \cup q.e.text \cup CallBlocks(p.e), rec)
      /\ (q.e.started => q.out # <<>>)
  BY DEF AnthropicOK
<1>3. \A b, w : Owned(p.out, b, w) => Owned(q.out, b, w)
  OBVIOUS
<1>4. QED
  BY <1>1, <1>2, <1>3, SameCalls

\* What the encoder has made of what was told.
AnthropicKeeps(p, c) ==
    /\ AnthropicOK(p, c.from, Keep(c.deltas, AnyShown))
    /\ c.failed => c.ends
    /\ c.text => p.e.text # {}
    /\ c.thinking => p.e.thinking # {}
    /\ ~c.failed => DOMAIN p.e.calls = c.calls
    /\ c.called => p.e.saw
    /\ p.e.failed = c.failed

LEMMA AnthropicStep ==
    ASSUME NEW p, NEW c, AnthropicKeeps(p, c), NEW ev, NEW d, Tells(c, ev, d),
           NEW q, q = EncodeAnthropic(p, ev)
    PROVE  AnthropicKeeps(q, d)
<1>1. PICK from, rec : from = c.from /\ rec = Keep(c.deltas, AnyShown)
  OBVIOUS
<1>2. /\ AnthropicOK(p, from, rec) /\ p \in AnthropicPair
      /\ ev \in Event /\ ev.t \in CanonicalType /\ d.from = from /\ c \in Told /\ d \in Told
  BY <1>1 DEF AnthropicKeeps, AnthropicOK, Tells
<1>3. d.failed => d.ends
  BY DEF AnthropicKeeps, Tells
<1>4. ev.t # "failed" => ~c.ends /\ ~c.failed /\ ~d.failed
  BY <1>2 DEF AnthropicKeeps, Tells, Told
<1>5. ev.t \notin DeltaTypes => Keep(d.deltas, AnyShown) = rec
  BY <1>1, KeepsAny
<1>6. PICK call : call = IF ev.i \in DOMAIN p.e.calls THEN {p.e.calls[ev.i]} ELSE {}
  OBVIOUS
<1>7. q = CASE ev.t = "item_added"     -> Start(p)
            [] ev.t = "call_added"     -> StartCall(StopText(StopThinking(Start(p))), ev)
            [] ev.t = "part_added"     -> StartText(StopThinking(Start(p)))
            [] ev.t = "thinking_added" -> StartThinking(Start(p))
            [] ev.t = "text"           -> AnthropicDelta(p, ev, p.e.text)
            [] ev.t = "thinking"       -> AnthropicDelta(p, ev, p.e.thinking)
            [] ev.t = "args"           -> AnthropicDelta(p, ev, call)
            [] ev.t = "text_done"      -> StopText(p)
            [] ev.t = "args_done"      -> IF call = {} THEN p ELSE StopCall(p, ev.i)
            [] ev.t = "completed"      -> [p EXCEPT !.e.stop = "end_turn", !.e.saw = @ \/ ev.n = 1]
            [] ev.t = "incomplete"     -> [p EXCEPT !.e.stop = "max_tokens", !.e.saw = @ \/ ev.n = 1]
            [] ev.t = "failed"         -> [p EXCEPT !.e.failed = TRUE]
            [] OTHER                   -> p
  BY <1>6, Zenon DEF EncodeAnthropic
<1>8. ASSUME AnthropicOK(q, from, rec), ev.t \notin DeltaTypes, ev.t # "failed",
             q.e.failed = p.e.failed, d.text => q.e.text # {}, d.thinking => q.e.thinking # {},
             DOMAIN q.e.calls = d.calls, d.called => q.e.saw
      PROVE  AnthropicKeeps(q, d)
  <2>1. p.e.failed = c.failed /\ d.failed = (c.failed \/ ev.t = "failed") /\ c.failed \in BOOLEAN
    BY <1>2 DEF AnthropicKeeps, Tells, Told
  <2>2. QED
    BY <1>2, <1>3, <1>5, <1>8, <2>1 DEF AnthropicKeeps
<1>9. c.text => p.e.text # {}
  BY DEF AnthropicKeeps
<1>10. c.thinking => p.e.thinking # {}
  BY DEF AnthropicKeeps
<1>11. (~c.failed => DOMAIN p.e.calls = c.calls) /\ (c.called => p.e.saw) /\ p.e.failed = c.failed
  BY DEF AnthropicKeeps
<1>12. /\ d.text => ev.t = "part_added" \/ (c.text /\ ev.t \notin {"text_done", "call_added"})
       /\ d.thinking => ev.t = "thinking_added" \/ (c.thinking /\ ev.t \notin {"part_added", "call_added"})
       /\ d.called = (c.called \/ ev.t = "call_added")
       /\ d.failed \/ d.calls = IF ev.t = "call_added" THEN c.calls \cup {ev.i}
                                ELSE IF ev.t = "args_done" THEN c.calls \ {ev.i} ELSE c.calls
  BY DEF Tells
<1>13. CASE ev.t = "item_added"
  <2>1. q = Start(p)
    BY <1>7, <1>13
  <2>2. /\ AnthropicOK(q, from, rec)
        /\ q.e.thinking = p.e.thinking /\ q.e.text = p.e.text /\ q.e.calls = p.e.calls
        /\ q.e.saw = p.e.saw /\ q.e.failed = p.e.failed
    BY <1>2, <2>1, StartStep
  <2>3. QED
    BY <1>4, <1>8, <1>9, <1>10, <1>11, <1>12, <1>13, <2>2 DEF DeltaTypes
<1>14. CASE ev.t = "call_added"
  <2>1. PICK p1 : p1 = Start(p)
    OBVIOUS
  <2>2. PICK p2 : p2 = StopThinking(p1)
    OBVIOUS
  <2>3. PICK p3 : p3 = StopText(p2)
    OBVIOUS
  <2>4. q = StartCall(p3, ev)
    BY <1>7, <1>14, <2>1, <2>2, <2>3
  <2>5. /\ AnthropicOK(p1, from, rec) /\ p1.e.started
        /\ p1.e.calls = p.e.calls /\ p1.e.failed = p.e.failed
    BY <1>2, <2>1, StartStep
  <2>6. /\ AnthropicOK(p2, from, rec) /\ p2.e.started
        /\ p2.e.calls = p.e.calls /\ p2.e.failed = p.e.failed
    BY <2>2, <2>5, StopThinkingStep
  <2>7. /\ AnthropicOK(p3, from, rec) /\ p3.e.started
        /\ p3.e.calls = p.e.calls /\ p3.e.failed = p.e.failed
    BY <2>3, <2>6, StopTextStep
  <2>8. ev.i \notin c.calls /\ ev.n = Own(from, ev.i)
    BY <1>1, <1>14 DEF Tells
  <2>9. ev.i \notin DOMAIN p3.e.calls
    BY <1>4, <1>11, <1>14, <2>7, <2>8
  <2>10. /\ AnthropicOK(q, from, rec) /\ DOMAIN q.e.calls = DOMAIN p3.e.calls \cup {ev.i}
         /\ q.e.saw /\ q.e.failed = p3.e.failed
    BY <1>2, <2>4, <2>7, <2>8, <2>9, StartCallStep
  <2>11. QED
    BY <1>4, <1>8, <1>11, <1>12, <1>14, <2>7, <2>10 DEF DeltaTypes
<1>15. CASE ev.t = "part_added"
  <2>1. PICK p1 : p1 = Start(p)
    OBVIOUS
  <2>2. PICK p2 : p2 = StopThinking(p1)
    OBVIOUS
  <2>3. q = StartText(p2)
    BY <1>7, <1>15, <2>1, <2>2
  <2>4. /\ AnthropicOK(p1, from, rec) /\ p1.e.started
        /\ p1.e.calls = p.e.calls /\ p1.e.failed = p.e.failed /\ p1.e.saw = p.e.saw
    BY <1>2, <2>1, StartStep
  <2>5. /\ AnthropicOK(p2, from, rec) /\ p2.e.started
        /\ p2.e.calls = p.e.calls /\ p2.e.failed = p.e.failed /\ p2.e.saw = p.e.saw
    BY <2>2, <2>4, StopThinkingStep
  <2>6. /\ AnthropicOK(q, from, rec) /\ q.e.text # {}
        /\ q.e.calls = p.e.calls /\ q.e.failed = p.e.failed /\ q.e.saw = p.e.saw
    BY <2>3, <2>5, StartTextStep
  <2>7. QED
    BY <1>4, <1>8, <1>11, <1>12, <1>15, <2>6 DEF DeltaTypes
<1>16. CASE ev.t = "thinking_added"
  <2>1. PICK p1 : p1 = Start(p)
    OBVIOUS
  <2>2. q = StartThinking(p1)
    BY <1>7, <1>16, <2>1
  <2>3. /\ AnthropicOK(p1, from, rec) /\ p1.e.started /\ p1.e.text = p.e.text
        /\ p1.e.calls = p.e.calls /\ p1.e.failed = p.e.failed /\ p1.e.saw = p.e.saw
    BY <1>2, <2>1, StartStep
  <2>4. /\ AnthropicOK(q, from, rec) /\ q.e.thinking # {} /\ q.e.text = p.e.text
        /\ q.e.calls = p.e.calls /\ q.e.failed = p.e.failed /\ q.e.saw = p.e.saw
    BY <2>2, <2>3, StartThinkingStep
  <2>5. QED
    BY <1>4, <1>8, <1>9, <1>11, <1>12, <1>16, <2>4 DEF DeltaTypes
<1>17. CASE ev.t = "text_done"
  <2>1. q = StopText(p)
    BY <1>7, <1>17
  <2>2. /\ AnthropicOK(q, from, rec) /\ q.e.thinking = p.e.thinking
        /\ q.e.calls = p.e.calls /\ q.e.failed = p.e.failed /\ q.e.saw = p.e.saw
    BY <1>2, <2>1, StopTextStep
  <2>3. QED
    BY <1>4, <1>8, <1>10, <1>11, <1>12, <1>17, <2>2 DEF DeltaTypes
<1>18. CASE ev.t = "args_done"
  <2>1. q = IF call = {} THEN p ELSE StopCall(p, ev.i)
    BY <1>7, <1>18
  <2>2. CASE ev.i \notin DOMAIN p.e.calls
    <3>1. q = p /\ ev.i \notin c.calls
      BY <1>4, <1>6, <1>11, <1>18, <2>1, <2>2
    <3>2. QED
      BY <1>2, <1>4, <1>8, <1>9, <1>10, <1>11, <1>12, <1>18, <3>1 DEF DeltaTypes
  <2>3. CASE ev.i \in DOMAIN p.e.calls
    <3>1. q = StopCall(p, ev.i)
      BY <1>6, <2>1, <2>3
    <3>2. PICK i0 \in DOMAIN p.e.calls : i0 = ev.i
      BY <2>3
    <3>3. q = StopCall(p, i0)
      BY <3>1, <3>2
    <3>4. /\ AnthropicOK(q, from, rec) /\ q.e.thinking = p.e.thinking /\ q.e.text = p.e.text
          /\ DOMAIN q.e.calls = DOMAIN p.e.calls \ {i0}
          /\ q.e.failed = p.e.failed /\ q.e.saw = p.e.saw
      BY <1>2, <3>2, <3>3, StopCallStep
    <3>5. QED
      BY <1>4, <1>8, <1>9, <1>10, <1>11, <1>12, <1>18, <3>2, <3>4 DEF DeltaTypes
  <2>4. QED
    BY <2>2, <2>3
<1>19. CASE ev.t \in DeltaTypes
  <2>1. PICK blocks : blocks = CASE ev.t = "text" -> p.e.text [] ev.t = "thinking" -> p.e.thinking
                                 [] OTHER -> call
    OBVIOUS
  <2>2. q = AnthropicDelta(p, ev, blocks)
    BY <1>7, <1>19, <2>1 DEF DeltaTypes
  <2>3. /\ ev.t = "text" => c.text
        /\ ev.t = "thinking" => c.thinking
        /\ ev.t = "args" => ev.i \in c.calls
    BY DEF Tells
  <2>4. ev.t # "failed" /\ AtMostOne(p.e.text) /\ AtMostOne(p.e.thinking)
    BY <1>2, <1>19 DEF DeltaTypes, AnthropicOK
  <2>5. /\ AtMostOne(blocks) /\ blocks # {}
        /\ \/ ev.t = "text" /\ blocks = p.e.text
           \/ ev.t = "thinking" /\ blocks = p.e.thinking
           \/ ev.t = "args" /\ ev.i \in DOMAIN p.e.calls /\ blocks = {p.e.calls[ev.i]}
    BY <1>4, <1>6, <1>9, <1>10, <1>11, <1>19, <2>1, <2>3, <2>4 DEF DeltaTypes, AtMostOne
  <2>6. AnthropicOK(q, from, Append(rec, DeltaOf(from, ev))) /\ q.e = p.e
    BY <1>2, <1>19, <2>2, <2>5, DeltaStep
  <2>7. Keep(d.deltas, AnyShown) = Append(rec, DeltaOf(from, ev))
    BY <1>1, <1>19, KeepsAny
  <2>8. d.failed = c.failed /\ ev.t \notin {"part_added", "thinking_added", "call_added", "args_done"}
    BY <1>2, <1>4, <1>19, <2>4 DEF DeltaTypes, Told
  <2>9. d.calls = c.calls /\ (d.called => c.called) /\ (d.text => c.text) /\ (d.thinking => c.thinking)
    <3>1. ~d.failed /\ ev.t # "call_added" /\ ev.t # "args_done"
      BY <1>4, <2>4, <2>8
    <3>2. d.calls = c.calls
      BY <1>12, <3>1
    <3>3. QED
      BY <1>12, <2>8, <3>2, Zenon
  <2>10. QED
    BY <1>2, <1>3, <1>9, <1>10, <1>11, <2>6, <2>7, <2>8, <2>9 DEF AnthropicKeeps
<1>20. CASE ev.t \in {"completed", "incomplete"}
  <2>1. PICK st \in {"end_turn", "max_tokens"} :
           q = [p EXCEPT !.e.stop = st, !.e.saw = @ \/ ev.n = 1]
    BY <1>7, <1>20
  <2>2. PICK sw \in BOOLEAN : sw = (p.e.saw \/ ev.n = 1)
    BY <1>2, EncoderTypes
  <2>3. q = [p EXCEPT !.e.stop = st, !.e.saw = sw]
    BY <1>2, <2>1, <2>2 DEF AnthropicPair, AnthropicEncoder
  <2>4. PICK a, x : a \in AnthropicEncoder /\ a = p.e /\ x = [a EXCEPT !.stop = st, !.saw = sw]
    BY <1>2 DEF AnthropicPair
  <2>5. q = [e |-> x, out |-> p.out]
    BY <1>2, <2>3, <2>4 DEF AnthropicPair, AnthropicEncoder
  <2>6. /\ x \in AnthropicEncoder /\ x.started = a.started /\ x.next = a.next
        /\ x.thinking = a.thinking /\ x.text = a.text /\ x.calls = a.calls
        /\ x.saw = sw /\ x.failed = a.failed
    <3>1. x \in AnthropicEncoder
      BY <2>4 DEF AnthropicEncoder
    <3>2. /\ x.started = a.started /\ x.next = a.next
          /\ x.thinking = a.thinking /\ x.text = a.text /\ x.calls = a.calls
      BY <2>4 DEF AnthropicEncoder
    <3>3. x.failed = a.failed
      BY <2>4 DEF AnthropicEncoder
    <3>4. x.saw = sw
      BY <2>4 DEF AnthropicEncoder
    <3>5. QED
      BY <3>1, <3>2, <3>3, <3>4
  <2>7. AnthropicOK(q, from, rec) /\ q.e = x
    <3>1. q.e = x /\ q.out = p.out
      BY <2>5
    <3>2. q \in AnthropicPair
      BY <1>2, <2>5, <2>6, <3>1 DEF AnthropicPair
    <3>3. /\ q.e.started = p.e.started /\ q.e.next = p.e.next
          /\ q.e.thinking = p.e.thinking /\ q.e.text = p.e.text /\ q.e.calls = p.e.calls
      BY <2>4, <2>6, <3>1
    <3>4. AnthropicOK(q, from, rec)
      BY <1>2, <3>1, <3>2, <3>3, StatusStep
    <3>5. QED
      BY <3>1, <3>4
  <2>8. ev.t # "failed" /\ ev.t \notin DeltaTypes
    BY <1>20 DEF DeltaTypes
  <2>9. DOMAIN q.e.calls = d.calls
    BY <1>4, <1>11, <1>12, <1>20, <2>4, <2>6, <2>7, <2>8
  <2>10. d.called => q.e.saw
    <3>1. d.called => c.called
      BY <1>12, <1>20
    <3>2. d.called => sw
      BY <1>11, <2>2, <3>1
    <3>3. QED
      BY <2>6, <2>7, <3>2, Zenon
  <2>11. q.e.failed = p.e.failed
    BY <2>4, <2>6, <2>7, Zenon
  <2>12. QED
    BY <1>8, <1>9, <1>10, <1>12, <1>20, <2>4, <2>6, <2>7, <2>8, <2>9, <2>10, <2>11
<1>21. CASE ev.t = "failed"
  <2>1. q = [p EXCEPT !.e.failed = TRUE]
    BY <1>7, <1>21
  <2>2. PICK a, x : a \in AnthropicEncoder /\ a = p.e /\ x = [a EXCEPT !.failed = TRUE]
    BY <1>2 DEF AnthropicPair
  <2>3. q = [e |-> x, out |-> p.out]
    BY <1>2, <2>1, <2>2 DEF AnthropicPair, AnthropicEncoder
  <2>4. /\ x \in AnthropicEncoder /\ x.started = a.started /\ x.next = a.next
        /\ x.thinking = a.thinking /\ x.text = a.text /\ x.calls = a.calls
        /\ x.saw = a.saw /\ x.failed
    <3>1. x \in AnthropicEncoder
      BY <2>2 DEF AnthropicEncoder
    <3>2. /\ x.started = a.started /\ x.next = a.next
          /\ x.thinking = a.thinking /\ x.text = a.text /\ x.calls = a.calls
      BY <2>2 DEF AnthropicEncoder
    <3>3. x.saw = a.saw
      BY <2>2 DEF AnthropicEncoder
    <3>4. x.failed
      BY <2>2 DEF AnthropicEncoder
    <3>5. QED
      BY <3>1, <3>2, <3>3, <3>4
  <2>5. AnthropicOK(q, from, rec) /\ q.e = x
    <3>1. q.e = x /\ q.out = p.out
      BY <2>3
    <3>2. q \in AnthropicPair
      BY <1>2, <2>3, <2>4, <3>1 DEF AnthropicPair
    <3>3. /\ q.e.started = p.e.started /\ q.e.next = p.e.next
          /\ q.e.thinking = p.e.thinking /\ q.e.text = p.e.text /\ q.e.calls = p.e.calls
      BY <2>2, <2>4, <3>1
    <3>4. AnthropicOK(q, from, rec)
      BY <1>2, <3>1, <3>2, <3>3, StatusStep
    <3>5. QED
      BY <3>1, <3>4
  <2>6. d.failed = TRUE /\ Keep(d.deltas, AnyShown) = rec
    BY <1>1, <1>2, <1>5, <1>21 DEF Tells, DeltaTypes, Told
  <2>7. q.e.failed = TRUE
    BY <2>4, <2>5 DEF AnthropicEncoder
  <2>8. (d.text => q.e.text # {}) /\ (d.thinking => q.e.thinking # {})
    BY <1>9, <1>10, <1>12, <1>21, <2>2, <2>4, <2>5
  <2>9. d.called => q.e.saw
    <3>1. d.called => c.called
      BY <1>12, <1>21
    <3>2. d.called => p.e.saw
      BY <1>11, <3>1
    <3>3. QED
      BY <2>2, <2>4, <2>5, <3>2, Zenon
  <2>10. QED
    BY <1>2, <1>3, <2>5, <2>6, <2>7, <2>8, <2>9 DEF AnthropicKeeps
<1>22. CASE ev.t \in {"created", "thinking_text_done", "thinking_part_done", "item_done"}
  <2>1. q = p
    BY <1>7, <1>22
  <2>2. QED
    BY <1>2, <1>4, <1>8, <1>9, <1>10, <1>11, <1>12, <1>22, <2>1 DEF DeltaTypes
<1>23. QED
  BY <1>2, <1>13, <1>14, <1>15, <1>16, <1>17, <1>18, <1>19, <1>20, <1>21, <1>22
     DEF CanonicalType, DeltaTypes

-----------------------------------------------------------------------------
(* The other two encoders.                                                   *)

FailTypes == {"error", "failed"}

\* A stream of events of the given types, in which the calls in begun began, an
\* error was told if one was, and the deltas are rec.
Streamed(s, types, from, begun, failed, rec) ==
    /\ s \in Seq(Event) /\ Received(s) = rec
    /\ \A k \in 1..Len(s) : s[k].t \in types
    /\ \A k \in 1..Len(s) : IsCall(s[k]) => s[k].n = Own(from, s[k].i)
    /\ \A i \in begun : \E k \in 1..Len(s) : IsCall(s[k]) /\ s[k].i = i
    /\ failed <=> \E k \in 1..Len(s) : s[k].t \in FailTypes

LEMMA StreamedAppend ==
    ASSUME NEW s, NEW types, NEW from, NEW begun, NEW failed, NEW rec,
           Streamed(s, types, from, begun, failed, rec), NEW ev \in Event, ev.t \in types
    PROVE  /\ s \in Seq(Event) /\ Append(s, ev) \in Seq(Event)
           /\ ev.t \notin DeltaTypes \cup FailTypes /\ ~IsCall(ev)
                 => Streamed(Append(s, ev), types, from, begun, failed, rec)
           /\ ev.t \in FailTypes => Streamed(Append(s, ev), types, from, begun, TRUE, rec)
           /\ IsCall(ev) /\ ev.n = Own(from, ev.i)
                 => Streamed(Append(s, ev), types, from, begun \cup {ev.i}, failed, rec)
           /\ ev.t \in DeltaTypes /\ (ev.t = "args" => ev.i \in begun)
                 => Streamed(Append(s, ev), types, from, begun, failed, Append(rec, DeltaOf(from, ev)))
<1>1. s \in Seq(Event)
  BY DEF Streamed
<1>2. PICK n \in Nat : n = Len(s)
  BY <1>1
<1>3. PICK t \in Seq(Event) : t = Append(s, ev)
  BY <1>1, AppendProperties
<1>4. Len(t) = n + 1 /\ t[n + 1] = ev /\ \A i \in 1..n : t[i] = s[i]
  BY <1>1, <1>2, <1>3
<1>5. /\ \A i \in 1..(n + 1) : i = n + 1 \/ i \in 1..n
      /\ n + 1 \in 1..(n + 1) /\ \A i \in 1..n : i \in 1..(n + 1)
  OBVIOUS
<1>6. /\ Received(s) = rec
      /\ \A k \in 1..n : s[k].t \in types
      /\ \A k \in 1..n : IsCall(s[k]) => s[k].n = Own(from, s[k].i)
      /\ \A i \in begun : \E k \in 1..n : IsCall(s[k]) /\ s[k].i = i
      /\ failed <=> \E k \in 1..n : s[k].t \in FailTypes
  BY <1>2 DEF Streamed
<1>7. /\ ev.t \notin DeltaTypes => Received(t) = rec
      /\ ev.t \in {"thinking", "text"} => Received(t) = Append(rec, <<ev.t, 0, ev.n>>)
      /\ \A v \in Nat : ev.t = "args" /\ Owned(s, ev.i, v) => Received(t) = Append(rec, <<ev.t, v, ev.n>>)
  BY <1>1, <1>3, <1>6, ReceivedAppend
<1>8. ev.t \in DeltaTypes /\ (ev.t = "args" => ev.i \in begun)
         => Received(t) = Append(rec, DeltaOf(from, ev))
  <2>1. SUFFICES ASSUME ev.t \in DeltaTypes, ev.t = "args" => ev.i \in begun
                 PROVE  Received(t) = Append(rec, DeltaOf(from, ev))
    OBVIOUS
  <2>2. CASE ev.t = "args"
    <3>1. PICK k \in 1..n : IsCall(s[k]) /\ s[k].i = ev.i
      BY <1>6, <2>1, <2>2
    <3>2. PICK v : v = Own(from, ev.i)
      OBVIOUS
    <3>3. s[k].n = v /\ s[k] \in Event
      BY <1>1, <1>2, <1>6, <3>1, <3>2
    <3>4. v \in Nat
      BY <3>3 DEF Event
    <3>5. Owned(s, ev.i, v)
      BY <1>2, <1>6, <3>1, <3>2 DEF Owned
    <3>6. QED
      BY <1>7, <2>2, <3>2, <3>4, <3>5 DEF DeltaOf
  <2>3. CASE ev.t # "args"
    <3>1. ev.t \in {"thinking", "text"}
      BY <2>1, <2>3 DEF DeltaTypes
    <3>2. QED
      BY <1>7, <2>3, <3>1 DEF DeltaOf
  <2>4. QED
    BY <2>2, <2>3
<1>9. \A k \in 1..(n + 1) : t[k].t \in types
  BY <1>4, <1>5, <1>6
<1>10. ~IsCall(ev) \/ ev.n = Own(from, ev.i)
          => \A k \in 1..(n + 1) : IsCall(t[k]) => t[k].n = Own(from, t[k].i)
  BY <1>4, <1>5, <1>6
<1>11. /\ \A i \in begun : \E k \in 1..(n + 1) : IsCall(t[k]) /\ t[k].i = i
       /\ IsCall(ev) => \A i \in begun \cup {ev.i} : \E k \in 1..(n + 1) : IsCall(t[k]) /\ t[k].i = i
  BY <1>4, <1>5, <1>6
<1>12. (\E k \in 1..(n + 1) : t[k].t \in FailTypes) <=> (failed \/ ev.t \in FailTypes)
  BY <1>4, <1>5, <1>6
<1>13. /\ ev.t \in DeltaTypes => ev.t \notin FailTypes /\ ~IsCall(ev)
       /\ ev.t \in FailTypes => ev.t \notin DeltaTypes /\ ~IsCall(ev)
       /\ IsCall(ev) => ev.t \notin DeltaTypes /\ ev.t \notin FailTypes
  BY DEF DeltaTypes, FailTypes, IsCall
<1>14. ASSUME NEW more, NEW now, NEW fails, Received(t) = more,
              ~IsCall(ev) \/ ev.n = Own(from, ev.i),
              \A i \in now : \E k \in 1..(n + 1) : IsCall(t[k]) /\ t[k].i = i,
              fails <=> (failed \/ ev.t \in FailTypes)
       PROVE  Streamed(t, types, from, now, fails, more)
  BY <1>3, <1>4, <1>9, <1>10, <1>12, <1>14, Zenon DEF Streamed
<1>15. ev.t \notin DeltaTypes \cup FailTypes /\ ~IsCall(ev) => Streamed(t, types, from, begun, failed, rec)
  <2>1. SUFFICES ASSUME ev.t \notin DeltaTypes \cup FailTypes, ~IsCall(ev)
                 PROVE  Streamed(t, types, from, begun, failed, rec)
    OBVIOUS
  <2>2. Received(t) = rec /\ (failed <=> (failed \/ ev.t \in FailTypes))
    BY <1>7, <2>1
  <2>3. QED
    BY <1>11, <1>14, <2>1, <2>2
<1>16. ev.t \in FailTypes => Streamed(t, types, from, begun, TRUE, rec)
  <2>1. SUFFICES ASSUME ev.t \in FailTypes PROVE Streamed(t, types, from, begun, TRUE, rec)
    OBVIOUS
  <2>2. Received(t) = rec /\ ~IsCall(ev) /\ (TRUE <=> (failed \/ ev.t \in FailTypes))
    BY <1>7, <1>13, <2>1
  <2>3. QED
    BY <1>11, <1>14, <2>2
<1>17. IsCall(ev) /\ ev.n = Own(from, ev.i) => Streamed(t, types, from, begun \cup {ev.i}, failed, rec)
  <2>1. SUFFICES ASSUME IsCall(ev), ev.n = Own(from, ev.i)
                 PROVE  Streamed(t, types, from, begun \cup {ev.i}, failed, rec)
    OBVIOUS
  <2>2. Received(t) = rec /\ (failed <=> (failed \/ ev.t \in FailTypes))
    BY <1>7, <1>13, <2>1
  <2>3. QED
    BY <1>11, <1>14, <2>1, <2>2
<1>18. ev.t \in DeltaTypes /\ (ev.t = "args" => ev.i \in begun)
          => Streamed(t, types, from, begun, failed, Append(rec, DeltaOf(from, ev)))
  <2>1. SUFFICES ASSUME ev.t \in DeltaTypes, ev.t = "args" => ev.i \in begun
                 PROVE  Streamed(t, types, from, begun, failed, Append(rec, DeltaOf(from, ev)))
    OBVIOUS
  <2>2. PICK more : more = Append(rec, DeltaOf(from, ev))
    OBVIOUS
  <2>3. Received(t) = more /\ ~IsCall(ev) /\ (failed <=> (failed \/ ev.t \in FailTypes))
    BY <1>8, <1>13, <2>1, <2>2
  <2>4. QED
    BY <1>11, <1>14, <2>2, <2>3
<1>19. QED
  BY <1>1, <1>3, <1>15, <1>16, <1>17, <1>18

ChatEncoder == [text : BOOLEAN, calls : SUBSET Nat, finish : {"none", "stop", "length", "tool_calls"}]
ChatPair == [e : ChatEncoder, out : Seq(Event)]
ChatTypes == {"call_start", "role", "text", "args", "error"}
ChatShown == {"text", "args"} \X Nat \X Nat

ChatKeeps(p, c) ==
    /\ p \in ChatPair
    /\ c.failed => c.ends
    /\ ~c.failed => c.calls \subseteq p.e.calls
    /\ c.called => p.e.calls # {}
    /\ Streamed(p.out, ChatTypes, c.from, p.e.calls, c.failed, Keep(c.deltas, ChatShown))

LEMMA ChatStep ==
    ASSUME NEW p, NEW c, ChatKeeps(p, c), NEW ev, NEW d, Tells(c, ev, d),
           NEW q, q = EncodeChat(p, ev)
    PROVE  ChatKeeps(q, d)
<1>1. PICK from, rec, s : from = c.from /\ rec = Keep(c.deltas, ChatShown) /\ s = p.out
  OBVIOUS
<1>2. /\ p \in ChatPair /\ ev \in Event /\ ev.t \in CanonicalType /\ d.from = from
      /\ c \in Told /\ d \in Told /\ p.e.calls \in SUBSET Nat /\ ev.i \in Nat /\ ev.n \in Nat
      /\ p.e.text \in BOOLEAN /\ s \in Seq(Event)
  BY <1>1 DEF ChatKeeps, Tells, ChatPair, ChatEncoder, Event
<1>3. d.failed => d.ends
  BY DEF ChatKeeps, Tells
<1>4. ev.t # "failed" => ~c.ends /\ ~c.failed /\ ~d.failed
  BY <1>2 DEF ChatKeeps, Tells, Told
<1>5. ev.t \notin DeltaTypes => d.deltas = c.deltas
  BY DEF Tells
<1>6. /\ Streamed(s, ChatTypes, from, p.e.calls, c.failed, rec)
      /\ (~c.failed => c.calls \subseteq p.e.calls) /\ (c.called => p.e.calls # {})
  BY <1>1 DEF ChatKeeps
<1>7. /\ d.called = (c.called \/ ev.t = "call_added")
      /\ d.failed \/ d.calls = IF ev.t = "call_added" THEN c.calls \cup {ev.i}
                               ELSE IF ev.t = "args_done" THEN c.calls \ {ev.i} ELSE c.calls
      /\ d.failed = (c.failed \/ ev.t = "failed")
      /\ ev.t = "args" => ev.i \in c.calls
      /\ ev.t = "call_added" => ev.n = Own(from, ev.i)
  BY <1>1 DEF Tells
<1>8. q = CASE ev.t = "call_added" -> Put([p EXCEPT !.e.calls = @ \cup {ev.i}], Ev("call_start", ev.i, ev.n))
            [] ev.t = "text"       -> PutAll([p EXCEPT !.e.text = TRUE],
                                             If(~p.e.text, <<Plain("role")>>) \o <<ev>>)
            [] ev.t = "args"       -> IF ev.i \in p.e.calls THEN Put(p, ev) ELSE p
            [] ev.t = "completed"  -> [p EXCEPT !.e.finish = IF ev.n = 1 THEN "tool_calls" ELSE "stop"]
            [] ev.t = "incomplete" -> [p EXCEPT !.e.finish = IF ev.n = 1 THEN "tool_calls" ELSE "length"]
            [] ev.t = "failed"     -> Put(p, Plain("error"))
            [] OTHER               -> p
  BY Zenon DEF EncodeChat
<1>9. CASE ev.t = "call_added"
  <2>1. PICK w \in Event : w = Ev("call_start", ev.i, ev.n) /\ w.t = "call_start" /\ w.i = ev.i /\ w.n = ev.n
    <3>1. "call_start" \in CanonicalType \cup ClientTypes
      BY DEF ClientTypes
    <3>2. QED
      BY <1>2, <3>1, EventOf
  <2>2. q = [[p EXCEPT !.e.calls = @ \cup {ev.i}] EXCEPT !.out = Append(@, w)]
    BY <1>8, <1>9, <2>1 DEF Put
  <2>3. PICK calls \in SUBSET Nat : calls = p.e.calls \cup {ev.i}
    BY <1>2
  <2>4. q = [e |-> [p.e EXCEPT !.calls = calls], out |-> Append(s, w)]
    BY <1>1, <1>2, <2>2, <2>3 DEF ChatPair, ChatEncoder
  <2>5. q.e = [p.e EXCEPT !.calls = calls] /\ q.out = Append(s, w)
    BY <2>4
  <2>6. q.e \in ChatEncoder /\ q.e.calls = calls
    BY <1>2, <2>5 DEF ChatPair, ChatEncoder
  <2>7. Streamed(Append(s, w), ChatTypes, from, calls, c.failed, rec) /\ Append(s, w) \in Seq(Event)
    <3>1. w.t \in ChatTypes /\ IsCall(w) /\ w.n = Own(from, w.i)
      BY <1>7, <1>9, <2>1 DEF ChatTypes, IsCall
    <3>2. PICK begun, failed : begun = p.e.calls /\ failed = c.failed
      OBVIOUS
    <3>3. Streamed(s, ChatTypes, from, begun, failed, rec)
      BY <1>6, <3>2
    <3>4. /\ Streamed(Append(s, w), ChatTypes, from, begun \cup {w.i}, failed, rec)
          /\ Append(s, w) \in Seq(Event)
      BY <3>1, <3>3, StreamedAppend
    <3>5. begun \cup {w.i} = calls
      BY <2>1, <2>3, <3>2
    <3>6. QED
      BY <3>2, <3>4, <3>5, Zenon
  <2>8. d.failed = c.failed /\ d.deltas = c.deltas
    BY <1>2, <1>5, <1>7, <1>9 DEF DeltaTypes, Told
  <2>9. q \in ChatPair
    BY <2>4, <2>5, <2>6, <2>7 DEF ChatPair
  <2>10. d.calls \subseteq calls /\ calls # {}
    BY <1>4, <1>6, <1>7, <1>9, <2>3
  <2>11. Streamed(q.out, ChatTypes, d.from, q.e.calls, d.failed, Keep(d.deltas, ChatShown))
    BY <1>1, <1>2, <2>5, <2>6, <2>7, <2>8, Zenon
  <2>12. QED
    BY <1>3, <2>6, <2>9, <2>10, <2>11, Zenon DEF ChatKeeps
<1>10. CASE ev.t \in {"text", "args"}
  <2>1. ev.t \in DeltaTypes /\ ev.t \in ChatTypes /\ ev.t # "failed" /\ ev.t # "call_added" /\ ev.t # "args_done"
    BY <1>10 DEF DeltaTypes, ChatTypes
  <2>2. PICK x, more : x = DeltaOf(from, ev) /\ more = Append(rec, x)
    OBVIOUS
  <2>3. Keep(d.deltas, ChatShown) = more
    <3>1. /\ c.deltas \in Seq(Deltas) /\ x \in Deltas /\ d.deltas = Append(c.deltas, x)
      BY <1>1, <2>1, <2>2, DeltaTold
    <3>2. x \in ChatShown
      <4>1. x[1] = ev.t /\ x = <<x[1], x[2], x[3]>> /\ x[2] \in Nat /\ x[3] \in Nat
        BY <2>2, <3>1 DEF DeltaOf, Deltas
      <4>2. x[1] \in {"text", "args"}
        BY <1>10, <4>1
      <4>3. QED
        BY <4>1, <4>2 DEF ChatShown
    <3>3. PICK a \in Seq(Deltas) : a = c.deltas
      BY <3>1
    <3>4. Keep(Append(a, x), ChatShown) = Append(Keep(a, ChatShown), x)
      BY <3>1, <3>2, KeptAppend
    <3>5. QED
      BY <1>1, <2>2, <3>1, <3>3, <3>4
  <2>4. PICK begun, failed : begun = p.e.calls /\ failed = c.failed
    OBVIOUS
  <2>5. ASSUME NEW u, Streamed(u, ChatTypes, from, begun, failed, rec)
        PROVE  Append(u, ev) \in Seq(Event) /\ Streamed(Append(u, ev), ChatTypes, from, begun, failed, more)
    <3>1. ev.t = "args" => ev.i \in begun
      BY <1>4, <1>6, <1>7, <2>1, <2>4
    <3>2. /\ Append(u, ev) \in Seq(Event)
          /\ Streamed(Append(u, ev), ChatTypes, from, begun, failed, Append(rec, DeltaOf(from, ev)))
      BY <1>2, <2>1, <2>5, <3>1, StreamedAppend
    <3>3. QED
      BY <2>2, <3>2
  <2>6. Streamed(s, ChatTypes, from, begun, failed, rec)
    BY <1>6, <2>4
  <2>7. /\ q.e \in ChatEncoder /\ q.e.calls = begun /\ q \in ChatPair
        /\ Streamed(q.out, ChatTypes, from, begun, failed, more)
    <3>1. CASE ev.t = "args"
      <4>1. ev.i \in p.e.calls
        BY <1>4, <1>6, <1>7, <3>1
      <4>2. q = [p EXCEPT !.out = Append(@, ev)]
        BY <1>8, <3>1, <4>1 DEF Put
      <4>3. q = [e |-> p.e, out |-> Append(s, ev)]
        BY <1>1, <1>2, <4>2 DEF ChatPair
      <4>4. q.e = p.e /\ q.out = Append(s, ev)
        BY <4>3
      <4>5. Append(s, ev) \in Seq(Event) /\ Streamed(Append(s, ev), ChatTypes, from, begun, failed, more)
        BY <2>5, <2>6
      <4>6. QED
        BY <1>2, <2>4, <4>3, <4>4, <4>5 DEF ChatPair
    <3>2. CASE ev.t = "text"
      <4>1. PICK r \in Event : r = Plain("role") /\ r.t = "role"
        <5>1. "role" \in CanonicalType \cup ClientTypes /\ 0 \in Nat
          BY DEF ClientTypes
        <5>2. QED
          BY <5>1, EventOf DEF Plain
      <4>2. PICK u, v : /\ u = (IF p.e.text THEN s ELSE Append(s, r))
                        /\ v = If(~p.e.text, <<Plain("role")>>) \o <<ev>>
        OBVIOUS
      <4>3. q = [[p EXCEPT !.e.text = TRUE] EXCEPT !.out = @ \o v]
        BY <1>8, <3>2, <4>2 DEF PutAll
      <4>4. q = [e |-> [p.e EXCEPT !.text = TRUE], out |-> s \o v]
        BY <1>1, <1>2, <4>3 DEF ChatPair, ChatEncoder
      <4>5. q.e = [p.e EXCEPT !.text = TRUE] /\ q.out = s \o v
        BY <4>4
      <4>6. q.e \in ChatEncoder /\ q.e.calls = begun
        BY <1>2, <2>4, <4>5 DEF ChatPair, ChatEncoder
      <4>7. Streamed(Append(s, r), ChatTypes, from, begun, failed, rec)
        <5>1. r.t \in ChatTypes /\ r.t \notin DeltaTypes \cup FailTypes /\ ~IsCall(r)
          BY <4>1 DEF ChatTypes, DeltaTypes, FailTypes, IsCall
        <5>2. QED
          BY <2>6, <5>1, StreamedAppend
      <4>8. u \in Seq(Event) /\ Streamed(u, ChatTypes, from, begun, failed, rec)
        BY <2>6, <4>2, <4>7 DEF Streamed
      <4>9. s \o v = Append(u, ev)
        <5>1. CASE p.e.text
          <6>1. v = <<>> \o <<ev>> /\ u = s
            BY <4>2, <5>1 DEF If
          <6>2. QED
            BY <1>2, <6>1
        <5>2. CASE ~p.e.text
          <6>1. v = <<r>> \o <<ev>> /\ u = Append(s, r)
            BY <4>1, <4>2, <5>2 DEF If
          <6>2. s \o v = Append(Append(s, r), ev)
            <7>1. <<r>> \in Seq(Event) /\ <<ev>> \in Seq(Event)
              BY <1>2
            <7>2. v \in Seq(Event) /\ Len(v) = 2 /\ v[1] = r /\ v[2] = ev
              BY <6>1, <7>1
            <7>3. s \o v = Append(Append(s, v[1]), v[2])
              BY <1>2, <7>2, TwoMore
            <7>4. QED
              BY <7>2, <7>3
          <6>3. QED
            BY <6>1, <6>2
        <5>3. QED
          BY <5>1, <5>2
      <4>10. Append(u, ev) \in Seq(Event) /\ Streamed(Append(u, ev), ChatTypes, from, begun, failed, more)
        BY <2>5, <4>8
      <4>11. QED
        BY <4>4, <4>5, <4>6, <4>9, <4>10 DEF ChatPair
    <3>3. QED
      BY <1>10, <3>1, <3>2
  <2>8. d.failed = c.failed /\ d.calls \subseteq begun /\ (d.called => begun # {})
    BY <1>2, <1>4, <1>6, <1>7, <2>1, <2>4 DEF Told
  <2>9. Streamed(q.out, ChatTypes, d.from, q.e.calls, d.failed, Keep(d.deltas, ChatShown))
    BY <1>2, <2>3, <2>4, <2>7, <2>8, Zenon
  <2>10. QED
    BY <1>3, <2>7, <2>8, <2>9, Zenon DEF ChatKeeps
<1>11. ASSUME q.e \in ChatEncoder, q.e.calls = p.e.calls, q.out = s, q \in ChatPair, ev.t # "failed",
              Keep(d.deltas, ChatShown) = rec, ev.t # "call_added"
       PROVE  ChatKeeps(q, d)
  <2>1. d.failed = c.failed /\ d.calls \subseteq p.e.calls /\ (d.called => p.e.calls # {})
    BY <1>2, <1>4, <1>6, <1>7, <1>11 DEF Told
  <2>2. Streamed(q.out, ChatTypes, d.from, q.e.calls, d.failed, Keep(d.deltas, ChatShown))
    BY <1>2, <1>6, <1>11, <2>1, Zenon
  <2>3. QED
    BY <1>3, <1>11, <2>1, <2>2, Zenon DEF ChatKeeps
<1>12. CASE ev.t \in {"completed", "incomplete"}
  <2>1. PICK f \in {"none", "stop", "length", "tool_calls"} : q = [p EXCEPT !.e.finish = f]
    BY <1>8, <1>12
  <2>2. q = [e |-> [p.e EXCEPT !.finish = f], out |-> s]
    BY <1>1, <1>2, <2>1 DEF ChatPair, ChatEncoder
  <2>3. q.e = [p.e EXCEPT !.finish = f] /\ q.out = s
    BY <2>2
  <2>4. q.e \in ChatEncoder /\ q.e.calls = p.e.calls
    BY <1>2, <2>3 DEF ChatPair, ChatEncoder
  <2>5. q \in ChatPair
    BY <1>2, <2>2, <2>3, <2>4 DEF ChatPair
  <2>6. Keep(d.deltas, ChatShown) = rec /\ ev.t # "failed" /\ ev.t # "call_added"
    BY <1>1, <1>5, <1>12 DEF DeltaTypes
  <2>7. QED
    BY <1>11, <2>3, <2>4, <2>5, <2>6
<1>13. CASE ev.t = "failed"
  <2>1. PICK w \in Event : w = Plain("error") /\ w.t = "error"
    <3>1. "error" \in CanonicalType \cup ClientTypes /\ 0 \in Nat
      BY DEF ClientTypes
    <3>2. QED
      BY <3>1, EventOf DEF Plain
  <2>2. q = [p EXCEPT !.out = Append(@, w)]
    BY <1>8, <1>13, <2>1 DEF Put
  <2>3. q = [e |-> p.e, out |-> Append(s, w)]
    BY <1>1, <1>2, <2>2 DEF ChatPair
  <2>4. q.e = p.e /\ q.out = Append(s, w)
    BY <2>3
  <2>5. PICK begun, failed : begun = p.e.calls /\ failed = c.failed
    OBVIOUS
  <2>6. Append(s, w) \in Seq(Event) /\ Streamed(Append(s, w), ChatTypes, from, begun, TRUE, rec)
    <3>1. w.t \in ChatTypes /\ w.t \in FailTypes
      BY <2>1 DEF ChatTypes, FailTypes
    <3>2. Streamed(s, ChatTypes, from, begun, failed, rec)
      BY <1>6, <2>5
    <3>3. QED
      BY <3>1, <3>2, StreamedAppend
  <2>7. d.failed = TRUE /\ d.deltas = c.deltas /\ (d.called => begun # {})
    BY <1>2, <1>5, <1>6, <1>7, <1>13, <2>5 DEF DeltaTypes, Told
  <2>8. q \in ChatPair
    BY <1>2, <2>3, <2>4, <2>6 DEF ChatPair
  <2>9. Streamed(q.out, ChatTypes, d.from, q.e.calls, d.failed, Keep(d.deltas, ChatShown))
    BY <1>1, <1>2, <2>4, <2>5, <2>6, <2>7, Zenon
  <2>10. QED
    BY <1>3, <2>4, <2>5, <2>7, <2>8, <2>9, Zenon DEF ChatKeeps
<1>14. CASE ev.t = "thinking"
  <2>1. q = p
    BY <1>8, <1>14
  <2>2. Keep(d.deltas, ChatShown) = rec
    <3>1. PICK x : x = DeltaOf(c.from, ev)
      OBVIOUS
    <3>2. ev.t \in DeltaTypes
      BY <1>14 DEF DeltaTypes
    <3>3. c.deltas \in Seq(Deltas) /\ x \in Deltas /\ d.deltas = Append(c.deltas, x)
      BY <3>1, <3>2, DeltaTold
    <3>4. x \notin ChatShown
      BY <1>14, <3>1 DEF DeltaOf, ChatShown
    <3>5. PICK a \in Seq(Deltas) : a = c.deltas
      BY <3>3
    <3>6. Keep(Append(a, x), ChatShown) = Keep(a, ChatShown)
      BY <3>3, <3>4, KeptAppend
    <3>7. QED
      BY <1>1, <3>3, <3>5, <3>6
  <2>3. p.e \in ChatEncoder /\ ev.t # "failed" /\ ev.t # "call_added"
    BY <1>2, <1>14 DEF ChatPair
  <2>4. QED
    BY <1>1, <1>2, <1>11, <2>1, <2>2, <2>3
<1>15. CASE ev.t \notin {"call_added", "text", "args", "completed", "incomplete", "failed", "thinking"}
  <2>1. q = p
    BY <1>8, <1>15
  <2>2. Keep(d.deltas, ChatShown) = rec
    BY <1>1, <1>5, <1>15 DEF DeltaTypes
  <2>3. p.e \in ChatEncoder
    BY <1>2 DEF ChatPair
  <2>4. QED
    BY <1>1, <1>2, <1>11, <1>15, <2>1, <2>2, <2>3
<1>16. QED
  BY <1>9, <1>10, <1>12, <1>13, <1>14, <1>15

FinalTypes == {"completed", "incomplete", "failed"}
ResponsesKeeps(p, c) ==
    /\ p \in [e : {<<>>}, out : Seq(Event)]
    /\ c.failed => c.ends
    /\ Streamed(p.out, CanonicalType, c.from, IF c.failed THEN {} ELSE c.calls, c.failed,
                Keep(c.deltas, AnyShown))
    /\ {k \in 1..Len(p.out) : p.out[k].t \in FinalTypes} = IF c.ends THEN {Len(p.out)} ELSE {}

LEMMA ResponsesStep ==
    ASSUME NEW p, NEW c, ResponsesKeeps(p, c), NEW ev, NEW d, Tells(c, ev, d),
           c.from # "openai-responses", NEW q, q = Put(p, ev)
    PROVE  ResponsesKeeps(q, d)
<1>1. PICK from, rec, s, begun, failed :
         /\ from = c.from /\ rec = Keep(c.deltas, AnyShown) /\ s = p.out
         /\ begun = (IF c.failed THEN {} ELSE c.calls) /\ failed = c.failed
  OBVIOUS
<1>2. /\ p \in [e : {<<>>}, out : Seq(Event)] /\ s \in Seq(Event) /\ p.e = <<>>
      /\ ev \in Event /\ ev.t \in CanonicalType /\ d.from = from
      /\ c \in Told /\ d \in Told /\ ~c.ends /\ ~c.failed
  BY <1>1 DEF ResponsesKeeps, Tells, Told
<1>3. /\ d.failed => d.ends
      /\ d.ends = (ev.t \in FinalTypes)
      /\ d.failed = (ev.t = "failed")
  BY <1>2, SMTT(60) DEF Tells, FinalTypes, Told
<1>4. Streamed(s, CanonicalType, from, begun, failed, rec)
  BY <1>1 DEF ResponsesKeeps
<1>5. q = [p EXCEPT !.out = Append(@, ev)]
  BY DEF Put
<1>6. q = [e |-> <<>>, out |-> Append(s, ev)]
  BY <1>1, <1>2, <1>5
<1>7. q.out = Append(s, ev) /\ q.e = <<>>
  BY <1>6
<1>8. Append(s, ev) \in Seq(Event) /\ q \in [e : {<<>>}, out : Seq(Event)]
  <2>1. Append(s, ev) \in Seq(Event)
    BY <1>2, AppendProperties
  <2>2. QED
    BY <1>6, <2>1
<1>9. PICK more : more = Keep(d.deltas, AnyShown)
  OBVIOUS
<1>10. more = IF ev.t \in DeltaTypes THEN Append(rec, DeltaOf(from, ev)) ELSE rec
  BY <1>1, <1>9, KeepsAny
<1>11. /\ d.failed \/ d.calls = IF ev.t = "call_added" THEN c.calls \cup {ev.i}
                                ELSE IF ev.t = "args_done" THEN c.calls \ {ev.i} ELSE c.calls
       /\ ev.t = "args" => ev.i \in c.calls
       /\ ev.t = "call_added" => ev.n = Own(from, ev.i)
  BY <1>1 DEF Tells
<1>12. begun = c.calls /\ failed = FALSE
  BY <1>1, <1>2 DEF Told
<1>13. ASSUME NEW now, NEW fails, Streamed(Append(s, ev), CanonicalType, from, now, fails, more),
              d.failed = fails, d.failed \/ d.calls \subseteq now
       PROVE  Streamed(q.out, CanonicalType, d.from, IF d.failed THEN {} ELSE d.calls, d.failed,
                       Keep(d.deltas, AnyShown))
  <2>1. PICK less : less = IF d.failed THEN {} ELSE d.calls
    OBVIOUS
  <2>2. less \subseteq now
    BY <1>13, <2>1
  <2>3. Streamed(Append(s, ev), CanonicalType, from, less, fails, more)
    BY <1>13, <2>2 DEF Streamed
  <2>4. QED
    BY <1>2, <1>7, <1>9, <1>13, <2>1, <2>3, Zenon
<1>14. Streamed(q.out, CanonicalType, d.from, IF d.failed THEN {} ELSE d.calls, d.failed,
                Keep(d.deltas, AnyShown))
  <2>1. CASE ev.t = "call_added"
    <3>1. IsCall(ev) /\ ev.t \notin DeltaTypes /\ ev.n = Own(from, ev.i)
      BY <1>11, <2>1 DEF IsCall, DeltaTypes
    <3>2. Streamed(Append(s, ev), CanonicalType, from, begun \cup {ev.i}, failed, rec)
      BY <1>2, <1>4, <3>1, StreamedAppend
    <3>3. PICK now : now = begun \cup {ev.i}
      OBVIOUS
    <3>4. Streamed(Append(s, ev), CanonicalType, from, now, failed, more)
      BY <1>10, <3>1, <3>2, <3>3
    <3>5. d.failed = failed /\ (d.failed \/ d.calls \subseteq now)
      BY <1>2, <1>3, <1>11, <1>12, <2>1, <3>3 DEF Told
    <3>6. QED
      BY <1>13, <3>4, <3>5
  <2>2. CASE ev.t = "failed"
    <3>1. ev.t \in FailTypes /\ ev.t \notin DeltaTypes
      BY <2>2 DEF FailTypes, DeltaTypes
    <3>2. Streamed(Append(s, ev), CanonicalType, from, begun, TRUE, rec)
      BY <1>2, <1>4, <3>1, StreamedAppend
    <3>3. PICK fails : fails = TRUE
      OBVIOUS
    <3>4. Streamed(Append(s, ev), CanonicalType, from, begun, fails, more)
      BY <1>10, <3>1, <3>2, <3>3
    <3>5. d.failed = fails
      BY <1>2, <1>3, <2>2, <3>3 DEF Told
    <3>6. QED
      BY <1>13, <3>3, <3>4, <3>5
  <2>3. CASE ev.t \in DeltaTypes
    <3>1. (ev.t = "args" => ev.i \in begun) /\ ev.t # "failed" /\ ev.t # "call_added"
      BY <1>11, <1>12, <2>3 DEF DeltaTypes
    <3>2. Streamed(Append(s, ev), CanonicalType, from, begun, failed, Append(rec, DeltaOf(from, ev)))
      BY <1>2, <1>4, <2>3, <3>1, StreamedAppend
    <3>3. Streamed(Append(s, ev), CanonicalType, from, begun, failed, more)
      BY <1>10, <2>3, <3>2
    <3>4. d.failed = failed /\ (d.failed \/ d.calls \subseteq begun)
      BY <1>2, <1>3, <1>11, <1>12, <3>1 DEF Told
    <3>5. QED
      BY <1>13, <3>3, <3>4
  <2>4. CASE ev.t \notin DeltaTypes /\ ev.t \notin {"failed", "call_added"}
    <3>1. ev.t \notin DeltaTypes \cup FailTypes /\ ~IsCall(ev)
      <4>1. "error" \notin CanonicalType /\ "call_start" \notin CanonicalType
        BY DEF CanonicalType
      <4>2. QED
        BY <1>2, <2>4, <4>1 DEF FailTypes, IsCall
    <3>2. Streamed(Append(s, ev), CanonicalType, from, begun, failed, rec)
      BY <1>2, <1>4, <3>1, StreamedAppend
    <3>3. Streamed(Append(s, ev), CanonicalType, from, begun, failed, more)
      BY <1>10, <2>4, <3>2
    <3>4. d.failed = failed /\ (d.failed \/ d.calls \subseteq begun)
      BY <1>2, <1>3, <1>11, <1>12, <2>4 DEF Told
    <3>5. QED
      BY <1>13, <3>3, <3>4
  <2>5. QED
    BY <2>1, <2>2, <2>3, <2>4
<1>15. {k \in 1..Len(q.out) : q.out[k].t \in FinalTypes} = IF d.ends THEN {Len(q.out)} ELSE {}
  <2>1. PICK n, t : n \in Nat /\ n = Len(s) /\ t = q.out /\ t \in Seq(Event)
    <3>1. Len(s) \in Nat
      BY <1>2
    <3>2. QED
      BY <1>7, <1>8, <3>1
  <2>2. Len(t) = n + 1 /\ t[n + 1] = ev /\ \A i \in 1..n : t[i] = s[i]
    BY <1>2, <1>7, <2>1
  <2>3. \A k \in 1..n : s[k].t \notin FinalTypes
    BY <1>1, <1>2, <2>1 DEF ResponsesKeeps
  <2>4. /\ \A i \in 1..(n + 1) : i = n + 1 \/ i \in 1..n
        /\ n + 1 \in 1..(n + 1)
    BY <2>1
  <2>5. {k \in 1..(n + 1) : t[k].t \in FinalTypes} = IF ev.t \in FinalTypes THEN {n + 1} ELSE {}
    BY <2>2, <2>3, <2>4
  <2>6. QED
    BY <1>3, <2>1, <2>2, <2>5
<1>16. QED
  BY <1>3, <1>8, <1>14, <1>15, Zenon DEF ResponsesKeeps

-----------------------------------------------------------------------------
(* Whatever the client's protocol.                                           *)

Sinks(to, p, c) ==
    \/ to = "anthropic" /\ AnthropicKeeps(p, c)
    \/ to = "openai" /\ ChatKeeps(p, c)
    \/ to = "openai-responses" /\ ResponsesKeeps(p, c)

LEMMA EncodeOneStep ==
    ASSUME NEW to, NEW p, NEW c, Sinks(to, p, c), NEW ev, NEW d, Tells(c, ev, d), to # c.from,
           NEW q, q = EncodeOne(to, p, ev)
    PROVE  Sinks(to, q, d)
<1>1. CASE to = "anthropic"
  <2>1. AnthropicKeeps(p, c) /\ q = EncodeAnthropic(p, ev)
    BY <1>1 DEF Sinks, EncodeOne
  <2>2. AnthropicKeeps(q, d)
    BY <2>1, AnthropicStep
  <2>3. QED
    BY <1>1, <2>2 DEF Sinks
<1>2. CASE to = "openai"
  <2>1. ChatKeeps(p, c) /\ q = EncodeChat(p, ev)
    BY <1>2 DEF Sinks, EncodeOne
  <2>2. ChatKeeps(q, d)
    BY <2>1, ChatStep
  <2>3. QED
    BY <1>2, <2>2 DEF Sinks
<1>3. CASE to = "openai-responses"
  <2>1. ResponsesKeeps(p, c) /\ q = Put(p, ev) /\ c.from # "openai-responses"
    BY <1>3 DEF Sinks, EncodeOne
  <2>2. ResponsesKeeps(q, d)
    BY <2>1, ResponsesStep
  <2>3. QED
    BY <1>3, <2>2 DEF Sinks
<1>4. QED
  BY <1>1, <1>2, <1>3 DEF Sinks

LEMMA EncodeStep ==
    ASSUME NEW to, NEW p, NEW c, Sinks(to, p, c), NEW evs, NEW d, Carries(c, evs, d), to # c.from,
           NEW q, q = Encode(to, p, evs)
    PROVE  Sinks(to, q, d)
<1>1. evs \in Seq(Event)
  BY DEF Carries
<1>2. PICK n \in Nat : n = Len(evs)
  BY <1>1
<1>3. PICK cs : cs[0] = c /\ cs[n] = d /\ \A k \in 1..n : Tells(cs[k - 1], evs[k], cs[k])
  BY <1>2 DEF Carries, Carrying
<1>4. PICK f : EncodeRun(f, to, p, evs)
  BY <1>1, EncodeLoop
<1>5. f[0] = p /\ q = f[n] /\ \A i \in 1..n : f[i] = EncodeOne(to, f[i - 1], evs[i])
  BY <1>2, <1>4 DEF EncodeRun
<1> DEFINE T == {k \in 0..n : Sinks(to, f[k], cs[k]) /\ cs[k].from = c.from}
<1>6. 0 \in T
  BY <1>3, <1>5
<1>7. ASSUME NEW k \in 1..n, k - 1 \in T PROVE k \in T
  <2>1. PICK a, x, ev, b, y : a = f[k - 1] /\ x = cs[k - 1] /\ ev = evs[k] /\ b = f[k] /\ y = cs[k]
    OBVIOUS
  <2>2. Sinks(to, a, x) /\ x.from = c.from /\ to # x.from
    BY <1>7, <2>1
  <2>3. Tells(x, ev, y) /\ b = EncodeOne(to, a, ev)
    BY <1>3, <1>5, <2>1
  <2>4. Sinks(to, b, y)
    BY <2>2, <2>3, EncodeOneStep
  <2>5. y.from = x.from
    BY <2>3 DEF Tells
  <2>6. k \in 0..n
    OBVIOUS
  <2>7. QED
    BY <2>1, <2>2, <2>4, <2>5, <2>6, Zenon
<1>8. \A k \in 0..n : k \in T
  <2> HIDE DEF T
  <2> QED
    BY <1>6, <1>7, LoopInduction
<1>9. n \in T
  <2>1. n \in 0..n
    OBVIOUS
  <2> HIDE DEF T
  <2>2. QED
    BY <1>8, <2>1
<1>10. QED
  BY <1>3, <1>5, <1>9

ShownTo(to) == IF to = "openai" THEN ChatShown ELSE AnyShown

\* What the client has got before the stream ends.
LEMMA SinkDelivers ==
    ASSUME NEW to, NEW p, NEW c, Sinks(to, p, c)
    PROVE  /\ p.out \in Seq(Event)
           /\ Received(p.out) = Keep(c.deltas, ShownTo(to))
           /\ to = "anthropic" => \A k \in 1..Len(p.out) : InLifecycle(p.out, k)
           /\ (to = "openai-responses" => ~c.ends) =>
                 \A k \in 1..Len(p.out) : p.out[k].t \notin LastOf(to)
<1>1. CASE to = "anthropic"
  <2>1. AnthropicOK(p, c.from, Keep(c.deltas, AnyShown))
    BY <1>1 DEF Sinks, AnthropicKeeps
  <2>2. Wire(p.out, p.e.next, p.e.thinking \cup p.e.text \cup CallBlocks(p.e), Keep(c.deltas, AnyShown))
    BY <2>1 DEF AnthropicOK
  <2>3. /\ p.out \in Seq(Event) /\ Received(p.out) = Keep(c.deltas, AnyShown)
        /\ \A k \in 1..Len(p.out) : InLifecycle(p.out, k)
        /\ \A k \in 1..Len(p.out) : p.out[k].t \in MidTypes
    BY <2>2 DEF Wire, Lifecycle
  <2>4. LastOf(to) \cap MidTypes = {}
    BY <1>1 DEF LastOf, MidTypes, BeginTypes, DeltaTypes
  <2>5. QED
    BY <1>1, <2>3, <2>4 DEF ShownTo
<1>2. CASE to = "openai"
  <2>1. Streamed(p.out, ChatTypes, c.from, p.e.calls, c.failed, Keep(c.deltas, ChatShown))
    BY <1>2 DEF Sinks, ChatKeeps
  <2>2. LastOf(to) \cap ChatTypes = {}
    BY <1>2 DEF LastOf, ChatTypes
  <2>3. QED
    BY <1>2, <2>1, <2>2 DEF ShownTo, Streamed
<1>3. CASE to = "openai-responses"
  <2>1. /\ Streamed(p.out, CanonicalType, c.from, IF c.failed THEN {} ELSE c.calls, c.failed,
                    Keep(c.deltas, AnyShown))
        /\ {k \in 1..Len(p.out) : p.out[k].t \in FinalTypes} = IF c.ends THEN {Len(p.out)} ELSE {}
    BY <1>3 DEF Sinks, ResponsesKeeps
  <2>2. LastOf(to) = FinalTypes
    BY <1>3 DEF LastOf, FinalTypes
  <2>3. p.out \in Seq(Event) /\ Received(p.out) = Keep(c.deltas, AnyShown)
    BY <2>1 DEF Streamed
  <2>4. QED
    BY <1>3, <2>1, <2>2, <2>3 DEF ShownTo
<1>4. QED
  BY <1>1, <1>2, <1>3 DEF Sinks

\* The events that end a stream.
LEMMA LastAppended ==
    ASSUME NEW s \in Seq(Event), NEW ev \in Event, NEW L, ev.t \in L,
           \A k \in 1..Len(s) : s[k].t \notin L
    PROVE  {k \in 1..Len(Append(s, ev)) : Append(s, ev)[k].t \in L} = {Len(Append(s, ev))}
<1>1. PICK n \in Nat : n = Len(s)
  OBVIOUS
<1>2. PICK t \in Seq(Event) : t = Append(s, ev)
  BY AppendProperties
<1>3. Len(t) = n + 1 /\ t[n + 1] = ev /\ \A i \in 1..n : t[i] = s[i]
  BY <1>1, <1>2
<1>4. (\A i \in 1..(n + 1) : i = n + 1 \/ i \in 1..n) /\ n + 1 \in 1..(n + 1)
  OBVIOUS
<1>5. {k \in 1..(n + 1) : t[k].t \in L} = {n + 1}
  BY <1>1, <1>3, <1>4
<1>6. QED
  BY <1>2, <1>3, <1>5

\* An event more, which is neither a delta nor within a block.
LEMMA EndAppended ==
    ASSUME NEW s \in Seq(Event), NEW ev \in Event,
           ev.t \notin DeltaTypes \cup BeginTypes \cup {"stop"}
    PROVE  /\ Append(s, ev) \in Seq(Event) /\ Received(Append(s, ev)) = Received(s)
           /\ Len(Append(s, ev)) = Len(s) + 1 /\ Append(s, ev)[Len(s) + 1] = ev
           /\ \A k \in 1..Len(s) : Append(s, ev)[k] = s[k]
           /\ \A L : ev.t \notin L /\ (\A k \in 1..Len(s) : s[k].t \notin L)
                        => \A k \in 1..Len(Append(s, ev)) : Append(s, ev)[k].t \notin L
           /\ \A next, opened : Lifecycle(s, next, opened) /\ (ev.t = "message_stop" => opened = {})
                        => Lifecycle(Append(s, ev), next, opened)
<1>1. PICK n \in Nat : n = Len(s)
  OBVIOUS
<1>2. PICK t \in Seq(Event) : t = Append(s, ev)
  BY AppendProperties
<1>3. Len(t) = n + 1 /\ t[n + 1] = ev /\ \A i \in 1..n : t[i] = s[i]
  BY <1>1, <1>2
<1>4. Received(t) = Received(s)
  BY <1>2, ReceivedAppend
<1>5. \A i \in 1..(n + 1) : i = n + 1 \/ i \in 1..n
  OBVIOUS
<1>6. ASSUME NEW L, ev.t \notin L, \A k \in 1..n : s[k].t \notin L
      PROVE  \A k \in 1..(n + 1) : t[k].t \notin L
  BY <1>3, <1>5, <1>6
<1>7. ASSUME NEW next, NEW opened, Lifecycle(s, next, opened), ev.t = "message_stop" => opened = {}
      PROVE  Lifecycle(t, next, opened)
  BY <1>2, <1>7, LifecycleAppend
<1>8. QED
  BY <1>1, <1>2, <1>3, <1>4, <1>6, <1>7

\* What a stream is when it has ended.
Ended(s, to, c) ==
    /\ s \in Seq(Event)
    /\ Received(s) = Keep(c.deltas, ShownTo(to))
    /\ to = "anthropic" => \A k \in 1..Len(s) : InLifecycle(s, k)
    /\ {k \in 1..Len(s) : s[k].t \in LastOf(to)} = {Len(s)}
    /\ (\E k \in 1..Len(s) : s[k].t \in {"error", "failed"}) <=> c.failed
    /\ ~c.failed /\ c.called =>
          /\ to = "anthropic" => s[Len(s) - 1].t = "tool_use"
          /\ to = "openai" => s[Len(s) - 1].t \in {"tool_calls", "length"}

LEMMA CloseResponses ==
    ASSUME NEW p, NEW c, ResponsesKeeps(p, c), c.ends
    PROVE  Ended(p.out, "openai-responses", c)
<1>1. /\ Streamed(p.out, CanonicalType, c.from, IF c.failed THEN {} ELSE c.calls, c.failed,
                  Keep(c.deltas, AnyShown))
      /\ {k \in 1..Len(p.out) : p.out[k].t \in FinalTypes} = {Len(p.out)}
  BY DEF ResponsesKeeps
<1>2. LastOf("openai-responses") = FinalTypes /\ ShownTo("openai-responses") = AnyShown
  BY DEF LastOf, FinalTypes, ShownTo
<1>3. /\ p.out \in Seq(Event) /\ Received(p.out) = Keep(c.deltas, AnyShown)
      /\ c.failed <=> \E k \in 1..Len(p.out) : p.out[k].t \in FailTypes
  BY <1>1 DEF Streamed
<1>4. QED
  BY <1>1, <1>2, <1>3 DEF Ended, FailTypes

LEMMA CloseChatStep ==
    ASSUME NEW p, NEW c, ChatKeeps(p, c), NEW q, q = CloseChat(p)
    PROVE  Ended(q.out, "openai", c)
<1>1. PICK s, rec : s = p.out /\ rec = Keep(c.deltas, ChatShown)
  OBVIOUS
<1>2. /\ Streamed(s, ChatTypes, c.from, p.e.calls, c.failed, rec)
      /\ p \in ChatPair /\ p.e.finish \in {"none", "stop", "length", "tool_calls"}
      /\ c.called => p.e.calls # {}
  BY <1>1 DEF ChatKeeps, ChatPair, ChatEncoder
<1>3. /\ s \in Seq(Event) /\ Received(s) = rec
      /\ \A k \in 1..Len(s) : s[k].t \in ChatTypes
      /\ c.failed <=> \E k \in 1..Len(s) : s[k].t \in FailTypes
  BY <1>2 DEF Streamed
<1>4. PICK x : x = CASE p.e.calls # {} /\ p.e.finish # "length" -> "tool_calls"
                     [] p.e.calls = {} /\ p.e.finish = "none"   -> "stop"
                     [] OTHER                                   -> p.e.finish
  OBVIOUS
<1>5. x \in {"stop", "length", "tool_calls"} /\ (c.called => x \in {"tool_calls", "length"})
  BY <1>2, <1>4
<1>6. PICK a, b : /\ a \in Event /\ a = Plain(x) /\ a.t = x
                  /\ b \in Event /\ b = Plain("DONE") /\ b.t = "DONE"
  <2>1. {"stop", "length", "tool_calls", "DONE"} \subseteq CanonicalType \cup ClientTypes
    <3>1. {"length", "tool_calls", "DONE", "stop"} \subseteq ClientTypes
      BY DEF ClientTypes
    <3>2. QED
      BY <3>1
  <2>2. x \in CanonicalType \cup ClientTypes /\ "DONE" \in CanonicalType \cup ClientTypes /\ 0 \in Nat
    BY <1>5, <2>1
  <2>3. /\ Plain(x) \in Event /\ Plain(x).t = x
        /\ Plain("DONE") \in Event /\ Plain("DONE").t = "DONE"
    BY <2>2, EventOf DEF Plain
  <2>4. QED
    BY <2>3
<1>7. PICK t \in Seq(Event) : t = Append(s, a)
  BY <1>3, <1>6, AppendProperties
<1>8. PICK u \in Seq(Event) : u = Append(t, b)
  BY <1>6, AppendProperties
<1>9. q.out = u
  <2>1. PICK v : v = <<a, b>>
    OBVIOUS
  <2>2. v \in Seq(Event) /\ Len(v) = 2 /\ v[1] = a /\ v[2] = b
    BY <1>6, <2>1
  <2>3. s \o v = u
    <3>1. s \o v = Append(Append(s, v[1]), v[2])
      BY <1>3, <2>2, TwoMore
    <3>2. QED
      BY <1>7, <1>8, <2>2, <3>1
  <2>4. q = PutAll(p, v)
    BY <1>4, <1>6, <2>1, Zenon DEF CloseChat
  <2>5. q = [p EXCEPT !.out = @ \o v]
    BY <2>4 DEF PutAll
  <2>6. q.out = s \o v
    BY <1>1, <1>2, <2>5 DEF ChatPair
  <2>7. QED
    BY <2>3, <2>6
<1>10. PICK L : L = LastOf("openai")
  OBVIOUS
<1>11. L = {"DONE"}
  BY <1>10 DEF LastOf
<1>12. /\ a.t \notin DeltaTypes \cup BeginTypes \cup {"stop"} \/ a.t = "stop"
       /\ b.t \notin DeltaTypes \cup BeginTypes \cup {"stop"}
  BY <1>5, <1>6 DEF DeltaTypes, BeginTypes
<1>13. PICK n \in Nat : n = Len(s)
  BY <1>3
<1>14. Len(t) = n + 1 /\ t[n + 1] = a /\ \A i \in 1..n : t[i] = s[i]
  BY <1>3, <1>7, <1>13
<1>15. Len(u) = n + 2 /\ u[n + 2] = b /\ \A i \in 1..(n + 1) : u[i] = t[i]
  BY <1>8, <1>14
<1>16. Received(t) = rec /\ Received(u) = rec
  <2>1. a.t \notin DeltaTypes /\ b.t \notin DeltaTypes
    BY <1>5, <1>6 DEF DeltaTypes
  <2>2. Received(t) = Received(s)
    BY <1>3, <1>6, <1>7, <2>1, ReceivedAppend
  <2>3. Received(u) = Received(t)
    BY <1>6, <1>8, <2>1, ReceivedAppend
  <2>4. QED
    BY <1>3, <2>2, <2>3
<1>17. \A i \in 1..(n + 2) : i \in 1..n \/ i = n + 1 \/ i = n + 2
  OBVIOUS
<1>18. n + 1 \in 1..(n + 1) /\ n + 1 \in 1..(n + 2) /\ n + 2 \in 1..(n + 2) /\ (n + 2) - 1 = n + 1
       /\ \A i \in 1..n : i \in 1..(n + 1) /\ i \in 1..(n + 2)
  OBVIOUS
<1>19. /\ u[n + 1] = a /\ u[n + 2] = b /\ \A i \in 1..n : u[i] = s[i]
  BY <1>14, <1>15, <1>18
<1>20. {k \in 1..Len(u) : u[k].t \in L} = {Len(u)}
  <2>1. \A k \in 1..n : u[k].t \notin L
    BY <1>3, <1>11, <1>13, <1>19 DEF ChatTypes
  <2>2. u[n + 1].t \notin L /\ u[n + 2].t \in L
    BY <1>5, <1>6, <1>11, <1>19
  <2>3. QED
    BY <1>15, <1>17, <1>18, <2>1, <2>2
<1>21. (\E k \in 1..Len(u) : u[k].t \in {"error", "failed"}) <=> c.failed
  <2>1. u[n + 1].t \notin FailTypes /\ u[n + 2].t \notin FailTypes
    BY <1>5, <1>6, <1>19 DEF FailTypes
  <2>2. (\E k \in 1..(n + 2) : u[k].t \in FailTypes) <=> \E k \in 1..n : s[k].t \in FailTypes
    BY <1>17, <1>18, <1>19, <2>1
  <2>3. QED
    BY <1>3, <1>13, <1>15, <2>2 DEF FailTypes
<1>22. c.called => u[Len(u) - 1].t \in {"tool_calls", "length"}
  BY <1>5, <1>6, <1>15, <1>18, <1>19
<1>23. QED
  BY <1>1, <1>9, <1>10, <1>16, <1>20, <1>21, <1>22 DEF Ended, ShownTo

LEMMA CloseAnthropicStep ==
    ASSUME NEW p, NEW c, AnthropicKeeps(p, c), NEW q, q = CloseAnthropic(p)
    PROVE  Ended(q.out, "anthropic", c)
<1>1. PICK from, rec : from = c.from /\ rec = Keep(c.deltas, AnyShown)
  OBVIOUS
<1>2. /\ AnthropicOK(p, from, rec) /\ p \in AnthropicPair /\ p.e.failed = c.failed
      /\ c.called => p.e.saw
  BY <1>1 DEF AnthropicKeeps, AnthropicOK
<1>3. PICK L : L = LastOf("anthropic") /\ L = {"message_stop", "error"}
  BY DEF LastOf
<1>4. L \cap MidTypes = {} /\ FailTypes \cap MidTypes = {}
  BY <1>3 DEF MidTypes, BeginTypes, DeltaTypes, FailTypes
<1>5. CASE p.e.failed
  <2>1. PICK b \in Event : b = Plain("error") /\ b.t = "error"
    <3>1. "error" \in CanonicalType \cup ClientTypes /\ 0 \in Nat
      BY DEF ClientTypes
    <3>2. QED
      BY <3>1, EventOf DEF Plain
  <2>2. PICK s, next, opened : /\ s = p.out /\ next = p.e.next
                               /\ opened = p.e.thinking \cup p.e.text \cup CallBlocks(p.e)
    OBVIOUS
  <2>3. Wire(s, next, opened, rec)
    BY <1>2, <2>2 DEF AnthropicOK
  <2>4. /\ s \in Seq(Event) /\ Lifecycle(s, next, opened) /\ Received(s) = rec
        /\ \A k \in 1..Len(s) : s[k].t \in MidTypes
    BY <2>3 DEF Wire, Lifecycle
  <2>5. q = [p EXCEPT !.out = Append(@, b)]
    BY <1>5, <2>1 DEF CloseAnthropic, Put
  <2>6. q.out = Append(s, b)
    BY <1>2, <2>2, <2>5 DEF AnthropicPair
  <2>7. b.t \notin DeltaTypes \cup BeginTypes \cup {"stop"} /\ b.t \in L
    BY <1>3, <2>1 DEF DeltaTypes, BeginTypes
  <2>8. PICK t \in Seq(Event) : t = Append(s, b)
    BY <2>4, AppendProperties
  <2>9. /\ Received(t) = rec /\ Lifecycle(t, next, opened)
        /\ Len(t) = Len(s) + 1 /\ t[Len(s) + 1] = b
    BY <2>1, <2>4, <2>7, <2>8, EndAppended
  <2>10. {k \in 1..Len(t) : t[k].t \in L} = {Len(t)}
    <3>1. \A k \in 1..Len(s) : s[k].t \notin L
      BY <1>4, <2>4
    <3>2. QED
      BY <2>4, <2>7, <2>8, <3>1, LastAppended
  <2>11. \E k \in 1..Len(t) : t[k].t \in {"error", "failed"}
    <3>1. Len(s) + 1 \in 1..Len(t)
      BY <2>4, <2>9
    <3>2. QED
      BY <2>1, <2>9, <3>1
  <2>12. c.failed
    BY <1>2, <1>5
  <2>13. \A k \in 1..Len(t) : InLifecycle(t, k)
    BY <2>9 DEF Lifecycle
  <2>14. QED
    BY <1>1, <1>3, <2>6, <2>8, <2>9, <2>10, <2>11, <2>12, <2>13 DEF Ended, ShownTo
<1>6. CASE ~p.e.failed
  <2>1. PICK p1 : p1 = StopThinking(p)
    OBVIOUS
  <2>2. PICK p2 : p2 = StopText(p1)
    OBVIOUS
  <2>3. AnthropicOK(p1, from, rec) /\ p1.e.thinking = {} /\ p1.e.calls = p.e.calls
    BY <1>2, <2>1, StopThinkingStep
  <2>4. AnthropicOK(p2, from, rec) /\ p2.e.thinking = {} /\ p2.e.text = {} /\ p2.e.calls = p.e.calls
    BY <2>2, <2>3, StopTextStep
  <2>5. PICK s, next, opened : s = p2.out /\ next = p2.e.next /\ opened = CallBlocks(p.e)
    OBVIOUS
  <2>6. Wire(s, next, opened, rec) /\ p2 \in AnthropicPair
    <3>1. CallBlocks(p2.e) = CallBlocks(p.e)
      BY <2>4 DEF CallBlocks
    <3>2. p2.e.thinking \cup p2.e.text \cup CallBlocks(p2.e) = opened
      BY <2>4, <2>5, <3>1
    <3>3. QED
      BY <2>4, <2>5, <3>2, Zenon DEF AnthropicOK
  <2>7. PICK t \in Seq(Event) : t = s \o Stops(opened) /\ Wire(t, next, {}, rec)
    <3>1. PICK blocks \in SUBSET opened : blocks = opened
      OBVIOUS
    <3>2. s \o Stops(blocks) \in Seq(Event) /\ Wire(s \o Stops(blocks), next, opened \ blocks, rec)
      BY <2>6, <3>1, WireStops
    <3>3. opened \ blocks = {}
      BY <3>1
    <3>4. QED
      BY <3>1, <3>2, <3>3
  <2>8. /\ Lifecycle(t, next, {}) /\ Received(t) = rec
        /\ \A k \in 1..Len(t) : t[k].t \in MidTypes
    BY <2>7 DEF Wire
  <2>9. PICK x : x = IF p.e.saw THEN "tool_use" ELSE p.e.stop
    OBVIOUS
  <2>10. x \in {"tool_use", "end_turn", "max_tokens"} /\ (c.called => x = "tool_use")
    BY <1>2, <2>9, EncoderTypes
  <2>11. PICK a, b : /\ a \in Event /\ a = Plain(x) /\ a.t = x
                     /\ b \in Event /\ b = Plain("message_stop") /\ b.t = "message_stop"
    <3>1. {"tool_use", "end_turn", "max_tokens", "message_stop"} \subseteq CanonicalType \cup ClientTypes
      <4>1. {"tool_use", "end_turn", "max_tokens", "message_stop"} \subseteq ClientTypes
        BY DEF ClientTypes
      <4>2. QED
        BY <4>1
    <3>2. x \in CanonicalType \cup ClientTypes /\ "message_stop" \in CanonicalType \cup ClientTypes /\ 0 \in Nat
      BY <2>10, <3>1
    <3>3. /\ Plain(x) \in Event /\ Plain(x).t = x
          /\ Plain("message_stop") \in Event /\ Plain("message_stop").t = "message_stop"
      BY <3>2, EventOf DEF Plain
    <3>4. QED
      BY <3>3
  <2>12. PICK v : v = <<a, b>>
    OBVIOUS
  <2>13. PICK t1 \in Seq(Event) : t1 = Append(t, a)
    BY <2>11, AppendProperties
  <2>14. PICK u \in Seq(Event) : u = Append(t1, b)
    BY <2>11, AppendProperties
  <2>15. t \o v = u
    <3>1. v \in Seq(Event) /\ Len(v) = 2 /\ v[1] = a /\ v[2] = b
      BY <2>11, <2>12
    <3>2. t \o v = Append(Append(t, v[1]), v[2])
      BY <3>1, TwoMore
    <3>3. QED
      BY <2>13, <2>14, <3>1, <3>2
  <2>16. q.out = u
    <3>1. PICK w, p3 : w = Stops(opened) /\ p3 = PutAll([p2 EXCEPT !.e.calls = <<>>], w)
      OBVIOUS
    <3>2. q = PutAll(p3, v)
      <4>1. {p.e.calls[i] : i \in DOMAIN p.e.calls} = opened
        BY <2>5 DEF CallBlocks
      <4>2. <<Plain(IF p.e.saw THEN "tool_use" ELSE p.e.stop), Plain("message_stop")>> = v
        BY <2>9, <2>11, <2>12
      <4>3. QED
        BY <1>6, <2>1, <2>2, <3>1, <4>1, <4>2, Zenon DEF CloseAnthropic
    <3>3. p3 = [[p2 EXCEPT !.e.calls = <<>>] EXCEPT !.out = @ \o w]
      BY <3>1 DEF PutAll
    <3>4. p3 = [e |-> [p2.e EXCEPT !.calls = <<>>], out |-> s \o w]
      BY <2>5, <2>6, <3>3 DEF AnthropicPair
    <3>5. p3.out = s \o w /\ DOMAIN p3 = {"e", "out"}
      BY <3>4
    <3>6. q = [p3 EXCEPT !.out = @ \o v]
      BY <3>2 DEF PutAll
    <3>7. q.out = (s \o w) \o v
      BY <3>4, <3>6
    <3>8. QED
      BY <2>7, <2>15, <3>1, <3>7
  <2>17. /\ a.t \notin DeltaTypes \cup BeginTypes \cup {"stop"} /\ a.t \notin L /\ a.t \notin FailTypes
         /\ b.t \notin DeltaTypes \cup BeginTypes \cup {"stop"} /\ b.t \in L /\ b.t \notin FailTypes
         /\ a.t # "message_stop"
    BY <1>3, <2>10, <2>11 DEF DeltaTypes, BeginTypes, FailTypes
  <2>18. /\ Received(t1) = rec /\ Lifecycle(t1, next, {})
         /\ \A k \in 1..Len(t1) : t1[k].t \notin L
         /\ \A k \in 1..Len(t1) : t1[k].t \notin FailTypes
         /\ t1[Len(t1)] = a
    <3>1. (\A k \in 1..Len(t) : t[k].t \notin L) /\ \A k \in 1..Len(t) : t[k].t \notin FailTypes
      BY <1>4, <2>8
    <3>2. a \in Event
      BY <2>11
    <3>3. /\ Received(Append(t, a)) = Received(t)
          /\ Len(Append(t, a)) = Len(t) + 1 /\ Append(t, a)[Len(t) + 1] = a
          /\ \A M : a.t \notin M /\ (\A k \in 1..Len(t) : t[k].t \notin M)
                      => \A k \in 1..Len(Append(t, a)) : Append(t, a)[k].t \notin M
          /\ \A nx, op : Lifecycle(t, nx, op) /\ (a.t = "message_stop" => op = {})
                      => Lifecycle(Append(t, a), nx, op)
      BY <2>17, <3>2, EndAppended
    <3>4. Received(t1) = rec /\ t1[Len(t1)] = a
      BY <2>8, <2>13, <3>3
    <3>5. Lifecycle(t1, next, {})
      BY <2>8, <2>13, <3>3
    <3>6. (\A k \in 1..Len(t1) : t1[k].t \notin L) /\ \A k \in 1..Len(t1) : t1[k].t \notin FailTypes
      BY <2>13, <2>17, <3>1, <3>3
    <3>7. QED
      BY <3>4, <3>5, <3>6
  <2>19. /\ Received(u) = rec /\ Lifecycle(u, next, {})
         /\ \A k \in 1..Len(u) : u[k].t \notin FailTypes
         /\ Len(u) = Len(t1) + 1 /\ \A k \in 1..Len(t1) : u[k] = t1[k]
    <3>1. b \in Event
      BY <2>11
    <3>2. /\ Received(Append(t1, b)) = Received(t1)
          /\ Len(Append(t1, b)) = Len(t1) + 1
          /\ \A k \in 1..Len(t1) : Append(t1, b)[k] = t1[k]
          /\ \A M : b.t \notin M /\ (\A k \in 1..Len(t1) : t1[k].t \notin M)
                      => \A k \in 1..Len(Append(t1, b)) : Append(t1, b)[k].t \notin M
          /\ \A nx, op : Lifecycle(t1, nx, op) /\ (b.t = "message_stop" => op = {})
                      => Lifecycle(Append(t1, b), nx, op)
      BY <2>17, <3>1, EndAppended
    <3>3. Lifecycle(u, next, {})
      BY <2>14, <2>18, <3>2
    <3>4. \A k \in 1..Len(u) : u[k].t \notin FailTypes
      BY <2>14, <2>17, <2>18, <3>2
    <3>5. QED
      BY <2>14, <2>18, <3>2, <3>3, <3>4
  <2>20. {k \in 1..Len(u) : u[k].t \in L} = {Len(u)}
    BY <2>11, <2>14, <2>17, <2>18, LastAppended
  <2>21. \A k \in 1..Len(u) : InLifecycle(u, k)
    BY <2>19 DEF Lifecycle
  <2>22. c.called => u[Len(u) - 1].t = "tool_use"
    <3>1. Len(t1) \in 1..Len(t1)
      BY <2>13, <2>11
    <3>2. Len(u) - 1 = Len(t1)
      BY <2>19
    <3>3. QED
      BY <2>10, <2>11, <2>18, <2>19, <3>1, <3>2
  <2>23. ~c.failed /\ (~\E k \in 1..Len(u) : u[k].t \in {"error", "failed"})
    BY <1>2, <1>6, <2>19 DEF FailTypes
  <2>24. Received(u) = Keep(c.deltas, ShownTo("anthropic"))
    BY <1>1, <2>19 DEF ShownTo
  <2>25. QED
    BY <1>3, <2>14, <2>16, <2>20, <2>21, <2>22, <2>23, <2>24 DEF Ended
<1>7. QED
  BY <1>5, <1>6

\* Close ends the stream; a Responses client has had its end already.
LEMMA CloseStep ==
    ASSUME NEW to, NEW p, NEW c, Sinks(to, p, c), to = "openai-responses" => c.ends,
           NEW q, q = Close(to, p)
    PROVE  Ended(q.out, to, c)
<1>1. CASE to = "anthropic"
  BY <1>1, CloseAnthropicStep DEF Sinks, Close
<1>2. CASE to = "openai"
  BY <1>2, CloseChatStep DEF Sinks, Close
<1>3. CASE to = "openai-responses"
  BY <1>3, CloseResponses DEF Sinks, Close
<1>4. QED
  BY <1>1, <1>2, <1>3 DEF Sinks

\* Nothing is told of a stream that begins.
ToldNothing(from) == [from |-> from, text |-> FALSE, thinking |-> FALSE, calls |-> {},
                      called |-> FALSE, failed |-> FALSE, ends |-> FALSE, deltas |-> <<>>]

LEMMA SinkBegins ==
    ASSUME NEW to \in Protocols, NEW from \in Protocols
    PROVE  /\ ToldNothing(from) \in Told
           /\ Sinks(to, [e |-> NewEncoder[to], out |-> <<>>], ToldNothing(from))
<1>1. PICK c : c = ToldNothing(from)
  OBVIOUS
<1>2. PICK s \in Seq(Event) : s = <<>>
  BY EmptySeq
<1>3. PICK p : p = [e |-> NewEncoder[to], out |-> s]
  OBVIOUS
<1>4. /\ c.from = from /\ c.text = FALSE /\ c.thinking = FALSE /\ c.calls = {} /\ c.called = FALSE
      /\ c.failed = FALSE /\ c.ends = FALSE /\ c.deltas = <<>>
  BY <1>1 DEF ToldNothing
<1>5. c \in Told
  <2>1. PICK ds \in Seq(DeltaTypes \X Nat \X Nat) : ds = <<>>
    BY EmptySeq
  <2>2. QED
    BY <1>1, <2>1 DEF ToldNothing, Told
<1>6. Len(s) = 0 /\ DOMAIN s = {}
  BY <1>2
<1>7. \A kept : Keep(c.deltas, kept) = <<>>
  BY <1>4, KeptNone
<1>8. Received(s) = <<>>
  <2>1. [k \in DOMAIN s |-> DeltaAt(s, k)] = <<>>
    BY <1>6
  <2>2. QED
    BY <2>1, KeptNone DEF Received
<1>9. p.out = s /\ p.e = NewEncoder[to]
  BY <1>3
<1>10. \A types, fr : Streamed(s, types, fr, {}, FALSE, <<>>)
  BY <1>6, <1>8 DEF Streamed
<1>11. CASE to = "anthropic"
  <2>1. p.e = NewAnthropicEncoder
    BY <1>9, <1>11 DEF NewEncoder
  <2>2. PICK f : f = <<>>
    OBVIOUS
  <2>3. f \in UNION {[D -> Nat] : D \in SUBSET Nat} /\ DOMAIN f = {}
    <3>1. f \in [{} -> Nat]
      BY <2>2
    <3>2. QED
      BY <3>1
  <2>4. /\ p.e \in AnthropicEncoder /\ p.e.started = FALSE /\ p.e.next = 0 /\ p.e.thinking = {}
        /\ p.e.text = {} /\ p.e.calls = f /\ p.e.failed = FALSE
    <3>1. PICK C : C = UNION {[D -> Nat] : D \in SUBSET Nat}
      OBVIOUS
    <3>2. p.e = [started |-> FALSE, next |-> 0, thinking |-> {}, text |-> {},
                 calls |-> f, saw |-> FALSE, stop |-> "end_turn", failed |-> FALSE]
      BY <2>1, <2>2, Zenon DEF NewAnthropicEncoder
    <3>3. p.e \in [started : BOOLEAN, next : Nat, thinking : SUBSET Nat, text : SUBSET Nat, calls : C,
                   saw : BOOLEAN, stop : {"end_turn", "max_tokens"}, failed : BOOLEAN]
      <4>1. f \in C
        BY <2>3, <3>1
      <4>2. PICK N : N = SUBSET Nat
        OBVIOUS
      <4>3. PICK S : S = {"end_turn", "max_tokens"}
        OBVIOUS
      <4>4. PICK a \in N, n \in Nat, z \in S, w \in C, b \in BOOLEAN :
               a = {} /\ n = 0 /\ z = "end_turn" /\ w = f /\ b = FALSE
        <5>1. {} \in N /\ 0 \in Nat /\ "end_turn" \in S /\ FALSE \in BOOLEAN
          BY <4>2, <4>3
        <5>2. QED
          BY <4>1, <5>1, Zenon
      <4>5. [started |-> b, next |-> n, thinking |-> a, text |-> a, calls |-> w, saw |-> b,
             stop |-> z, failed |-> b]
               \in [started : BOOLEAN, next : Nat, thinking : N, text : N, calls : C,
                    saw : BOOLEAN, stop : S, failed : BOOLEAN]
        OBVIOUS
      <4>6. p.e = [started |-> b, next |-> n, thinking |-> a, text |-> a, calls |-> w, saw |-> b,
                   stop |-> z, failed |-> b]
        BY <3>2, <4>4, Zenon
      <4>7. QED
        BY <4>2, <4>3, <4>5, <4>6, Zenon
    <3>4. /\ p.e.started = FALSE /\ p.e.next = 0 /\ p.e.thinking = {}
          /\ p.e.text = {} /\ p.e.calls = f /\ p.e.failed = FALSE
      BY <3>2
    <3>5. QED
      BY <3>1, <3>3, <3>4, Zenon DEF AnthropicEncoder
  <2>5. p \in AnthropicPair
    BY <1>3, <1>9, <2>4 DEF AnthropicPair
  <2>6. CallBlocks(p.e) = {}
    BY <2>3, <2>4 DEF CallBlocks
  <2>7. Wire(s, 0, {}, <<>>)
    <3>1. BegunIn(s, Len(s)) = {} /\ {j \in 1..Len(s) : s[j].t = "stop"} = {}
      BY <1>6 DEF BegunIn
    <3>2. IsFiniteSet({}) /\ Cardinality({}) = 0
      BY FS_EmptySet
    <3>3. OpenAt(s, Len(s) + 1) = {}
      BY <1>6 DEF OpenAt
    <3>4. 0..(0 - 1) = {}
      OBVIOUS
    <3>5. Lifecycle(s, 0, {})
      BY <1>6, <3>1, <3>2, <3>3, <3>4 DEF Lifecycle
    <3>6. QED
      BY <1>2, <1>6, <1>8, <3>5 DEF Wire
  <2>8. p.e.thinking \cup p.e.text \cup CallBlocks(p.e) = {}
    BY <2>4, <2>6
  <2>9. AnthropicOK(p, from, <<>>)
    BY <1>9, <2>3, <2>4, <2>5, <2>6, <2>7, <2>8 DEF AnthropicOK, AtMostOne
  <2>10. AnthropicKeeps(p, c)
    BY <1>4, <1>7, <2>3, <2>4, <2>9 DEF AnthropicKeeps
  <2>11. QED
    BY <1>1, <1>2, <1>3, <1>5, <1>11, <2>10 DEF Sinks
<1>12. CASE to = "openai"
  <2>1. p.e = NewChatEncoder
    BY <1>9, <1>12 DEF NewEncoder
  <2>2. p.e \in ChatEncoder /\ p.e.calls = {}
    BY <2>1 DEF NewChatEncoder, ChatEncoder
  <2>3. p \in ChatPair
    BY <1>3, <1>9, <2>2 DEF ChatPair
  <2>4. Streamed(p.out, ChatTypes, c.from, p.e.calls, c.failed, Keep(c.deltas, ChatShown))
    BY <1>4, <1>7, <1>9, <1>10, <2>2
  <2>5. ChatKeeps(p, c)
    BY <1>4, <2>2, <2>3, <2>4 DEF ChatKeeps
  <2>6. QED
    BY <1>1, <1>2, <1>3, <1>5, <1>12, <2>5 DEF Sinks
<1>13. CASE to = "openai-responses"
  <2>1. p.e = <<>>
    BY <1>9, <1>13 DEF NewEncoder
  <2>2. p \in [e : {<<>>}, out : Seq(Event)]
    BY <1>3, <1>9, <2>1
  <2>3. Streamed(p.out, CanonicalType, c.from, IF c.failed THEN {} ELSE c.calls, c.failed,
                 Keep(c.deltas, AnyShown))
    BY <1>4, <1>7, <1>9, <1>10
  <2>4. {k \in 1..Len(p.out) : p.out[k].t \in FinalTypes} = IF c.ends THEN {Len(p.out)} ELSE {}
    BY <1>4, <1>6, <1>9
  <2>5. ResponsesKeeps(p, c)
    BY <1>4, <2>2, <2>3, <2>4 DEF ResponsesKeeps
  <2>6. QED
    BY <1>1, <1>2, <1>3, <1>5, <1>13, <2>5 DEF Sinks
<1>14. QED
  BY <1>11, <1>12, <1>13 DEF Protocols

-----------------------------------------------------------------------------
(* What a decoder's events tell.                                              *)

\* Events that tell of no delta and no new call, and do not end the stream.
QuietTypes == {"created", "item_added", "part_added", "text_done", "args_done", "thinking_added",
               "thinking_text_done", "thinking_part_done", "item_done"}

LEMMA TypesApart ==
    /\ QuietTypes \subseteq CanonicalType /\ DeltaTypes \subseteq CanonicalType
    /\ QuietTypes \cap (DeltaTypes \cup {"call_added", "completed", "incomplete", "failed"}) = {}
BY DEF QuietTypes, DeltaTypes, CanonicalType

LEMMA TellsQuiet ==
    ASSUME NEW c \in Told, ~c.ends, NEW ev \in Event, ev.t \in QuietTypes \ {"args_done"},
           NEW d \in Told, d.from = c.from, d.ends = c.ends, d.failed = c.failed,
           d.called = c.called, d.calls = c.calls, d.deltas = c.deltas,
           d.text => ev.t = "part_added" \/ (c.text /\ ev.t # "text_done"),
           d.thinking => ev.t = "thinking_added" \/ (c.thinking /\ ev.t # "part_added")
    PROVE  Tells(c, ev, d)
<1>1. /\ ev.t \in CanonicalType /\ ev.t \notin DeltaTypes
      /\ ev.t \notin {"call_added", "completed", "incomplete", "failed", "args_done"}
  BY TypesApart
<1>2. ev.t \notin {"text", "thinking", "args"}
  BY <1>1 DEF DeltaTypes
<1>3. /\ d.from = c.from /\ d.ends = c.ends /\ d.failed = c.failed /\ d.called = c.called
      /\ d.calls = c.calls /\ d.deltas = c.deltas
  OBVIOUS
<1>4. c.ends \in BOOLEAN /\ c.failed \in BOOLEAN /\ c.called \in BOOLEAN
  BY DEF Told
<1>5. d.ends = (c.ends \/ ev.t \in {"completed", "incomplete", "failed"})
  BY <1>1, <1>3, <1>4
<1>6. d.failed = (c.failed \/ ev.t = "failed") /\ d.called = (c.called \/ ev.t = "call_added")
  BY <1>1, <1>3, <1>4
<1>7. QED
  BY <1>1, <1>2, <1>3, <1>5, <1>6 DEF Tells

LEMMA TellsDelta ==
    ASSUME NEW c \in Told, ~c.ends, NEW ev \in Event, ev.t \in DeltaTypes,
           ev.t = "text" => c.text, ev.t = "thinking" => c.thinking, ev.t = "args" => ev.i \in c.calls,
           NEW d \in Told, d.from = c.from, d.ends = c.ends, d.failed = c.failed,
           d.called = c.called, d.calls = c.calls, d.text = c.text, d.thinking = c.thinking,
           d.deltas = Append(c.deltas, DeltaOf(c.from, ev))
    PROVE  Tells(c, ev, d)
<1>1. ev.t \in CanonicalType /\ ev.t \notin QuietTypes
  BY TypesApart
<1>2. /\ ev.t \notin {"call_added", "completed", "incomplete", "failed"}
      /\ ev.t \notin {"text_done", "args_done", "part_added"}
  BY DEF DeltaTypes
<1>3. /\ d.from = c.from /\ d.ends = c.ends /\ d.failed = c.failed /\ d.called = c.called
      /\ d.calls = c.calls /\ d.text = c.text /\ d.thinking = c.thinking
      /\ d.deltas = Append(c.deltas, DeltaOf(c.from, ev))
  OBVIOUS
<1>4. c.ends \in BOOLEAN /\ c.failed \in BOOLEAN /\ c.called \in BOOLEAN
  BY DEF Told
<1>5. d.ends = (c.ends \/ ev.t \in {"completed", "incomplete", "failed"})
  BY <1>2, <1>3, <1>4
<1>6. d.failed = (c.failed \/ ev.t = "failed") /\ d.called = (c.called \/ ev.t = "call_added")
  BY <1>2, <1>3, <1>4
<1>7. QED
  BY <1>1, <1>2, <1>3, <1>5, <1>6 DEF Tells

LEMMA TellsCall ==
    ASSUME NEW c \in Told, ~c.ends, NEW ev \in Event, ev.t = "call_added", ev.i \notin c.calls,
           ev.n = Own(c.from, ev.i), NEW d \in Told,
           d.from = c.from, d.ends = c.ends, d.failed = c.failed, d.deltas = c.deltas,
           d.called, d.calls = c.calls \cup {ev.i}, ~d.text, ~d.thinking
    PROVE  Tells(c, ev, d)
<1>1. ev.t \in CanonicalType /\ ev.t \notin DeltaTypes
  BY DEF CanonicalType, DeltaTypes
<1>2. c.ends \in BOOLEAN /\ c.failed \in BOOLEAN /\ d.called \in BOOLEAN
  BY DEF Told
<1>3. d.ends = (c.ends \/ ev.t \in {"completed", "incomplete", "failed"})
  BY <1>2
<1>4. d.failed = (c.failed \/ ev.t = "failed") /\ d.called = (c.called \/ ev.t = "call_added")
  BY <1>2
<1>5. QED
  BY <1>1, <1>3, <1>4 DEF Tells

LEMMA TellsLast ==
    ASSUME NEW c \in Told, NEW ev \in Event, ev.t \in {"completed", "incomplete", "failed"},
           c.ends => ev.t = "failed" /\ c.from = "openai-responses",
           NEW d \in Told,
           d.from = c.from, d.ends, d.failed = (c.failed \/ ev.t = "failed"), d.called = c.called,
           d.deltas = c.deltas, d.failed \/ d.calls = c.calls, ~d.text, ~d.thinking
    PROVE  Tells(c, ev, d)
<1>1. ev.t \in CanonicalType /\ ev.t \notin DeltaTypes
  BY DEF CanonicalType, DeltaTypes
<1>2. ev.t \notin {"text", "thinking", "args", "call_added", "args_done"}
  OBVIOUS
<1>3. c.called \in BOOLEAN /\ d.ends \in BOOLEAN
  BY DEF Told
<1>4. d.ends = (c.ends \/ ev.t \in {"completed", "incomplete", "failed"})
  BY <1>3
<1>5. d.called = (c.called \/ ev.t = "call_added")
  BY <1>2, <1>3
<1>6. QED
  BY <1>1, <1>2, <1>4, <1>5 DEF Tells

\* d tells what c does of the deltas, the calls that were made and a failure.
SameStory(c, d) == /\ d \in Told
                   /\ d.from = c.from /\ d.called = c.called /\ d.deltas = c.deltas
                   /\ d.failed = c.failed

\* The events with which a decoder closes what is open.
LEMMA CarriesQuiet ==
    ASSUME NEW c \in Told, ~c.ends, NEW evs \in Seq(Event),
           \A k \in 1..Len(evs) : evs[k].t \in QuietTypes
    PROVE  \E d : Carries(c, evs, d) /\ SameStory(c, d) /\ ~d.ends
<1>1. PICK n \in Nat : n = Len(evs)
  OBVIOUS
<1> DEFINE Done(k) == {evs[j].i : j \in {j \in 1..k : evs[j].t = "args_done"}}
           Quieted(k) == [c EXCEPT !.text = FALSE, !.thinking = FALSE, !.calls = @ \ Done(k)]
<1>2. PICK cs : cs = [k \in 0..n |-> IF k = 0 THEN c ELSE Quieted(k)]
  OBVIOUS
<1>3. ASSUME NEW k \in 0..n
      PROVE  /\ cs[k] \in Told /\ cs[k].from = c.from /\ cs[k].called = c.called
             /\ cs[k].deltas = c.deltas /\ cs[k].failed = c.failed /\ cs[k].ends = c.ends
             /\ cs[k].calls = c.calls \ Done(k)
             /\ k > 0 => ~cs[k].text /\ ~cs[k].thinking
  <2>1. CASE k = 0
    <3>1. cs[k] = c
      BY <1>2, <2>1
    <3>2. Done(k) = {}
      BY <2>1
    <3>3. c.calls \ Done(k) = c.calls
      BY <3>2
    <3>4. QED
      BY <2>1, <3>1, <3>3
  <2>2. CASE k > 0
    <3>1. cs[k] = Quieted(k)
      <4> HIDE DEF Quieted
      <4> QED
        BY <1>2, <2>2
    <3>2. PICK S : S = Done(k)
      OBVIOUS
    <3>3. PICK q : q = [c EXCEPT !.text = FALSE, !.thinking = FALSE, !.calls = @ \ S]
      OBVIOUS
    <3>4. /\ q \in Told /\ q.from = c.from /\ q.called = c.called /\ q.deltas = c.deltas
          /\ q.failed = c.failed /\ q.ends = c.ends /\ q.calls = c.calls \ S
          /\ q.text = FALSE /\ q.thinking = FALSE
      BY <3>3 DEF Told
    <3>5. cs[k] = q
      BY <3>1, <3>2, <3>3, Zenon
    <3>6. QED
      BY <3>2, <3>4, <3>5
  <2>3. QED
    BY <2>1, <2>2
<1>4. ASSUME NEW k \in 1..n PROVE Tells(cs[k - 1], evs[k], cs[k])
  <2>1. k \in 0..n /\ k - 1 \in 0..n /\ k > 0
    BY <1>4
  <2>2. PICK a, ev, b : a = cs[k - 1] /\ ev = evs[k] /\ b = cs[k]
    OBVIOUS
  <2>3. ev \in Event /\ ev.t \in QuietTypes
    BY <1>1, <2>2
  <2>4. /\ ev.t \in CanonicalType /\ ev.t \notin DeltaTypes
        /\ ev.t \notin {"call_added", "completed", "incomplete", "failed"}
    BY <2>3, TypesApart
  <2>5. ev.t \notin {"text", "thinking", "args"}
    BY <2>4 DEF DeltaTypes
  <2>6. /\ a \in Told /\ b \in Told /\ b.from = a.from /\ b.called = a.called
        /\ b.deltas = a.deltas /\ b.failed = a.failed /\ b.ends = a.ends /\ ~a.ends
        /\ ~b.text /\ ~b.thinking
    BY <1>3, <2>1, <2>2
  <2>7. b.calls = IF ev.t = "args_done" THEN a.calls \ {ev.i} ELSE a.calls
    <3>1. a.calls = c.calls \ Done(k - 1) /\ b.calls = c.calls \ Done(k)
      BY <1>3, <2>1, <2>2
    <3>2. \A j : j \in 1..k <=> j \in 1..(k - 1) \/ j = k
      BY <1>4
    <3>3. Done(k) = IF ev.t = "args_done" THEN Done(k - 1) \cup {ev.i} ELSE Done(k - 1)
      BY <2>2, <3>2
    <3>4. QED
      BY <3>1, <3>3
  <2>8. a.ends \in BOOLEAN /\ a.failed \in BOOLEAN /\ a.called \in BOOLEAN
    BY <2>6 DEF Told
  <2>9. /\ b.ends = (a.ends \/ ev.t \in {"completed", "incomplete", "failed"})
        /\ b.failed = (a.failed \/ ev.t = "failed") /\ b.called = (a.called \/ ev.t = "call_added")
    BY <2>4, <2>6, <2>8
  <2>10. Tells(a, ev, b)
    BY <2>3, <2>4, <2>5, <2>6, <2>7, <2>9 DEF Tells
  <2>11. QED
    BY <2>2, <2>10
<1>5. cs[0] = c /\ n \in 0..n
  <2> HIDE DEF Quieted
  <2> QED
    BY <1>2
<1>6. Carries(c, evs, cs[n])
  BY <1>1, <1>4, <1>5 DEF Carries, Carrying
<1>7. SameStory(c, cs[n]) /\ ~cs[n].ends
  BY <1>3, <1>5 DEF SameStory
<1>8. QED
  BY <1>6, <1>7

\* A decoder's flush: what is open is closed, and then the stream.
LEMMA CarriesFlush ==
    ASSUME NEW c \in Told, ~c.ends, ~c.failed, NEW evs \in Seq(Event),
           \A k \in 1..Len(evs) : evs[k].t \in QuietTypes,
           NEW ev \in Event, ev.t \in {"completed", "incomplete"}
    PROVE  \E d : Carries(c, evs \o <<ev>>, d) /\ SameStory(c, d) /\ d.ends
<1>1. PICK e : Carries(c, evs, e) /\ SameStory(c, e) /\ ~e.ends
  BY CarriesQuiet
<1>2. PICK d : d = [e EXCEPT !.text = FALSE, !.thinking = FALSE, !.ends = TRUE]
  OBVIOUS
<1>3. e \in Told
  BY <1>1 DEF SameStory
<1>4. /\ d \in Told /\ d.from = e.from /\ d.called = e.called /\ d.deltas = e.deltas
      /\ d.failed = e.failed /\ d.ends = TRUE /\ d.calls = e.calls
      /\ d.text = FALSE /\ d.thinking = FALSE
  BY <1>2, <1>3 DEF Told
<1>5. e.failed \in BOOLEAN /\ d.failed = (e.failed \/ ev.t = "failed")
  BY <1>3, <1>4 DEF Told
<1>6. Tells(e, ev, d)
  BY <1>1, <1>3, <1>4, <1>5, TellsLast
<1>7. Carries(e, <<ev>>, d)
  BY <1>6, CarriesOne
<1>8. Carries(c, evs \o <<ev>>, d)
  BY <1>1, <1>7, CarriesBoth
<1>9. SameStory(c, d)
  BY <1>1, <1>4 DEF SameStory
<1>10. QED
  BY <1>4, <1>8, <1>9

\* A stream that breaks off.
LEMMA CarriesFailure ==
    ASSUME NEW c \in Told, c.ends => c.from = "openai-responses"
    PROVE  \E d : /\ Carries(c, <<Plain("failed")>>, d) /\ d.from = c.from
                  /\ d.deltas = c.deltas /\ d.failed /\ d.ends
<1>1. PICK ev \in Event : ev = Plain("failed") /\ ev.t = "failed"
  <2>1. "failed" \in CanonicalType \cup ClientTypes
    BY DEF CanonicalType
  <2>2. QED
    BY <2>1, EventOf DEF Plain
<1>2. PICK d : d = [from |-> c.from, text |-> FALSE, thinking |-> FALSE, calls |-> c.calls,
                    called |-> c.called, failed |-> TRUE, ends |-> TRUE, deltas |-> c.deltas]
  OBVIOUS
<1>3. d \in Told
  BY <1>2 DEF Told
<1>4. /\ d.from = c.from /\ d.called = c.called /\ d.deltas = c.deltas
      /\ d.failed = TRUE /\ d.ends = TRUE /\ d.calls = c.calls
      /\ d.text = FALSE /\ d.thinking = FALSE
  BY <1>2
<1>5. c.failed \in BOOLEAN /\ d.failed = (c.failed \/ ev.t = "failed")
  BY <1>1, <1>4 DEF Told
<1>6. Tells(c, ev, d)
  BY <1>1, <1>3, <1>4, <1>5, TellsLast
<1>7. Carries(c, <<ev>>, d)
  BY <1>6, CarriesOne
<1>8. QED
  BY <1>1, <1>4, <1>7

-----------------------------------------------------------------------------
(* The decoder of a Chat backend.                                             *)

ChatSays(text, thinking, calls, sent) ==
    [from |-> "openai", text |-> text, thinking |-> thinking, calls |-> {i + 1 : i \in calls},
     called |-> calls # {}, failed |-> FALSE, ends |-> FALSE, deltas |-> sent]

LEMMA SaysTypes ==
    ASSUME NEW x \in BOOLEAN, NEW y \in BOOLEAN, NEW K \in SUBSET Nat, NEW s \in Seq(Deltas)
    PROVE  ChatSays(x, y, K, s) \in Told
<1>1. PICK S, b : S = {i + 1 : i \in K} /\ b = (K # {})
  OBVIOUS
<1>2. S \in SUBSET Nat /\ b \in BOOLEAN
  BY <1>1
<1>3. "openai" \in Protocols /\ s \in Seq(DeltaTypes \X Nat \X Nat)
  BY DEF Protocols, Deltas
<1>4. [from |-> "openai", text |-> x, thinking |-> y, calls |-> S, called |-> b,
       failed |-> FALSE, ends |-> FALSE, deltas |-> s] \in Told
  BY <1>2, <1>3 DEF Told
<1>5. QED
  BY <1>1, <1>4, Zenon DEF ChatSays

LEMMA QuietEvent ==
    ASSUME NEW t \in QuietTypes, NEW i \in Nat
    PROVE  Ev(t, i, 0) \in Event /\ Ev(t, i, 0).t = t /\ Ev(t, i, 0).i = i
BY EventOf, TypesApart

LEMMA SaysQuiet ==
    ASSUME NEW x \in BOOLEAN, NEW y \in BOOLEAN, NEW K \in SUBSET Nat, NEW s \in Seq(Deltas),
           NEW t \in QuietTypes \ {"args_done"}, NEW u \in BOOLEAN, NEW v \in BOOLEAN,
           u => t = "part_added" \/ (x /\ t # "text_done"),
           v => t = "thinking_added" \/ (y /\ t # "part_added")
    PROVE  Carries(ChatSays(x, y, K, s), <<Plain(t)>>, ChatSays(u, v, K, s))
<1>1. PICK c, d, ev : c = ChatSays(x, y, K, s) /\ d = ChatSays(u, v, K, s) /\ ev = Plain(t)
  OBVIOUS
<1>2. c \in Told /\ d \in Told
  <2>1. c \in Told
    BY <1>1, SaysTypes, Zenon
  <2>2. d \in Told
    BY <1>1, SaysTypes, Zenon
  <2>3. QED
    BY <2>1, <2>2
<1>3. /\ c.text = x /\ c.thinking = y /\ c.ends = FALSE /\ d.text = u /\ d.thinking = v
      /\ d.from = c.from /\ d.ends = c.ends /\ d.failed = c.failed
      /\ d.called = c.called /\ d.calls = c.calls /\ d.deltas = c.deltas
  BY <1>1 DEF ChatSays
<1>4. ev \in Event /\ ev.t = t
  BY <1>1, QuietEvent DEF Plain
<1>5. Tells(c, ev, d)
  <2>1. /\ d.text => ev.t = "part_added" \/ (c.text /\ ev.t # "text_done")
        /\ d.thinking => ev.t = "thinking_added" \/ (c.thinking /\ ev.t # "part_added")
    BY <1>3, <1>4
  <2>2. ~c.ends
    BY <1>3
  <2>3. QED
    BY <1>2, <1>3, <1>4, <2>1, <2>2, TellsQuiet
<1>6. QED
  BY <1>1, <1>5, CarriesOne

LEMMA SaysNothing ==
    ASSUME NEW x \in BOOLEAN, NEW y \in BOOLEAN, NEW K \in SUBSET Nat, NEW s \in Seq(Deltas)
    PROVE  Carries(ChatSays(x, y, K, s), <<>>, ChatSays(x, y, K, s))
<1>1. ChatSays(x, y, K, s) \in Told
  BY SaysTypes, Zenon
<1>2. QED
  BY <1>1, CarriesNone

LEMMA SaysCreated ==
    ASSUME NEW x \in BOOLEAN, NEW y \in BOOLEAN, NEW K \in SUBSET Nat, NEW s \in Seq(Deltas), NEW b
    PROVE  Carries(ChatSays(x, y, K, s), If(b, <<Plain("created")>>), ChatSays(x, y, K, s))
<1>1. "created" \in QuietTypes \ {"args_done"} /\ "created" \notin {"text_done", "part_added"}
  BY DEF QuietTypes
<1>2. Carries(ChatSays(x, y, K, s), <<Plain("created")>>, ChatSays(x, y, K, s))
  BY <1>1, SaysQuiet
<1>3. Carries(ChatSays(x, y, K, s), <<>>, ChatSays(x, y, K, s))
  BY SaysNothing
<1>4. QED
  BY <1>2, <1>3, Zenon DEF If

LEMMA PairOfOnes ==
    ASSUME NEW A, NEW a \in A, NEW b \in A
    PROVE  <<a>> \o <<b>> = <<a, b>>
<1>1. PICK s, u, w : /\ s \in Seq(A) /\ u \in Seq(A) /\ w \in Seq(A)
                     /\ s = <<a>> /\ u = <<b>> /\ w = <<a, b>>
  <2>1. <<a>> \in Seq(A) /\ <<b>> \in Seq(A) /\ <<a, b>> \in Seq(A)
    OBVIOUS
  <2>2. QED
    BY <2>1, Zenon
<1>2. Len(s) = 1 /\ Len(u) = 1 /\ Len(w) = 2 /\ s[1] = a /\ u[1] = b /\ w[1] = a /\ w[2] = b
  BY <1>1
<1>3. PICK t \in Seq(A) : t = s \o u
  BY <1>1, ConcatProperties
<1>4. PICK n \in Nat, m \in Nat : n = Len(s) /\ m = Len(u)
  BY <1>2
<1>5. Len(t) = n + m /\ (\A i \in 1..n : t[i] = s[i]) /\ (\A i \in 1..m : t[n + i] = u[i])
  BY <1>1, <1>3, <1>4, ConcatAt
<1>6. Len(t) = 2 /\ t[1] = a /\ t[2] = b
  BY <1>2, <1>4, <1>5
<1>8. \A i \in 1..2 : t[i] = w[i]
  <2>1. \A i \in 1..2 : i = 1 \/ i = 2
    OBVIOUS
  <2>2. QED
    BY <1>2, <1>6, <2>1
<1>9. t = w
  BY <1>1, <1>2, <1>6, <1>8
<1>7. QED
  BY <1>1, <1>3, <1>9

LEMMA SaysThought ==
    ASSUME NEW x \in BOOLEAN, NEW y \in BOOLEAN, NEW K \in SUBSET Nat, NEW s \in Seq(Deltas)
    PROVE  Carries(ChatSays(x, y, K, s), If(y, Thought), ChatSays(x, FALSE, K, s))
<1>1. /\ "thinking_text_done" \in QuietTypes \ {"args_done"}
      /\ "thinking_part_done" \in QuietTypes \ {"args_done"}
      /\ "thinking_text_done" \notin {"text_done", "part_added"}
      /\ "thinking_part_done" \notin {"text_done", "part_added"}
  BY DEF QuietTypes
<1>2. /\ Carries(ChatSays(x, y, K, s), <<Plain("thinking_text_done")>>, ChatSays(x, FALSE, K, s))
      /\ Carries(ChatSays(x, FALSE, K, s), <<Plain("thinking_part_done")>>, ChatSays(x, FALSE, K, s))
  BY <1>1, SaysQuiet
<1>3. Carries(ChatSays(x, y, K, s), <<Plain("thinking_text_done")>> \o <<Plain("thinking_part_done")>>,
              ChatSays(x, FALSE, K, s))
  BY <1>2, CarriesBoth
<1>4. Plain("thinking_text_done") \in Event /\ Plain("thinking_part_done") \in Event
  BY <1>1, QuietEvent DEF Plain
<1>5. Thought = <<Plain("thinking_text_done")>> \o <<Plain("thinking_part_done")>>
  BY <1>4, PairOfOnes DEF Thought
<1>6. Carries(ChatSays(x, y, K, s), Thought, ChatSays(x, FALSE, K, s))
  BY <1>3, <1>5, Zenon
<1>7. Carries(ChatSays(x, y, K, s), <<>>, ChatSays(x, y, K, s))
  BY SaysNothing
<1>8. ~y => y = FALSE
  OBVIOUS
<1>9. QED
  BY <1>6, <1>7, <1>8, Zenon DEF If

LEMMA SaysTextDone ==
    ASSUME NEW x \in BOOLEAN, NEW y \in BOOLEAN, NEW K \in SUBSET Nat, NEW s \in Seq(Deltas)
    PROVE  Carries(ChatSays(x, y, K, s), If(x, <<Plain("text_done")>>), ChatSays(FALSE, y, K, s))
<1>1. "text_done" \in QuietTypes \ {"args_done"} /\ "text_done" # "part_added"
  BY DEF QuietTypes
<1>2. Carries(ChatSays(x, y, K, s), <<Plain("text_done")>>, ChatSays(FALSE, y, K, s))
  BY <1>1, SaysQuiet
<1>3. Carries(ChatSays(x, y, K, s), <<>>, ChatSays(x, y, K, s))
  BY SaysNothing
<1>4. ~x => x = FALSE
  OBVIOUS
<1>5. QED
  BY <1>2, <1>3, <1>4, Zenon DEF If

LEMMA SaysThinkingAdded ==
    ASSUME NEW x \in BOOLEAN, NEW y \in BOOLEAN, NEW K \in SUBSET Nat, NEW s \in Seq(Deltas)
    PROVE  Carries(ChatSays(x, y, K, s), If(~y, <<Plain("thinking_added")>>), ChatSays(x, TRUE, K, s))
<1>1. "thinking_added" \in QuietTypes \ {"args_done"} /\ "thinking_added" \notin {"text_done", "part_added"}
  BY DEF QuietTypes
<1>2. Carries(ChatSays(x, y, K, s), <<Plain("thinking_added")>>, ChatSays(x, TRUE, K, s))
  BY <1>1, SaysQuiet
<1>3. Carries(ChatSays(x, y, K, s), <<>>, ChatSays(x, y, K, s))
  BY SaysNothing
<1>4. y => y = TRUE
  OBVIOUS
<1>5. QED
  BY <1>2, <1>3, <1>4, Zenon DEF If

LEMMA SaysMessage ==
    ASSUME NEW K \in SUBSET Nat, NEW s \in Seq(Deltas)
    PROVE  Carries(ChatSays(FALSE, FALSE, K, s), <<Plain("item_added"), Plain("part_added")>>,
                   ChatSays(TRUE, FALSE, K, s))
<1>1. /\ "item_added" \in QuietTypes \ {"args_done"} /\ "part_added" \in QuietTypes \ {"args_done"}
      /\ "item_added" \notin {"text_done", "part_added"}
  BY DEF QuietTypes
<1>2. /\ Carries(ChatSays(FALSE, FALSE, K, s), <<Plain("item_added")>>, ChatSays(FALSE, FALSE, K, s))
      /\ Carries(ChatSays(FALSE, FALSE, K, s), <<Plain("part_added")>>, ChatSays(TRUE, FALSE, K, s))
  BY <1>1, SaysQuiet
<1>3. Carries(ChatSays(FALSE, FALSE, K, s), <<Plain("item_added")>> \o <<Plain("part_added")>>,
              ChatSays(TRUE, FALSE, K, s))
  BY <1>2, CarriesBoth
<1>4. Plain("item_added") \in Event /\ Plain("part_added") \in Event
  BY <1>1, QuietEvent DEF Plain
<1>5. <<Plain("item_added")>> \o <<Plain("part_added")>> = <<Plain("item_added"), Plain("part_added")>>
  BY <1>4, PairOfOnes
<1>6. QED
  BY <1>3, <1>5, Zenon

LEMMA SaysDelta ==
    ASSUME NEW x \in BOOLEAN, NEW y \in BOOLEAN, NEW K \in SUBSET Nat, NEW s \in Seq(Deltas),
           NEW t \in DeltaTypes, NEW i \in Nat, NEW n \in Nat,
           t = "text" => x, t = "thinking" => y, t = "args" => i > 0 /\ i - 1 \in K,
           NEW delta, delta = <<t, IF t = "args" THEN i - 1 ELSE 0, n>>
    PROVE  /\ Append(s, delta) \in Seq(Deltas)
           /\ Carries(ChatSays(x, y, K, s), <<Ev(t, i, n)>>, ChatSays(x, y, K, Append(s, delta)))
<1>1. PICK j \in Nat : j = IF t = "args" THEN i - 1 ELSE 0
  OBVIOUS
<1>2. delta \in Deltas
  BY <1>1 DEF Deltas
<1>3. PICK r \in Seq(Deltas) : r = Append(s, delta)
  BY <1>2, AppendProperties
<1>4. PICK c, d, ev : c = ChatSays(x, y, K, s) /\ d = ChatSays(x, y, K, r) /\ ev = Ev(t, i, n)
  OBVIOUS
<1>5. ChatSays(x, y, K, s) \in Told /\ ChatSays(x, y, K, r) \in Told
  BY SaysTypes, Zenon
<1>6. ev \in Event /\ ev.t = t /\ ev.i = i /\ ev.n = n
  BY <1>4, EventOf, TypesApart
<1>7. /\ c.from = "openai" /\ c.text = x /\ c.thinking = y /\ c.calls = {m + 1 : m \in K}
      /\ c.ends = FALSE /\ c.deltas = s
  BY <1>4 DEF ChatSays
<1>8. DeltaOf(c.from, ev) = delta
  BY <1>6, <1>7 DEF DeltaOf, Own
<1>9. d.deltas = Append(c.deltas, DeltaOf(c.from, ev))
  BY <1>3, <1>4, <1>7, <1>8 DEF ChatSays
<1>10. /\ d.from = c.from /\ d.text = c.text /\ d.thinking = c.thinking /\ d.calls = c.calls
       /\ d.called = c.called /\ d.failed = c.failed /\ d.ends = c.ends
  BY <1>4 DEF ChatSays
<1>11. ev.t = "args" => ev.i \in c.calls
  <2>1. SUFFICES ASSUME t = "args" PROVE i \in {m + 1 : m \in K}
    BY <1>6, <1>7
  <2>2. PICK m \in K : m = i - 1
    BY <2>1
  <2>3. m + 1 = i
    BY <2>2
  <2>4. QED
    BY <2>2, <2>3
<1>12. Tells(c, ev, d)
  <2>1. c \in Told /\ d \in Told
    BY <1>4, <1>5, Zenon
  <2>2. /\ ev.t \in DeltaTypes /\ (ev.t = "text" => c.text) /\ (ev.t = "thinking" => c.thinking) /\ ~c.ends
    BY <1>6, <1>7
  <2>3. QED
    BY <1>6, <1>9, <1>10, <1>11, <2>1, <2>2, TellsDelta
<1>13. QED
  BY <1>3, <1>4, <1>12, CarriesOne

LEMMA SaysCall ==
    ASSUME NEW K \in SUBSET Nat, NEW s \in Seq(Deltas), NEW i \in Nat, i \notin K
    PROVE  Carries(ChatSays(FALSE, FALSE, K, s), <<Ev("call_added", i + 1, i)>>,
                   ChatSays(FALSE, FALSE, K \cup {i}, s))
<1>1. PICK L \in SUBSET Nat : L = K \cup {i}
  OBVIOUS
<1>2. PICK c, d, ev : /\ c = ChatSays(FALSE, FALSE, K, s) /\ d = ChatSays(FALSE, FALSE, L, s)
                      /\ ev = Ev("call_added", i + 1, i)
  OBVIOUS
<1>3. ChatSays(FALSE, FALSE, K, s) \in Told /\ ChatSays(FALSE, FALSE, L, s) \in Told
  BY SaysTypes
<1>4. ev \in Event /\ ev.t = "call_added" /\ ev.i = i + 1 /\ ev.n = i
  <2>1. "call_added" \in CanonicalType \cup ClientTypes /\ i + 1 \in Nat
    BY DEF CanonicalType
  <2>2. QED
    BY <1>2, <2>1, EventOf
<1>5. /\ c.from = "openai" /\ c.calls = {m + 1 : m \in K} /\ c.ends = FALSE /\ c.failed = FALSE /\ c.deltas = s
      /\ d.from = "openai" /\ d.calls = {m + 1 : m \in L} /\ d.ends = FALSE /\ d.failed = FALSE /\ d.deltas = s
      /\ d.called = (L # {}) /\ d.text = FALSE /\ d.thinking = FALSE
  BY <1>2 DEF ChatSays
<1>6. ev.i \notin c.calls /\ d.calls = c.calls \cup {ev.i}
  <2>1. \A m \in K : m \in Nat /\ m # i
    OBVIOUS
  <2>2. \A m \in K : m + 1 # i + 1
    BY <2>1
  <2>3. {m + 1 : m \in L} = {m + 1 : m \in K} \cup {i + 1}
    BY <1>1
  <2>4. QED
    BY <1>4, <1>5, <2>2, <2>3
<1>7. ev.n = Own(c.from, ev.i)
  BY <1>4, <1>5 DEF Own
<1>8. d.called
  BY <1>1, <1>5
<1>9. Tells(c, ev, d)
  <2>1. c \in Told /\ d \in Told
    BY <1>2, <1>3, Zenon
  <2>2. /\ d.from = c.from /\ d.ends = c.ends /\ d.failed = c.failed /\ d.deltas = c.deltas
        /\ ~c.ends /\ ~d.text /\ ~d.thinking
    BY <1>5
  <2>3. QED
    BY <1>4, <1>6, <1>7, <1>8, <2>1, <2>2, TellsCall
<1>10. QED
  BY <1>1, <1>2, <1>9, CarriesOne

ChatDecoder == [reasoning : BOOLEAN, text : BOOLEAN, calls : SUBSET Nat,
                finish : {"none", "stop", "length", "tool_calls"}]

ChatPart == [d : ChatDecoder, evs : Seq(Event)]

\* What decoder d has told of deltas s.
ChatTold(d, s) == ChatSays(d.text, d.reasoning, d.calls, s)

\* p is a chunk that is being decoded, after c was told; s are its deltas and those before it.
ChatCarries(c, p, s) ==
    /\ p \in ChatPart /\ s \in Seq(Deltas)
    /\ Carries(c, p.evs, ChatTold(p.d, s))

LEMMA ChatGoesOn ==
    ASSUME NEW c, NEW p, NEW s, ChatCarries(c, p, s), NEW evs, NEW q, NEW r,
           q \in ChatPart, r \in Seq(Deltas), q.evs = p.evs \o evs,
           Carries(ChatTold(p.d, s), evs, ChatTold(q.d, r))
    PROVE  ChatCarries(c, q, r)
<1>1. Carries(c, p.evs, ChatTold(p.d, s))
  BY DEF ChatCarries
<1>2. Carries(c, p.evs \o evs, ChatTold(q.d, r))
  BY <1>1, CarriesBoth
<1>3. QED
  BY <1>2 DEF ChatCarries

LEMMA SentOnce ==
    ASSUME NEW s \in Seq(Deltas), NEW x \in Deltas, NEW b
    PROVE  s \o If(b, <<x>>) \in Seq(Deltas) /\ s \o If(b, <<x>>) = IF b THEN Append(s, x) ELSE s
<1>1. s \o <<x>> = Append(s, x) /\ Append(s, x) \in Seq(Deltas)
  OBVIOUS
<1>2. s \o <<>> = s
  OBVIOUS
<1>3. QED
  BY <1>1, <1>2 DEF If

LEMMA ChatCreatedStep ==
    ASSUME NEW c, NEW p, NEW s, ChatCarries(c, p, s), NEW ch, NEW q, q = ChatCreated(p, ch)
    PROVE  ChatCarries(c, q, s)
<1>1. p \in ChatPart /\ s \in Seq(Deltas)
  BY DEF ChatCarries
<1>2. PICK b : q = Emit(p, If(b, <<Plain("created")>>))
  BY DEF ChatCreated
<1>3. PICK evs : evs = If(b, <<Plain("created")>>)
  OBVIOUS
<1>4. /\ p.d \in ChatDecoder /\ p.d.text \in BOOLEAN /\ p.d.reasoning \in BOOLEAN
      /\ p.d.calls \in SUBSET Nat
  BY <1>1 DEF ChatPart, ChatDecoder
<1>5. Carries(ChatTold(p.d, s), evs, ChatTold(p.d, s))
  BY <1>1, <1>3, <1>4, SaysCreated, Zenon DEF ChatTold
<1>6. evs \in Seq(Event) /\ p.evs \in Seq(Event)
  BY <1>1, <1>5, CarriesTypes DEF ChatPart
<1>7. PICK w \in Seq(Event) : w = p.evs \o evs
  BY <1>6, ConcatProperties
<1>8. q = [p EXCEPT !.evs = w]
  BY <1>2, <1>3, <1>7 DEF Emit
<1>9. q \in ChatPart /\ q.d = p.d /\ q.evs = w
  BY <1>1, <1>8 DEF ChatPart
<1>10. QED
  BY <1>1, <1>5, <1>7, <1>9, ChatGoesOn

LEMMA ChatReasoningStep ==
    ASSUME NEW c, NEW p, NEW s, ChatCarries(c, p, s), NEW ch \in Chunk, NEW n \in Nat,
           NEW q, q = ChatReasoning(p, ch, n),
           NEW r, r = s \o If(ch.reasoning, <<<<"thinking", 0, n>>>>)
    PROVE  ChatCarries(c, q, r)
<1>1. p \in ChatPart /\ s \in Seq(Deltas)
  BY DEF ChatCarries
<1>2. PICK x : x = <<"thinking", 0, n>>
  OBVIOUS
<1>3. x \in Deltas
  BY <1>2 DEF Deltas, DeltaTypes
<1>4. r \in Seq(Deltas) /\ r = IF ch.reasoning THEN Append(s, x) ELSE s
  BY <1>1, <1>2, <1>3, SentOnce
<1>5. CASE ~ch.reasoning
  BY <1>4, <1>5 DEF ChatReasoning
<1>6. CASE ch.reasoning
  <2>1. PICK t, y, K : t = p.d.text /\ y = p.d.reasoning /\ K = p.d.calls
    OBVIOUS
  <2>2. t \in BOOLEAN /\ y \in BOOLEAN /\ K \in SUBSET Nat /\ p.evs \in Seq(Event) /\ p.d \in ChatDecoder
    BY <1>1, <2>1 DEF ChatPart, ChatDecoder
  <2>3. PICK us : us = If(~y, <<Plain("thinking_added")>>)
    OBVIOUS
  <2>4. PICK vs : vs = <<Ev("thinking", 0, n)>>
    OBVIOUS
  <2>5. PICK e : e = [p.d EXCEPT !.reasoning = TRUE]
    OBVIOUS
  <2>6. e \in ChatDecoder /\ e.text = t /\ e.reasoning = TRUE /\ e.calls = K
    BY <2>1, <2>2, <2>5 DEF ChatDecoder
  <2>7. q = [d |-> e, evs |-> p.evs \o us \o vs]
    BY <1>6, <2>1, <2>3, <2>4, <2>5, Zenon DEF ChatReasoning
  <2>8. Carries(ChatSays(t, y, K, s), us, ChatSays(t, TRUE, K, s))
    BY <1>1, <2>2, <2>3, SaysThinkingAdded, Zenon
  <2>9. Carries(ChatSays(t, TRUE, K, s), vs, ChatSays(t, TRUE, K, r))
    <3>1. "thinking" \in DeltaTypes /\ "thinking" # "text" /\ "thinking" # "args" /\ 0 \in Nat
      BY DEF DeltaTypes
    <3>2. x = <<"thinking", IF "thinking" = "args" THEN 0 - 1 ELSE 0, n>>
      BY <1>2
    <3>3. Carries(ChatSays(t, TRUE, K, s), <<Ev("thinking", 0, n)>>, ChatSays(t, TRUE, K, Append(s, x)))
      BY <1>1, <2>2, <3>1, <3>2, SaysDelta
    <3>4. QED
      BY <1>4, <1>6, <2>4, <3>3, Zenon
  <2>10. us \in Seq(Event) /\ vs \in Seq(Event)
    BY <2>8, <2>9, CarriesTypes
  <2>11. PICK w \in Seq(Event) : w = p.evs \o us
    BY <2>2, <2>10, ConcatProperties
  <2>12. PICK z \in Seq(Event) : z = w \o vs
    BY <2>10, <2>11, ConcatProperties
  <2>13. q = [d |-> e, evs |-> z]
    BY <2>7, <2>11, <2>12
  <2>14. q \in ChatPart /\ q.d = e /\ q.evs = z
    BY <2>6, <2>13 DEF ChatPart
  <2>15. ChatTold(p.d, s) = ChatSays(t, y, K, s) /\ ChatTold(q.d, r) = ChatSays(t, TRUE, K, r)
    BY <2>1, <2>6, <2>14, Zenon DEF ChatTold
  <2>16. Carries(c, p.evs, ChatSays(t, y, K, s))
    BY <2>15 DEF ChatCarries
  <2>17. Carries(c, w, ChatSays(t, TRUE, K, s))
    BY <2>8, <2>11, <2>16, CarriesBoth
  <2>18. Carries(c, z, ChatSays(t, TRUE, K, r))
    BY <2>9, <2>12, <2>17, CarriesBoth
  <2>19. QED
    BY <1>4, <2>14, <2>15, <2>18 DEF ChatCarries
<1>7. QED
  BY <1>5, <1>6

LEMMA ChatContentStep ==
    ASSUME NEW c, NEW p, NEW s, ChatCarries(c, p, s), NEW ch \in Chunk, NEW n \in Nat,
           NEW q, q = ChatContent(p, ch, n),
           NEW r, r = s \o If(ch.content, <<<<"text", 0, n>>>>)
    PROVE  ChatCarries(c, q, r)
<1>1. p \in ChatPart /\ s \in Seq(Deltas)
  BY DEF ChatCarries
<1>2. PICK x : x = <<"text", 0, n>>
  OBVIOUS
<1>3. x \in Deltas
  BY <1>2 DEF Deltas, DeltaTypes
<1>4. r \in Seq(Deltas) /\ r = IF ch.content THEN Append(s, x) ELSE s
  BY <1>1, <1>2, <1>3, SentOnce
<1>5. CASE ~ch.content
  BY <1>4, <1>5 DEF ChatContent
<1>6. CASE ch.content
  <2>1. PICK t, y, K : t = p.d.text /\ y = p.d.reasoning /\ K = p.d.calls
    OBVIOUS
  <2>2. t \in BOOLEAN /\ y \in BOOLEAN /\ K \in SUBSET Nat /\ p.evs \in Seq(Event) /\ p.d \in ChatDecoder
    BY <1>1, <2>1 DEF ChatPart, ChatDecoder
  <2>3. PICK us : us = If(~t, CloseReasoning(p.d) \o <<Plain("item_added"), Plain("part_added")>>)
    OBVIOUS
  <2>4. PICK vs : vs = <<Ev("text", 0, n)>>
    OBVIOUS
  <2>5. PICK y2 \in BOOLEAN : y2 = (y /\ t)
    OBVIOUS
  <2>6. PICK e : e = [p.d EXCEPT !.text = TRUE, !.reasoning = y2]
    OBVIOUS
  <2>7. e \in ChatDecoder /\ e.text = TRUE /\ e.reasoning = y2 /\ e.calls = K
    BY <2>1, <2>2, <2>6 DEF ChatDecoder
  <2>8. q = [d |-> e, evs |-> p.evs \o us \o vs]
    <3>1. [p.d EXCEPT !.text = TRUE, !.reasoning = @ /\ p.d.text] = e
      <4>1. [p.d EXCEPT !.text = TRUE].reasoning = y
        BY <2>1, <2>2 DEF ChatDecoder
      <4>2. QED
        BY <2>1, <2>5, <2>6, <4>1
    <3>2. q = [d |-> [p.d EXCEPT !.text = TRUE, !.reasoning = @ /\ p.d.text], evs |-> p.evs \o us \o vs]
      BY <1>6, <2>1, <2>3, <2>4, Zenon DEF ChatContent
    <3>3. QED
      BY <3>1, <3>2, Zenon
  <2>9. Carries(ChatSays(t, y, K, s), us, ChatSays(TRUE, y2, K, s))
    <3>1. CASE t
      <4>1. us = <<>> /\ t = TRUE /\ y2 = y
        BY <2>2, <2>3, <2>5, <3>1 DEF If
      <4>2. Carries(ChatSays(t, y, K, s), <<>>, ChatSays(t, y, K, s))
        BY <1>1, <2>2, SaysNothing, Zenon
      <4>3. QED
        BY <4>1, <4>2, Zenon
    <3>2. CASE ~t
      <4>1. t = FALSE /\ y2 = FALSE
        BY <2>2, <2>5, <3>2
      <4>2. us = If(y, Thought) \o <<Plain("item_added"), Plain("part_added")>>
        BY <2>1, <2>3, <3>2, Zenon DEF If, CloseReasoning
      <4>3. Carries(ChatSays(t, y, K, s), If(y, Thought), ChatSays(t, FALSE, K, s))
        BY <1>1, <2>2, SaysThought, Zenon
      <4>4. Carries(ChatSays(FALSE, FALSE, K, s), <<Plain("item_added"), Plain("part_added")>>,
                    ChatSays(TRUE, FALSE, K, s))
        BY <1>1, <2>2, SaysMessage, Zenon
      <4>5. Carries(ChatSays(t, y, K, s), If(y, Thought), ChatSays(FALSE, FALSE, K, s))
        BY <4>1, <4>3, Zenon
      <4>6. Carries(ChatSays(t, y, K, s), us, ChatSays(TRUE, FALSE, K, s))
        BY <4>2, <4>4, <4>5, CarriesBoth, Zenon
      <4>7. QED
        BY <4>1, <4>6, Zenon
    <3>3. QED
      BY <3>1, <3>2
  <2>10. Carries(ChatSays(TRUE, y2, K, s), vs, ChatSays(TRUE, y2, K, r))
    <3>1. "text" \in DeltaTypes /\ "text" # "thinking" /\ "text" # "args" /\ 0 \in Nat
      BY DEF DeltaTypes
    <3>2. x = <<"text", IF "text" = "args" THEN 0 - 1 ELSE 0, n>>
      BY <1>2
    <3>3. Carries(ChatSays(TRUE, y2, K, s), <<Ev("text", 0, n)>>, ChatSays(TRUE, y2, K, Append(s, x)))
      BY <1>1, <2>2, <3>1, <3>2, SaysDelta
    <3>4. QED
      BY <1>4, <1>6, <2>4, <3>3, Zenon
  <2>11. us \in Seq(Event) /\ vs \in Seq(Event)
    BY <2>9, <2>10, CarriesTypes
  <2>12. PICK w \in Seq(Event) : w = p.evs \o us
    BY <2>2, <2>11, ConcatProperties
  <2>13. PICK z \in Seq(Event) : z = w \o vs
    BY <2>11, <2>12, ConcatProperties
  <2>14. q = [d |-> e, evs |-> z]
    BY <2>8, <2>12, <2>13
  <2>15. q \in ChatPart /\ q.d = e /\ q.evs = z
    BY <2>7, <2>14 DEF ChatPart
  <2>16. ChatTold(p.d, s) = ChatSays(t, y, K, s) /\ ChatTold(q.d, r) = ChatSays(TRUE, y2, K, r)
    BY <2>1, <2>7, <2>15, Zenon DEF ChatTold
  <2>17. Carries(c, p.evs, ChatSays(t, y, K, s))
    BY <2>16 DEF ChatCarries
  <2>18. Carries(c, w, ChatSays(TRUE, y2, K, s))
    BY <2>9, <2>12, <2>17, CarriesBoth
  <2>19. Carries(c, z, ChatSays(TRUE, y2, K, r))
    BY <2>10, <2>13, <2>18, CarriesBoth
  <2>20. QED
    BY <1>4, <2>15, <2>16, <2>19 DEF ChatCarries
<1>7. QED
  BY <1>5, <1>6

LEMMA ChatNewCallStep ==
    ASSUME NEW c, NEW p, NEW s, ChatCarries(c, p, s), NEW i \in Nat, NEW q, q = ChatNewCall(p, i)
    PROVE  ChatCarries(c, q, s) /\ q.d.calls = p.d.calls \cup {i}
<1>1. p \in ChatPart /\ s \in Seq(Deltas)
  BY DEF ChatCarries
<1>2. CASE i \in p.d.calls
  <2>1. q = p
    BY <1>2 DEF ChatNewCall
  <2>2. QED
    BY <1>2, <2>1
<1>3. CASE i \notin p.d.calls
  <2>1. PICK t, y, K : t = p.d.text /\ y = p.d.reasoning /\ K = p.d.calls
    OBVIOUS
  <2>2. t \in BOOLEAN /\ y \in BOOLEAN /\ K \in SUBSET Nat /\ p.evs \in Seq(Event) /\ p.d \in ChatDecoder
    BY <1>1, <2>1 DEF ChatPart, ChatDecoder
  <2>3. PICK us, ts, vs : /\ us = If(y, Thought) /\ ts = If(t, <<Plain("text_done")>>)
                          /\ vs = <<Ev("call_added", i + 1, i)>>
    OBVIOUS
  <2>4. PICK L \in SUBSET Nat : L = K \cup {i}
    BY <2>2
  <2>5. PICK e : e = [p.d EXCEPT !.reasoning = FALSE, !.text = FALSE, !.calls = L]
    OBVIOUS
  <2>6. e \in ChatDecoder /\ e.text = FALSE /\ e.reasoning = FALSE /\ e.calls = L
    BY <2>1, <2>2, <2>5 DEF ChatDecoder
  <2>7. q = [d |-> e, evs |-> p.evs \o us \o ts \o vs]
    <3>1. [p.d EXCEPT !.reasoning = FALSE, !.text = FALSE, !.calls = @ \cup {i}] = e
      <4>1. [p.d EXCEPT !.reasoning = FALSE, !.text = FALSE].calls = K
        BY <2>1, <2>2 DEF ChatDecoder
      <4>2. QED
        BY <2>4, <2>5, <4>1
    <3>2. CloseReasoning(p.d) = us /\ CloseText(p.d) = ts
      BY <2>1, <2>3, Zenon DEF CloseReasoning, CloseText
    <3>3. q = [d |-> [p.d EXCEPT !.reasoning = FALSE, !.text = FALSE, !.calls = @ \cup {i}],
               evs |-> p.evs \o CloseReasoning(p.d) \o CloseText(p.d) \o <<Ev("call_added", i + 1, i)>>]
      BY <1>3, Zenon DEF ChatNewCall
    <3>4. QED
      BY <2>3, <3>1, <3>2, <3>3, Zenon
  <2>8. Carries(ChatSays(t, y, K, s), us, ChatSays(t, FALSE, K, s))
    BY <1>1, <2>2, <2>3, SaysThought, Zenon
  <2>9. Carries(ChatSays(t, FALSE, K, s), ts, ChatSays(FALSE, FALSE, K, s))
    <3>1. FALSE \in BOOLEAN
      OBVIOUS
    <3>2. QED
      BY <1>1, <2>2, <2>3, <3>1, SaysTextDone, Zenon
  <2>10. Carries(ChatSays(FALSE, FALSE, K, s), vs, ChatSays(FALSE, FALSE, L, s))
    BY <1>1, <1>3, <2>1, <2>2, <2>3, <2>4, SaysCall, Zenon
  <2>11. us \in Seq(Event) /\ ts \in Seq(Event) /\ vs \in Seq(Event)
    BY <2>8, <2>9, <2>10, CarriesTypes
  <2>12. PICK w \in Seq(Event) : w = p.evs \o us
    BY <2>2, <2>11, ConcatProperties
  <2>13. PICK v \in Seq(Event) : v = w \o ts
    BY <2>11, <2>12, ConcatProperties
  <2>14. PICK z \in Seq(Event) : z = v \o vs
    BY <2>11, <2>13, ConcatProperties
  <2>15. q = [d |-> e, evs |-> z]
    BY <2>7, <2>12, <2>13, <2>14
  <2>16. q \in ChatPart /\ q.d = e /\ q.evs = z
    BY <2>6, <2>15 DEF ChatPart
  <2>17. ChatTold(p.d, s) = ChatSays(t, y, K, s) /\ ChatTold(q.d, s) = ChatSays(FALSE, FALSE, L, s)
    BY <2>1, <2>6, <2>16, Zenon DEF ChatTold
  <2>18. Carries(c, p.evs, ChatSays(t, y, K, s))
    BY <2>17 DEF ChatCarries
  <2>19. Carries(c, w, ChatSays(t, FALSE, K, s))
    BY <2>8, <2>12, <2>18, CarriesBoth
  <2>20. Carries(c, v, ChatSays(FALSE, FALSE, K, s))
    BY <2>9, <2>13, <2>19, CarriesBoth
  <2>21. Carries(c, z, ChatSays(FALSE, FALSE, L, s))
    BY <2>10, <2>14, <2>20, CarriesBoth
  <2>22. ChatCarries(c, q, s)
    BY <1>1, <2>16, <2>17, <2>21 DEF ChatCarries
  <2>23. QED
    BY <2>1, <2>4, <2>6, <2>16, <2>22
<1>4. QED
  BY <1>2, <1>3

LEMMA NewCallAdds ==
    ASSUME NEW p \in ChatPart, NEW i \in Nat, NEW q, q = ChatNewCall(p, i)
    PROVE  q.d.calls = p.d.calls \cup {i}
<1>1. p.d \in ChatDecoder
  BY DEF ChatPart
<1>2. CASE i \in p.d.calls
  BY <1>2 DEF ChatNewCall
<1>3. CASE i \notin p.d.calls
  <2>1. q.d = [p.d EXCEPT !.reasoning = FALSE, !.text = FALSE, !.calls = @ \cup {i}]
    BY <1>3 DEF ChatNewCall
  <2>2. QED
    BY <1>1, <2>1 DEF ChatDecoder
<1>4. QED
  BY <1>2, <1>3

LEMMA ChatCallStep ==
    ASSUME NEW c, NEW p, NEW s, ChatCarries(c, p, s), NEW call \in [i : Nat, args : BOOLEAN],
           NEW n \in Nat, NEW q, q = ChatCall(p, call, n),
           NEW x, x = <<"args", call.i, n>>, NEW r, r = IF call.args THEN Append(s, x) ELSE s
    PROVE  ChatCarries(c, q, r)
<1>1. PICK i \in Nat : i = call.i
  OBVIOUS
<1>2. PICK b : b = ChatNewCall(p, i)
  OBVIOUS
<1>3. ChatCarries(c, b, s) /\ b.d.calls = p.d.calls \cup {i}
  <2>1. ChatCarries(c, b, s)
    BY <1>2, ChatNewCallStep
  <2>2. b.d.calls = p.d.calls \cup {i}
    BY <1>2, NewCallAdds DEF ChatCarries
  <2>3. QED
    BY <2>1, <2>2
<1>4. b \in ChatPart /\ s \in Seq(Deltas)
  BY <1>3 DEF ChatCarries
<1>5. PICK us : us = If(call.args, <<Ev("args", i + 1, n)>>)
  OBVIOUS
<1>6. x \in Deltas
  BY <1>1 DEF Deltas, DeltaTypes
<1>7. r \in Seq(Deltas)
  BY <1>4, <1>6, AppendProperties
<1>8. PICK t, y, K : t = b.d.text /\ y = b.d.reasoning /\ K = b.d.calls
  OBVIOUS
<1>9. t \in BOOLEAN /\ y \in BOOLEAN /\ K \in SUBSET Nat /\ b.evs \in Seq(Event)
  BY <1>4, <1>8 DEF ChatPart, ChatDecoder
<1>10. Carries(ChatSays(t, y, K, s), us, ChatSays(t, y, K, r))
  <2>1. CASE ~call.args
    <3>1. us = <<>> /\ r = s
      BY <1>5, <2>1 DEF If
    <3>2. Carries(ChatSays(t, y, K, s), <<>>, ChatSays(t, y, K, s))
      BY <1>4, <1>9, SaysNothing, Zenon
    <3>3. QED
      BY <3>1, <3>2, Zenon
  <2>2. CASE call.args
    <3>1. us = <<Ev("args", i + 1, n)>> /\ r = Append(s, x)
      BY <1>5, <2>2 DEF If
    <3>2. /\ "args" \in DeltaTypes /\ "args" # "thinking" /\ "args" # "text"
          /\ i + 1 \in Nat /\ i + 1 > 0 /\ (i + 1) - 1 = i /\ i \in K
      BY <1>3, <1>8 DEF DeltaTypes
    <3>3. x = <<"args", IF "args" = "args" THEN (i + 1) - 1 ELSE 0, n>>
      BY <1>1, <3>2
    <3>4. PICK j \in Nat : j = i + 1
      OBVIOUS
    <3>5. j > 0 /\ j - 1 \in K
      BY <3>2, <3>4
    <3>6. x = <<"args", IF "args" = "args" THEN j - 1 ELSE 0, n>>
      BY <3>3, <3>4
    <3>7. Carries(ChatSays(t, y, K, s), <<Ev("args", j, n)>>, ChatSays(t, y, K, Append(s, x)))
      BY <1>4, <1>9, <3>2, <3>5, <3>6, SaysDelta
    <3>8. QED
      BY <3>1, <3>4, <3>7, Zenon
  <2>3. QED
    BY <2>1, <2>2
<1>11. us \in Seq(Event)
  BY <1>10, CarriesTypes
<1>12. PICK w \in Seq(Event) : w = b.evs \o us
  BY <1>9, <1>11, ConcatProperties
<1>13. q = [b EXCEPT !.evs = w]
  BY <1>1, <1>2, <1>5, <1>12, Zenon DEF ChatCall, Emit
<1>14. q \in ChatPart /\ q.d = b.d /\ q.evs = w
  BY <1>4, <1>13 DEF ChatPart
<1>15. ChatTold(b.d, s) = ChatSays(t, y, K, s) /\ ChatTold(q.d, r) = ChatSays(t, y, K, r)
  BY <1>8, <1>14, Zenon DEF ChatTold
<1>16. Carries(ChatTold(b.d, s), us, ChatTold(q.d, r))
  BY <1>10, <1>15, Zenon
<1>17. ChatCarries(c, q, r)
  BY <1>3, <1>7, <1>12, <1>14, <1>16, ChatGoesOn
<1>18. QED
  BY <1>17

LEMMA CallAdds ==
    ASSUME NEW p \in ChatPart, NEW call \in [i : Nat, args : BOOLEAN], NEW n, NEW q, q = ChatCall(p, call, n)
    PROVE  q.d.calls = p.d.calls \cup {call.i}
<1>1. PICK i \in Nat : i = call.i
  OBVIOUS
<1>2. PICK b : b = ChatNewCall(p, i)
  OBVIOUS
<1>3. b.d.calls = p.d.calls \cup {i}
  BY <1>2, NewCallAdds
<1>4. PICK w : q = [b EXCEPT !.evs = w]
  BY <1>1, <1>2, Zenon DEF ChatCall, Emit
<1>5. b \in [d : {b.d}, evs : {b.evs}]
  <2>1. CASE i \in p.d.calls
    BY <1>2, <2>1 DEF ChatNewCall, ChatPart
  <2>2. CASE i \notin p.d.calls
    BY <1>2, <2>2 DEF ChatNewCall
  <2>3. QED
    BY <2>1, <2>2
<1>6. q.d = b.d
  BY <1>4, <1>5
<1>7. QED
  BY <1>1, <1>3, <1>6

\* The loop over the calls of a chunk.
CallsRun(f, p, calls, m) ==
    /\ f[0] = p
    /\ \A i \in 1..Len(calls) : f[i] = ChatCall(f[i - 1], calls[i], m)
    /\ ChatCalls(p, calls, m) = f[Len(calls)]

LEMMA ChatCallsLoop ==
    ASSUME NEW A, NEW calls \in Seq(A), NEW p, NEW m
    PROVE  \E f : CallsRun(f, p, calls, m)
<1>1. PICK n \in Nat : n = Len(calls)
  OBVIOUS
<1> DEFINE Step(v, i) == ChatCall(v, calls[i], m)
           Runs(f, k) == f = [i \in 0..k |-> IF i = 0 THEN p ELSE Step(f[i - 1], i)]
           f == CHOOSE f : Runs(f, n)
           S == {k \in Nat : k <= n => \E g : Runs(g, k)}
<1>2. ChatCalls(p, calls, m) = f[n]
  BY <1>1, Zenon DEF ChatCalls
<1> HIDE DEF Step
<1>3. 0 \in S
  <2>1. Runs([i \in 0..0 |-> p], 0)
    OBVIOUS
  <2>2. QED
    BY <2>1
<1>4. ASSUME NEW k \in S PROVE k + 1 \in S
  <2>1. SUFFICES ASSUME k + 1 <= n PROVE \E g : Runs(g, k + 1)
    <3> k + 1 \in Nat
      OBVIOUS
    <3> HIDE DEF Runs
    <3> QED
      OBVIOUS
  <2>2. PICK g : Runs(g, k)
    <3> k \in Nat /\ k <= n
      BY <2>1
    <3> HIDE DEF Runs
    <3> QED
      OBVIOUS
  <2> DEFINE h == [i \in 0..(k + 1) |-> IF i = k + 1 THEN Step(g[k], k + 1) ELSE g[i]]
  <2>3. g[0] = p /\ \A i \in 1..k : g[i] = Step(g[i - 1], i)
    BY <2>2
  <2>4. h[0] = p /\ h[k + 1] = Step(g[k], k + 1) /\ \A i \in 0..k : h[i] = g[i]
    <3>1. k \in Nat
      BY <1>4
    <3>2. /\ \A i \in 0..k : i \in 0..(k + 1) /\ i # k + 1
          /\ 0 \in 0..k /\ k + 1 \in 0..(k + 1)
      BY <3>1
    <3>3. QED
      BY <2>3, <3>2
  <2>5. \A i \in 1..(k + 1) : h[i] = Step(h[i - 1], i)
    <3>1. ASSUME NEW i \in 1..(k + 1) PROVE h[i] = Step(h[i - 1], i)
      <4>1. i - 1 \in 0..k /\ h[i - 1] = g[i - 1] /\ (i = k + 1 \/ i \in 1..k)
        BY <2>4
      <4>2. CASE i = k + 1
        <5>1. i - 1 = k
          BY <4>2
        <5>2. QED
          BY <2>4, <4>1, <4>2, <5>1
      <4>3. CASE i \in 1..k
        <5>1. h[i] = g[i]
          BY <2>4, <4>3
        <5>2. QED
          BY <2>3, <4>1, <4>3, <5>1, Zenon
      <4>4. QED
        BY <4>1, <4>2, <4>3
    <3>2. QED
      BY <3>1
  <2>6. h = [i \in DOMAIN h |-> h[i]] /\ DOMAIN h = 0..(k + 1)
    OBVIOUS
  <2> HIDE DEF h
  <2>7. \A i \in 0..(k + 1) : i = 0 \/ i \in 1..(k + 1)
    OBVIOUS
  <2>8. Runs(h, k + 1)
    BY <2>4, <2>5, <2>6, <2>7
  <2>9. QED
    BY <2>8
<1>5. S = Nat
  <2> HIDE DEF S
  <2>1. S \in SUBSET Nat
    BY DEF S
  <2>2. QED
    BY <1>3, <1>4, <2>1, SetInduction
<1>6. \E g : Runs(g, n)
  <2>1. n \in S
    BY <1>5
  <2>2. n <= n
    OBVIOUS
  <2> HIDE DEF Runs
  <2>3. QED
    BY <2>1, <2>2
<1>7. Runs(f, n)
  <2> HIDE DEF Runs
  <2> QED
    BY <1>6, Zenon
<1> HIDE DEF f
<1>8. f[0] = p /\ \A i \in 1..n : f[i] = Step(f[i - 1], i)
  BY <1>7
<1>9. QED
  BY <1>1, <1>2, <1>8, Zenon DEF Step, CallsRun

\* The deltas of a chunk's calls, as StreamConversion's ChatLine has them sent.
CallDeltas(calls, n) ==
    Keep([k \in DOMAIN calls |-> <<IF calls[k].args THEN "args" ELSE "none", calls[k].i, n>>],
         {"args"} \X Nat \X Nat)

CallsTold(c, p, s, calls, n) ==
    /\ CallDeltas(calls, n) \in Seq(Deltas)
    /\ ChatCarries(c, ChatCalls(p, calls, n), s \o CallDeltas(calls, n))
    /\ ChatCalls(p, calls, n).d.calls = p.d.calls \cup {calls[k].i : k \in DOMAIN calls}

LEMMA ChatCallsStep ==
    ASSUME NEW c, NEW p, NEW s, ChatCarries(c, p, s), NEW calls \in Seq([i : Nat, args : BOOLEAN]),
           NEW n \in Nat
    PROVE  CallsTold(c, p, s, calls, n)
<1>0. PICK q, deltas, kept :
         /\ q = ChatCalls(p, calls, n)
         /\ deltas = [k \in DOMAIN calls |-> <<IF calls[k].args THEN "args" ELSE "none", calls[k].i, n>>]
         /\ kept = Keep(deltas, {"args"} \X Nat \X Nat)
  OBVIOUS
<1>1. PICK m \in Nat : m = Len(calls)
  OBVIOUS
<1>2. PICK A, W : A = {"args", "none"} \X Nat \X Nat /\ W = {"args"} \X Nat \X Nat
  OBVIOUS
<1>3. DOMAIN calls = 1..m /\ \A k \in 1..m : calls[k] \in [i : Nat, args : BOOLEAN]
  <2>1. PICK C : C = [i : Nat, args : BOOLEAN]
    OBVIOUS
  <2>2. calls \in Seq(C)
    BY <2>1
  <2>3. DOMAIN calls = 1..m /\ \A k \in 1..m : calls[k] \in C
    BY <1>1, <2>2
  <2>4. QED
    BY <2>1, <2>3
<1>4. \A k \in 1..m : calls[k].i \in Nat /\ calls[k].args \in BOOLEAN
  BY <1>3
<1>5. deltas \in Seq(A) /\ Len(deltas) = m
  <2>1. \A k \in 1..m : <<IF calls[k].args THEN "args" ELSE "none", calls[k].i, n>> \in A
    BY <1>2, <1>4
  <2>2. deltas \in [1..m -> A]
    BY <1>0, <1>3, <2>1
  <2>3. QED
    BY <2>2, FunctionIsSeq
<1>6. PICK g : KeepRun(g, A, deltas, W)
  BY <1>5, KeepLoop
<1>7. /\ g[0] = <<>> /\ kept = g[m]
      /\ \A k \in 1..m : g[k] = IF deltas[k] \in W THEN Append(g[k - 1], deltas[k]) ELSE g[k - 1]
  BY <1>0, <1>2, <1>5, <1>6 DEF KeepRun
<1>8. PICK f : CallsRun(f, p, calls, n)
  BY ChatCallsLoop
<1>9. f[0] = p /\ q = f[m] /\ \A k \in 1..m : f[k] = ChatCall(f[k - 1], calls[k], n)
  BY <1>0, <1>1, <1>8 DEF CallsRun
<1>10. s \in Seq(Deltas)
  BY DEF ChatCarries
<1> DEFINE Of(k) == {calls[j].i : j \in 1..k}
           T == {k \in 0..m : /\ g[k] \in Seq(Deltas) /\ ChatCarries(c, f[k], s \o g[k])
                              /\ f[k].d.calls = p.d.calls \cup Of(k)}
<1>11. 0 \in T
  <2>1. g[0] \in Seq(Deltas)
    BY <1>7, EmptySeq
  <2>2. s \o g[0] = s
    BY <1>7, <1>10, ConcatEmptySeq
  <2>3. ChatCarries(c, f[0], s \o g[0])
    BY <1>9, <2>2
  <2>4. Of(0) = {}
    OBVIOUS
  <2>5. QED
    BY <1>9, <2>1, <2>3, <2>4
<1>12. ASSUME NEW k \in 1..m, k - 1 \in T PROVE k \in T
  <2>1. PICK a, call, b, v, w, x : /\ a = f[k - 1] /\ call = calls[k] /\ b = f[k]
                                   /\ v = g[k - 1] /\ w = g[k] /\ x = <<"args", call.i, n>>
    OBVIOUS
  <2>2. call \in [i : Nat, args : BOOLEAN] /\ call.i \in Nat /\ b = ChatCall(a, call, n)
    BY <1>3, <1>4, <1>9, <2>1
  <2>3. v \in Seq(Deltas) /\ ChatCarries(c, a, s \o v) /\ a.d.calls = p.d.calls \cup Of(k - 1)
    <3> HIDE DEF Of
    <3> QED
      BY <1>12, <2>1
  <2>4. x \in Deltas
    BY <2>1, <2>2 DEF Deltas, DeltaTypes
  <2>5. w = IF call.args THEN Append(v, x) ELSE v
    <3>1. w = IF deltas[k] \in W THEN Append(v, deltas[k]) ELSE v
      BY <1>7, <2>1
    <3>2. deltas[k] = <<IF call.args THEN "args" ELSE "none", call.i, n>>
      BY <1>0, <1>3, <2>1
    <3>3. CASE call.args
      <4>1. deltas[k] = x /\ x \in W
        BY <1>2, <2>1, <2>2, <3>2, <3>3
      <4>2. w = Append(v, x)
        BY <3>1, <4>1, Zenon
      <4>3. QED
        BY <3>3, <4>2, Zenon
    <3>4. CASE ~call.args
      <4>1. deltas[k] \notin W
        BY <1>2, <3>2, <3>4
      <4>2. QED
        BY <3>1, <3>4, <4>1
    <3>5. QED
      BY <3>3, <3>4
  <2>6. w \in Seq(Deltas) /\ s \o w = IF call.args THEN Append(s \o v, x) ELSE s \o v
    <3>1. Append(v, x) \in Seq(Deltas)
      BY <2>3, <2>4, AppendProperties
    <3>2. s \o Append(v, x) = Append(s \o v, x)
      <4>1. PICK o \in Seq(Deltas) : o = <<x>>
        <5>1. <<x>> \in Seq(Deltas)
          BY <2>4
        <5>2. QED
          BY <5>1, Zenon
      <4>2. Append(v, x) = v \o o
        BY <2>3, <2>4, <4>1, AppendIsConcat
      <4>3. s \o v \in Seq(Deltas)
        BY <1>10, <2>3, ConcatProperties
      <4>4. Append(s \o v, x) = (s \o v) \o o
        BY <2>4, <4>1, <4>3, AppendIsConcat
      <4>5. (s \o v) \o o = s \o (v \o o)
        BY <1>10, <2>3, <4>1, ConcatAssociative
      <4>6. QED
        BY <4>2, <4>4, <4>5, Zenon
    <3>3. QED
      BY <2>3, <2>5, <3>1, <3>2
  <2>7. PICK sv, sw : sv = s \o v /\ sw = s \o w
    OBVIOUS
  <2>8. ChatCarries(c, a, sv) /\ sw = IF call.args THEN Append(sv, x) ELSE sv
    BY <2>3, <2>6, <2>7
  <2>9. ChatCarries(c, b, sw) /\ b.d.calls = a.d.calls \cup {call.i}
    <3>1. ChatCarries(c, b, sw)
      BY <2>1, <2>2, <2>8, ChatCallStep, Zenon
    <3>2. a \in ChatPart
      BY <2>8 DEF ChatCarries
    <3>3. b.d.calls = a.d.calls \cup {call.i}
      BY <2>2, <3>2, CallAdds
    <3>4. QED
      BY <3>1, <3>3
  <2>10. Of(k) = Of(k - 1) \cup {call.i}
    <3>1. \A j : j \in 1..k <=> j \in 1..(k - 1) \/ j = k
      OBVIOUS
    <3>2. QED
      BY <2>1, <3>1
  <2>11. b.d.calls = p.d.calls \cup Of(k)
    <3> HIDE DEF Of
    <3> QED
      BY <2>3, <2>9, <2>10
  <2>12. k \in 0..m /\ g[k] \in Seq(Deltas) /\ ChatCarries(c, f[k], s \o g[k])
    BY <2>1, <2>6, <2>7, <2>9
  <2>13. f[k].d.calls = p.d.calls \cup Of(k)
    BY <2>1, <2>11, Zenon
  <2>14. QED
    <3> HIDE DEF Of
    <3> QED
      BY <2>12, <2>13
<1>13. \A k \in 0..m : k \in T
  <2> HIDE DEF T
  <2> QED
    BY <1>11, <1>12, LoopInduction
<1>14. m \in 0..m
  OBVIOUS
<1>15. kept \in Seq(Deltas) /\ ChatCarries(c, q, s \o kept) /\ q.d.calls = p.d.calls \cup Of(m)
  <2> HIDE DEF Of
  <2> QED
    BY <1>7, <1>9, <1>13, <1>14
<1>16. Of(m) = {calls[k].i : k \in DOMAIN calls}
  BY <1>3
<1>17. CallDeltas(calls, n) = kept
  BY <1>0, Zenon DEF CallDeltas
<1>18. QED
  BY <1>0, <1>15, <1>16, <1>17, Zenon DEF CallsTold

LEMMA StartAddsNone ==
    ASSUME NEW p \in ChatPart, NEW ch, NEW n
    PROVE  /\ ChatCreated(p, ch).d.calls = p.d.calls
           /\ ChatReasoning(p, ch, n).d.calls = p.d.calls
           /\ ChatContent(p, ch, n).d.calls = p.d.calls
<1>1. p.d \in ChatDecoder
  BY DEF ChatPart
<1>2. ChatCreated(p, ch).d.calls = p.d.calls
  <2>1. PICK w : ChatCreated(p, ch) = [p EXCEPT !.evs = w]
    BY Zenon DEF ChatCreated, Emit
  <2>2. QED
    BY <2>1 DEF ChatPart
<1>3. ChatReasoning(p, ch, n).d.calls = p.d.calls
  <2>1. CASE ~ch.reasoning
    BY <2>1 DEF ChatReasoning
  <2>2. CASE ch.reasoning
    <3>1. PICK w : ChatReasoning(p, ch, n) = [d |-> [p.d EXCEPT !.reasoning = TRUE], evs |-> w]
      BY <2>2, Zenon DEF ChatReasoning
    <3>2. QED
      BY <1>1, <3>1 DEF ChatDecoder
  <2>3. QED
    BY <2>1, <2>2
<1>4. ChatContent(p, ch, n).d.calls = p.d.calls
  <2>1. CASE ~ch.content
    BY <2>1 DEF ChatContent
  <2>2. CASE ch.content
    <3>1. PICK w : ChatContent(p, ch, n) =
                      [d |-> [p.d EXCEPT !.text = TRUE, !.reasoning = @ /\ p.d.text], evs |-> w]
      BY <2>2, Zenon DEF ChatContent
    <3>2. PICK b : b = (p.d.reasoning /\ p.d.text)
      OBVIOUS
    <3>3. [p.d EXCEPT !.text = TRUE].reasoning = p.d.reasoning
      BY <1>1 DEF ChatDecoder
    <3>4. PICK e : e = [p.d EXCEPT !.text = TRUE, !.reasoning = b]
      OBVIOUS
    <3>5. e.calls = p.d.calls
      BY <1>1, <3>4 DEF ChatDecoder
    <3>6. [p.d EXCEPT !.text = TRUE, !.reasoning = @ /\ p.d.text] = e
      BY <3>2, <3>3, <3>4
    <3>7. ChatContent(p, ch, n) = [d |-> e, evs |-> w]
      BY <3>1, <3>6, Zenon
    <3>8. QED
      BY <3>5, <3>7
  <2>3. QED
    BY <2>1, <2>2
<1>5. QED
  BY <1>2, <1>3, <1>4

LEMMA DeltasAssociate ==
    \A x, y, z \in Seq(Deltas) : (x \o y) \o z = x \o (y \o z)
BY ConcatAssociative

\* The deltas of a chunk, and what its decoder makes of them.
ChatSent(ch, n) == If(ch.reasoning, <<<<"thinking", 0, n>>>>) \o If(ch.content, <<<<"text", 0, n>>>>)
                   \o CallDeltas(ch.calls, n)
ChatLineTold(d, s, q, r, ch) ==
    /\ q.d \in ChatDecoder /\ r \in Seq(Deltas)
    /\ Carries(ChatTold(d, s), q.evs, ChatTold(q.d, r))
    /\ q.d.calls = d.calls \cup {ch.calls[k].i : k \in DOMAIN ch.calls}

\* What a Chat backend's line sends is what its decoder tells of it.
LEMMA ChatDecodes ==
    ASSUME NEW d \in ChatDecoder, NEW s \in Seq(Deltas), NEW ch \in Chunk, NEW n \in Nat,
           NEW q, q = DecodeChat(d, ch, n),
           NEW r, r = s \o ChatSent(ch, n)
    PROVE  ChatLineTold(d, s, q, r, ch)
<1>1. PICK c : c = ChatTold(d, s)
  OBVIOUS
<1>2. PICK p0 : p0 = [d |-> d, evs |-> <<>>]
  OBVIOUS
<1>3. p0 \in ChatPart /\ p0.d = d /\ p0.evs = <<>>
  <2>1. <<>> \in Seq(Event)
    BY EmptySeq
  <2>2. QED
    BY <1>2, <2>1 DEF ChatPart
<1>4. ChatCarries(c, p0, s)
  <2>1. d.text \in BOOLEAN /\ d.reasoning \in BOOLEAN /\ d.calls \in SUBSET Nat
    BY DEF ChatDecoder
  <2>2. Carries(c, <<>>, c)
    BY <1>1, <2>1, SaysNothing, Zenon DEF ChatTold
  <2>3. QED
    BY <1>1, <1>3, <2>2 DEF ChatCarries
<1>5. PICK p1 : p1 = ChatCreated(p0, ch)
  OBVIOUS
<1>6. ChatCarries(c, p1, s)
  BY <1>4, <1>5, ChatCreatedStep
<1>7. PICK p2, s2, u2 : /\ p2 = ChatReasoning(p1, ch, n) /\ u2 = If(ch.reasoning, <<<<"thinking", 0, n>>>>)
                        /\ s2 = s \o u2
  OBVIOUS
<1>8. ChatCarries(c, p2, s2)
  BY <1>6, <1>7, ChatReasoningStep
<1>9. PICK p3, s3, u3 : /\ p3 = ChatContent(p2, ch, n) /\ u3 = If(ch.content, <<<<"text", 0, n>>>>)
                        /\ s3 = s2 \o u3
  OBVIOUS
<1>10. ChatCarries(c, p3, s3)
  BY <1>8, <1>9, ChatContentStep
<1>11. PICK calls, p4, u4 : /\ calls = ch.calls /\ p4 = ChatCalls(p3, calls, n)
                            /\ u4 = CallDeltas(calls, n)
  OBVIOUS
<1>12. calls \in Seq([i : Nat, args : BOOLEAN])
  BY <1>11 DEF Chunk
<1>13. CallsTold(c, p3, s3, calls, n)
  BY <1>10, <1>12, ChatCallsStep
<1>14. /\ u4 \in Seq(Deltas) /\ ChatCarries(c, p4, s3 \o u4)
       /\ p4.d.calls = p3.d.calls \cup {calls[k].i : k \in DOMAIN calls}
  BY <1>11, <1>13, Zenon DEF CallsTold
<1>15. p3.d.calls = d.calls
  <2>1. p1 \in ChatPart /\ p2 \in ChatPart
    BY <1>6, <1>8 DEF ChatCarries
  <2>2. p1.d.calls = d.calls
    BY <1>3, <1>5, StartAddsNone
  <2>3. p2.d.calls = p1.d.calls
    BY <1>7, <2>1, StartAddsNone
  <2>4. p3.d.calls = p2.d.calls
    BY <1>9, <2>1, StartAddsNone
  <2>5. QED
    BY <2>2, <2>3, <2>4
<1>16. r \in Seq(Deltas) /\ r = s3 \o u4
  <2>1. u2 \in Seq(Deltas) /\ u3 \in Seq(Deltas)
    <3>1. <<"thinking", 0, n>> \in Deltas /\ <<"text", 0, n>> \in Deltas
      BY DEF Deltas, DeltaTypes
    <3>2. <<>> \in Seq(Deltas) /\ \A e \in Deltas : <<e>> \in Seq(Deltas)
      <4>1. \A e \in Deltas : <<e>> \in Seq(Deltas)
        OBVIOUS
      <4>2. QED
        BY <4>1, EmptySeq
    <3>3. u2 = <<>> \/ u2 = <<<<"thinking", 0, n>>>>
      BY <1>7, Zenon DEF If
    <3>4. u3 = <<>> \/ u3 = <<<<"text", 0, n>>>>
      BY <1>9, Zenon DEF If
    <3>5. QED
      BY <3>1, <3>2, <3>3, <3>4, Zenon
  <2>2. r = s \o ((u2 \o u3) \o u4)
    BY <1>7, <1>9, <1>11, Zenon DEF ChatSent
  <2>3. PICK u5 \in Seq(Deltas) : u5 = u2 \o u3
    BY <2>1, ConcatProperties
  <2>4. u4 \in Seq(Deltas) /\ s3 \in Seq(Deltas)
    BY <1>10, <1>14 DEF ChatCarries
  <2>5. (s \o u5) \o u4 = s \o (u5 \o u4)
    BY <2>3, <2>4, DeltasAssociate, ZenonT(60)
  <2>6. (s \o u2) \o u3 = s \o (u2 \o u3)
    BY <2>1, DeltasAssociate
  <2>7. r = s3 \o u4
    BY <1>7, <1>9, <2>2, <2>3, <2>5, <2>6, Zenon
  <2>8. s3 \o u4 \in Seq(Deltas)
    BY <2>4, ConcatProperties
  <2>9. QED
    BY <2>7, <2>8, Zenon
<1>17. ChatCarries(c, p4, r)
  BY <1>14, <1>16, Zenon
<1>18. p4 \in ChatPart /\ Carries(c, p4.evs, ChatTold(p4.d, r))
  BY <1>17 DEF ChatCarries
<1>19. q = IF ch.finish = "none" THEN p4 ELSE [p4 EXCEPT !.d.finish = ch.finish]
  BY <1>2, <1>5, <1>7, <1>9, <1>11, Zenon DEF DecodeChat
<1>20. q.d \in ChatDecoder /\ q.evs = p4.evs /\ q.d.calls = p4.d.calls /\ ChatTold(q.d, r) = ChatTold(p4.d, r)
  <2>1. CASE ch.finish = "none"
    BY <1>18, <1>19, <2>1 DEF ChatPart
  <2>2. CASE ch.finish # "none"
    <3>1. PICK e : e = [p4.d EXCEPT !.finish = ch.finish]
      OBVIOUS
    <3>2. ch.finish \in {"none", "stop", "length", "tool_calls"} /\ p4.d \in ChatDecoder
      BY <1>18 DEF Chunk, ChatPart
    <3>3. /\ e \in ChatDecoder /\ e.calls = p4.d.calls /\ e.text = p4.d.text
          /\ e.reasoning = p4.d.reasoning
      BY <3>1, <3>2 DEF ChatDecoder
    <3>4. q = [p4 EXCEPT !.d = e]
      BY <1>18, <1>19, <2>2, <3>1 DEF ChatPart
    <3>5. q.d = e /\ q.evs = p4.evs
      BY <1>18, <3>4 DEF ChatPart
    <3>6. ChatTold(e, r) = ChatTold(p4.d, r)
      BY <3>3, Zenon DEF ChatTold
    <3>7. QED
      BY <3>3, <3>5, <3>6, Zenon
  <2>3. QED
    BY <2>1, <2>2
<1>21. q.d.calls = d.calls \cup {ch.calls[k].i : k \in DOMAIN ch.calls}
  BY <1>11, <1>14, <1>15, <1>20
<1>22. QED
  BY <1>1, <1>16, <1>18, <1>20, <1>21, Zenon DEF ChatLineTold

\* The events with which a decoder closes what is open.
QuietEvents == {ev \in Event : ev.t \in QuietTypes}

LEMMA QuietPlain == \A t \in QuietTypes, i \in Nat : Ev(t, i, 0) \in QuietEvents
<1>1. SUFFICES ASSUME NEW t \in QuietTypes, NEW i \in Nat PROVE Ev(t, i, 0) \in QuietEvents
  OBVIOUS
<1>2. Ev(t, i, 0) \in Event /\ Ev(t, i, 0).t = t
  BY QuietEvent
<1>3. QED
  BY <1>2 DEF QuietEvents

LEMMA QuietIf ==
    ASSUME NEW s \in Seq(QuietEvents), NEW b
    PROVE  If(b, s) \in Seq(QuietEvents)
<1>1. <<>> \in Seq(QuietEvents)
  BY EmptySeq
<1>2. QED
  BY <1>1, Zenon DEF If

LEMMA QuietThought == Thought \in Seq(QuietEvents)
<1>1. "thinking_text_done" \in QuietTypes /\ "thinking_part_done" \in QuietTypes
  BY DEF QuietTypes
<1>2. PICK a \in QuietEvents, b \in QuietEvents :
         a = Plain("thinking_text_done") /\ b = Plain("thinking_part_done")
  BY <1>1, QuietPlain DEF Plain
<1>3. <<a, b>> \in Seq(QuietEvents)
  OBVIOUS
<1>4. QED
  BY <1>2, <1>3, Zenon DEF Thought

LEMMA QuietOne ==
    ASSUME NEW t \in QuietTypes, NEW i \in Nat
    PROVE  <<Ev(t, i, 0)>> \in Seq(QuietEvents)
<1>1. PICK a \in QuietEvents : a = Ev(t, i, 0)
  BY QuietPlain
<1>2. <<a>> \in Seq(QuietEvents)
  OBVIOUS
<1>3. QED
  BY <1>1, <1>2, Zenon

\* A flush, as CarriesFlush has it.
LEMMA QuietFlush ==
    ASSUME NEW c \in Told, ~c.ends, ~c.failed, NEW evs \in Seq(QuietEvents),
           NEW t \in {"completed", "incomplete"}
    PROVE  \E d : Carries(c, evs \o <<Plain(t)>>, d) /\ SameStory(c, d) /\ d.ends
<1>1. evs \in Seq(Event) /\ \A k \in 1..Len(evs) : evs[k].t \in QuietTypes
  BY DEF QuietEvents
<1>2. t \in CanonicalType
  BY DEF CanonicalType
<1>3. PICK ev \in Event : ev = Plain(t) /\ ev.t = t
  BY <1>2, EventOf DEF Plain
<1>4. \E d : Carries(c, evs \o <<ev>>, d) /\ SameStory(c, d) /\ d.ends
  BY <1>1, <1>3, CarriesFlush
<1>5. QED
  BY <1>3, <1>4

LEMMA ChatFlushes ==
    ASSUME NEW d \in ChatDecoder, IsFiniteSet(d.calls), NEW s \in Seq(Deltas),
           NEW order \in SetToSeqs(d.calls), NEW c, c = ChatTold(d, s)
    PROVE  \E e : Carries(c, FlushChat(d, order), e) /\ SameStory(c, e) /\ e.ends
<1>1. PICK S \in SUBSET Nat : S = d.calls
  BY DEF ChatDecoder
<1>2. PICK n \in Nat : n = Cardinality(S)
  BY <1>1, FS_CardinalityType
<1>3. order \in [1..n -> S]
  BY <1>1, <1>2 DEF SetToSeqs
<1>4. PICK done : done = [k \in DOMAIN order |-> Ev("args_done", order[k] + 1, 0)]
  OBVIOUS
<1>5. done \in Seq(QuietEvents)
  <2>1. "args_done" \in QuietTypes
    BY DEF QuietTypes
  <2>2. \A k \in 1..n : order[k] + 1 \in Nat
    <3>1. \A k \in 1..n : order[k] \in S
      BY <1>3
    <3>2. \A i \in S : i + 1 \in Nat
      OBVIOUS
    <3>3. QED
      BY <3>1, <3>2
  <2>3. \A k \in 1..n : Ev("args_done", order[k] + 1, 0) \in QuietEvents
    BY <2>1, <2>2, QuietPlain
  <2>4. done \in [1..n -> QuietEvents]
    BY <1>3, <1>4, <2>3
  <2>5. QED
    BY <2>4, FunctionIsSeq
<1>6. CloseReasoning(d) \in Seq(QuietEvents)
  BY QuietThought, QuietIf DEF CloseReasoning
<1>7. CloseText(d) \in Seq(QuietEvents)
  <2>1. "text_done" \in QuietTypes
    BY DEF QuietTypes
  <2>2. <<Plain("text_done")>> \in Seq(QuietEvents)
    BY <2>1, QuietOne DEF Plain
  <2>3. QED
    BY <2>2, QuietIf DEF CloseText
<1>8. PICK us \in Seq(QuietEvents) : us = CloseReasoning(d) \o CloseText(d)
  BY <1>6, <1>7, ConcatProperties
<1>9. PICK ws \in Seq(QuietEvents) : ws = us \o done
  BY <1>5, ConcatProperties
<1>10. PICK t \in {"completed", "incomplete"} : t = IF d.finish = "length" THEN "incomplete" ELSE "completed"
  OBVIOUS
<1>11. FlushChat(d, order) = ws \o <<Plain(t)>>
  BY <1>4, <1>8, <1>9, <1>10, Zenon DEF FlushChat
<1>12. c \in Told /\ c.ends = FALSE /\ c.failed = FALSE
  <2>1. d.text \in BOOLEAN /\ d.reasoning \in BOOLEAN /\ d.calls \in SUBSET Nat
    BY DEF ChatDecoder
  <2>2. c = ChatSays(d.text, d.reasoning, d.calls, s)
    BY DEF ChatTold
  <2>3. c \in Told
    BY <2>1, <2>2, SaysTypes, Zenon
  <2>4. QED
    BY <2>2, <2>3 DEF ChatSays
<1>13. \E e : Carries(c, ws \o <<Plain(t)>>, e) /\ SameStory(c, e) /\ e.ends
  BY <1>12, QuietFlush
<1>14. QED
  BY <1>11, <1>13

-----------------------------------------------------------------------------
(* The decoders of Anthropic and Responses backends, which send one block or  *)
(* item after the other.                                                      *)

BlockProtocols == {"anthropic", "openai-responses"}
OpenStates == {"start", "none", "thinking", "redacted", "text", "call", "message", "done", "over", "failed"}

BlockSays(from, at, i, called, sent) ==
    [from |-> from, text |-> at = "text", thinking |-> at = "thinking",
     calls |-> IF at = "call" THEN {i} ELSE {}, called |-> called, failed |-> at = "failed",
     ends |-> from = "openai-responses" /\ at \in {"over", "failed"}, deltas |-> sent]

LEMMA BlockTypes ==
    ASSUME NEW from \in BlockProtocols, NEW at \in OpenStates, NEW i \in Nat, NEW b \in BOOLEAN,
           NEW s \in Seq(Deltas)
    PROVE  BlockSays(from, at, i, b, s) \in Told
<1>1. PICK x \in BOOLEAN, y \in BOOLEAN, f \in BOOLEAN, e \in BOOLEAN, K \in SUBSET Nat :
         /\ x = (at = "text") /\ y = (at = "thinking") /\ f = (at = "failed")
         /\ e = (from = "openai-responses" /\ at \in {"over", "failed"})
         /\ K = IF at = "call" THEN {i} ELSE {}
  OBVIOUS
<1>2. from \in Protocols /\ s \in Seq(DeltaTypes \X Nat \X Nat)
  BY DEF BlockProtocols, Protocols, Deltas
<1>3. [from |-> from, text |-> x, thinking |-> y, calls |-> K, called |-> b, failed |-> f,
       ends |-> e, deltas |-> s] \in Told
  BY <1>2 DEF Told
<1>4. QED
  BY <1>1, <1>3, Zenon DEF BlockSays

LEMMA BlockQuiet ==
    ASSUME NEW from \in BlockProtocols, NEW at \in OpenStates, NEW then \in OpenStates, NEW i \in Nat, NEW j \in Nat,
           NEW b \in BOOLEAN, NEW s \in Seq(Deltas), NEW ev \in Event, ev.t \in QuietTypes \ {"args_done"},
           {at, then} \cap {"call", "over", "failed"} = {},
           then = "text" => ev.t = "part_added", then = "thinking" => ev.t = "thinking_added"
    PROVE  Carries(BlockSays(from, at, i, b, s), <<ev>>, BlockSays(from, then, j, b, s))
<1>1. PICK c, d : c = BlockSays(from, at, i, b, s) /\ d = BlockSays(from, then, j, b, s)
  OBVIOUS
<1>2. c \in Told /\ d \in Told
  <2>1. c \in Told
    BY <1>1, BlockTypes, Zenon
  <2>2. d \in Told
    BY <1>1, BlockTypes, Zenon
  <2>3. QED
    BY <2>1, <2>2
<1>3. /\ d.from = c.from /\ d.ends = c.ends /\ d.failed = c.failed /\ d.called = c.called
      /\ d.calls = c.calls /\ d.deltas = c.deltas /\ ~c.ends
  <2>1. at \notin {"call", "over", "failed"} /\ then \notin {"call", "over", "failed"}
    OBVIOUS
  <2>2. QED
    BY <1>1, <2>1 DEF BlockSays
<1>4. d.text = (then = "text") /\ d.thinking = (then = "thinking")
  BY <1>1 DEF BlockSays
<1>5. Tells(c, ev, d)
  <2>1. /\ d.text => ev.t = "part_added" \/ (c.text /\ ev.t # "text_done")
        /\ d.thinking => ev.t = "thinking_added" \/ (c.thinking /\ ev.t # "part_added")
    BY <1>4
  <2>2. QED
    BY <1>2, <1>3, <2>1, TellsQuiet
<1>6. QED
  BY <1>1, <1>5, CarriesOne

LEMMA BlockCallDone ==
    ASSUME NEW from \in BlockProtocols, NEW then \in {"none", "done"}, NEW i \in Nat, NEW j \in Nat,
           NEW b \in BOOLEAN, NEW s \in Seq(Deltas), NEW ev \in Event, ev.t = "args_done", ev.i = i
    PROVE  Carries(BlockSays(from, "call", i, b, s), <<ev>>, BlockSays(from, then, j, b, s))
<1>1. PICK c, d : c = BlockSays(from, "call", i, b, s) /\ d = BlockSays(from, then, j, b, s)
  OBVIOUS
<1>2. c \in Told /\ d \in Told
  <2>1. "call" \in OpenStates /\ then \in OpenStates
    BY DEF OpenStates
  <2>2. c \in Told
    BY <1>1, <2>1, BlockTypes, Zenon
  <2>3. d \in Told
    BY <1>1, <2>1, BlockTypes, Zenon
  <2>4. QED
    BY <2>2, <2>3
<1>3. ev.t \in CanonicalType /\ ev.t \notin DeltaTypes
  BY DEF CanonicalType, DeltaTypes
<1>4. /\ d.from = c.from /\ d.ends = FALSE /\ c.ends = FALSE /\ d.failed = FALSE /\ c.failed = FALSE
      /\ d.called = b /\ c.called = b /\ d.calls = {} /\ c.calls = {i} /\ d.deltas = c.deltas
      /\ d.text = FALSE /\ d.thinking = FALSE
  BY <1>1 DEF BlockSays
<1>5. /\ d.ends = (c.ends \/ ev.t \in {"completed", "incomplete", "failed"})
      /\ d.failed = (c.failed \/ ev.t = "failed") /\ d.called = (c.called \/ ev.t = "call_added")
  BY <1>4
<1>6. d.calls = c.calls \ {ev.i}
  BY <1>4
<1>7. Tells(c, ev, d)
  BY <1>2, <1>3, <1>4, <1>5, <1>6 DEF Tells
<1>8. QED
  BY <1>1, <1>7, CarriesOne

LEMMA BlockTellsDelta ==
    ASSUME NEW from \in BlockProtocols, NEW at \in OpenStates, NEW i \in Nat,
           NEW b \in BOOLEAN, NEW s \in Seq(Deltas), NEW ev \in Event,
           \/ ev.t \in {"text", "thinking"} /\ at = ev.t
           \/ ev.t = "args" /\ at = "call" /\ ev.i = i,
           NEW delta, delta = <<ev.t, IF ev.t = "args" THEN i ELSE 0, ev.n>>
    PROVE  /\ Append(s, delta) \in Seq(Deltas)
           /\ Carries(BlockSays(from, at, i, b, s), <<ev>>, BlockSays(from, at, i, b, Append(s, delta)))
<1>1. ev.t \in DeltaTypes /\ ev.n \in Nat
  BY DEF DeltaTypes, Event
<1>2. delta \in Deltas
  BY <1>1 DEF Deltas
<1>3. PICK r \in Seq(Deltas) : r = Append(s, delta)
  BY <1>2, AppendProperties
<1>4. PICK c, d : c = BlockSays(from, at, i, b, s) /\ d = BlockSays(from, at, i, b, r)
  OBVIOUS
<1>5. c \in Told /\ d \in Told
  <2>1. c \in Told
    BY <1>4, BlockTypes, Zenon
  <2>2. d \in Told
    BY <1>4, BlockTypes, Zenon
  <2>3. QED
    BY <2>1, <2>2
<1>6. /\ c.from = from /\ c.text = (at = "text") /\ c.thinking = (at = "thinking")
      /\ c.calls = IF at = "call" THEN {i} ELSE {}
      /\ c.deltas = s /\ d.deltas = r
      /\ d.from = c.from /\ d.text = c.text /\ d.thinking = c.thinking /\ d.calls = c.calls
      /\ d.called = c.called /\ d.failed = c.failed /\ d.ends = c.ends
  BY <1>4 DEF BlockSays
<1>7. ~c.ends
  BY <1>4 DEF BlockSays
<1>8. DeltaOf(c.from, ev) = delta
  <2>1. from # "openai"
    BY DEF BlockProtocols
  <2>2. Own(from, ev.i) = ev.i
    BY <2>1 DEF Own
  <2>3. QED
    BY <1>6, <2>2 DEF DeltaOf
<1>9. Tells(c, ev, d)
  <2>1. /\ ev.t = "text" => c.text
        /\ ev.t = "thinking" => c.thinking
        /\ ev.t = "args" => ev.i \in c.calls
    BY <1>6
  <2>2. d.deltas = Append(c.deltas, DeltaOf(c.from, ev))
    BY <1>3, <1>6, <1>8
  <2>3. QED
    BY <1>1, <1>5, <1>6, <1>7, <2>1, <2>2, TellsDelta
<1>10. QED
  BY <1>3, <1>4, <1>9, CarriesOne

LEMMA BlockCall ==
    ASSUME NEW from \in BlockProtocols, NEW i \in Nat, NEW b \in BOOLEAN, NEW s \in Seq(Deltas)
    PROVE  Carries(BlockSays(from, "none", i, b, s), <<Ev("call_added", i, i)>>,
                   BlockSays(from, "call", i, TRUE, s))
<1>1. PICK c, d, ev : /\ c = BlockSays(from, "none", i, b, s) /\ d = BlockSays(from, "call", i, TRUE, s)
                      /\ ev = Ev("call_added", i, i)
  OBVIOUS
<1>2. c \in Told /\ d \in Told
  <2>1. "call" \in OpenStates /\ "none" \in OpenStates
    BY DEF OpenStates
  <2>2. c \in Told
    BY <1>1, <2>1, BlockTypes, Zenon
  <2>3. BlockSays(from, "call", i, TRUE, s) \in Told
    BY <2>1, BlockTypes
  <2>4. QED
    BY <1>1, <2>2, <2>3, Zenon
<1>3. ev \in Event /\ ev.t = "call_added" /\ ev.i = i /\ ev.n = i
  <2>1. "call_added" \in CanonicalType \cup ClientTypes
    BY DEF CanonicalType
  <2>2. QED
    BY <1>1, <2>1, EventOf
<1>4. /\ c.from = from /\ d.from = from /\ d.ends = FALSE /\ c.ends = FALSE /\ d.failed = FALSE
      /\ c.failed = FALSE /\ d.called = TRUE /\ d.calls = {i} /\ c.calls = {} /\ d.deltas = c.deltas
      /\ d.text = FALSE /\ d.thinking = FALSE
  BY <1>1 DEF BlockSays
<1>5. ev.n = Own(c.from, ev.i)
  BY <1>3, <1>4 DEF Own, BlockProtocols
<1>6. Tells(c, ev, d)
  <2>1. ev.i \notin c.calls /\ d.calls = c.calls \cup {ev.i}
    BY <1>3, <1>4
  <2>2. QED
    BY <1>2, <1>3, <1>4, <1>5, <2>1, TellsCall
<1>7. QED
  BY <1>1, <1>6, CarriesOne

LEMMA BlockLast ==
    ASSUME NEW at \in OpenStates, NEW then \in {"over", "failed"}, NEW i \in Nat, NEW b \in BOOLEAN,
           NEW s \in Seq(Deltas), NEW ev \in Event,
           \/ ev.t \in {"completed", "incomplete"} /\ at = "none" /\ then = "over"
           \/ ev.t = "failed" /\ at # "over" /\ then = "failed"
    PROVE  Carries(BlockSays("openai-responses", at, i, b, s), <<ev>>,
                   BlockSays("openai-responses", then, i, b, s))
<1>1. PICK from \in BlockProtocols : from = "openai-responses"
  BY DEF BlockProtocols
<1>2. PICK c, d : c = BlockSays(from, at, i, b, s) /\ d = BlockSays(from, then, i, b, s)
  OBVIOUS
<1>3. c \in Told /\ d \in Told
  <2>1. then \in OpenStates
    BY DEF OpenStates
  <2>2. c \in Told
    BY <1>2, BlockTypes, Zenon
  <2>3. d \in Told
    BY <1>2, <2>1, BlockTypes, Zenon
  <2>4. QED
    BY <2>2, <2>3
<1>4. /\ c.from = "openai-responses" /\ d.from = c.from /\ d.ends /\ c.failed = (at = "failed")
      /\ d.failed = (then = "failed") /\ c.ends = (at \in {"over", "failed"})
      /\ d.called = c.called /\ d.deltas = c.deltas /\ d.calls = {}
      /\ c.calls = (IF at = "call" THEN {i} ELSE {})
      /\ d.text = FALSE /\ d.thinking = FALSE
  <2>1. /\ c.from = "openai-responses" /\ d.from = c.from /\ c.failed = (at = "failed")
        /\ d.failed = (then = "failed") /\ d.called = c.called /\ d.deltas = c.deltas
        /\ c.calls = (IF at = "call" THEN {i} ELSE {}) /\ d.calls = (IF then = "call" THEN {i} ELSE {})
        /\ d.text = (then = "text") /\ d.thinking = (then = "thinking")
    BY <1>1, <1>2 DEF BlockSays
  <2>2. /\ c.ends = (from = "openai-responses" /\ at \in {"over", "failed"})
        /\ d.ends = (from = "openai-responses" /\ then \in {"over", "failed"})
    BY <1>2, Zenon DEF BlockSays
  <2>3. d.ends /\ c.ends = (at \in {"over", "failed"})
    <3>1. d.ends
      BY <1>1, <2>2
    <3>2. (from = "openai-responses" /\ at \in {"over", "failed"}) = (at \in {"over", "failed"})
      BY <1>1
    <3>3. QED
      BY <2>2, <3>1, <3>2, Zenon
  <2>4. QED
    BY <2>1, <2>3
<1>5. /\ ev.t \in {"completed", "incomplete", "failed"}
      /\ c.ends => ev.t = "failed" /\ c.from = "openai-responses"
      /\ d.failed = (c.failed \/ ev.t = "failed")
      /\ d.failed \/ d.calls = c.calls
  BY <1>4
<1>6. Tells(c, ev, d)
  BY <1>3, <1>4, <1>5, TellsLast
<1>7. QED
  BY <1>1, <1>2, <1>6, CarriesOne

\* A decoder knows which block is open.
AnthropicDecoder == [thinking : SUBSET Nat, text : SUBSET Nat, calls : SUBSET Nat, signed : BOOLEAN,
                     stop : {"none", "max_tokens", "tool_use"}]
AnthropicAt(d, at, i) == /\ d \in AnthropicDecoder
                         /\ d.thinking = IF at = "thinking" THEN {i} ELSE {}
                         /\ d.text = IF at = "text" THEN {i} ELSE {}
                         /\ d.calls = IF at = "call" THEN {i} ELSE {}

\* A line that tells nothing.
LEMMA BlockNothing ==
    ASSUME NEW from \in BlockProtocols, NEW at \in OpenStates, NEW then \in OpenStates, NEW i \in Nat,
           NEW j \in Nat, NEW b \in BOOLEAN, NEW s \in Seq(Deltas),
           \/ at = then /\ i = j
           \/ {at, then} \cap {"thinking", "text", "call", "over", "failed"} = {}
           \/ from = "anthropic" /\ at = "none" /\ then = "over"
    PROVE  Carries(BlockSays(from, at, i, b, s), <<>>, BlockSays(from, then, j, b, s))
<1>1. BlockSays(from, at, i, b, s) = BlockSays(from, then, j, b, s)
  <2>1. CASE at = then /\ i = j
    BY <2>1
  <2>2. CASE ~(at = then /\ i = j)
    <3>1. /\ (at = "text") = (then = "text") /\ (at = "thinking") = (then = "thinking")
          /\ (at = "failed") = (then = "failed") /\ at # "call" /\ then # "call"
          /\ (from = "openai-responses" /\ at \in {"over", "failed"}) =
             (from = "openai-responses" /\ then \in {"over", "failed"})
      BY <2>2
    <3>2. PICK K : K = (IF at = "call" THEN {i} ELSE {}) /\ K = (IF then = "call" THEN {j} ELSE {})
      BY <3>1
    <3>3. QED
      BY <3>1, <3>2, Zenon DEF BlockSays
  <2>3. QED
    BY <2>1, <2>2
<1>2. BlockSays(from, at, i, b, s) \in Told
  BY BlockTypes, Zenon
<1>3. Carries(BlockSays(from, at, i, b, s), <<>>, BlockSays(from, at, i, b, s))
  BY <1>2, CarriesNone
<1>4. QED
  BY <1>1, <1>3, Zenon

LEMMA AnthropicStart ==
    ASSUME NEW d, NEW i \in Nat, NEW j \in Nat, NEW b \in BOOLEAN, NEW s \in Seq(Deltas),
           AnthropicAt(d, "start", i), NEW n, NEW l, l.t = "message_start",
           NEW q, q = DecodeAnthropic(d, l, n)
    PROVE  /\ AnthropicAt(q.d, "none", j)
           /\ Carries(BlockSays("anthropic", "start", i, b, s), q.evs, BlockSays("anthropic", "none", j, b, s))
<1>1. q.d = d /\ q.evs = <<Plain("created")>>
  BY DEF DecodeAnthropic
<1>2. AnthropicAt(q.d, "none", j)
  BY <1>1 DEF AnthropicAt
<1>3. PICK ev \in Event : ev = Plain("created") /\ ev.t = "created" /\ ev.t \in QuietTypes \ {"args_done"}
  <2>1. "created" \in QuietTypes \ {"args_done"}
    BY DEF QuietTypes
  <2>2. QED
    BY <2>1, QuietEvent DEF Plain
<1>4. PICK from \in BlockProtocols, at \in OpenStates, then \in OpenStates :
         from = "anthropic" /\ at = "start" /\ then = "none"
  BY DEF BlockProtocols, OpenStates
<1>5. Carries(BlockSays(from, at, i, b, s), <<ev>>, BlockSays(from, then, j, b, s))
  <2>1. {at, then} \cap {"call", "over", "failed"} = {} /\ then # "text" /\ then # "thinking"
    BY <1>4
  <2>2. QED
    BY <1>3, <2>1, BlockQuiet
<1>6. QED
  BY <1>1, <1>2, <1>3, <1>4, <1>5

LEMMA AnthropicBlockStarts ==
    ASSUME NEW d, NEW i \in Nat, NEW b \in BOOLEAN, NEW s \in Seq(Deltas),
           AnthropicAt(d, "none", i), NEW n, NEW k \in {"thinking", "redacted", "text"},
           NEW l, l.t = "block_start", l.k = k, l.i = i, NEW q, q = DecodeAnthropic(d, l, n)
    PROVE  /\ AnthropicAt(q.d, k, i)
           /\ Carries(BlockSays("anthropic", "none", i, b, s), q.evs, BlockSays("anthropic", k, i, b, s))
<1>1. q = StartBlock(d, l) /\ d \in AnthropicDecoder /\ d.text = {} /\ d.thinking = {} /\ d.calls = {}
  BY DEF DecodeAnthropic, AnthropicAt
<1>2. PICK from \in BlockProtocols, at \in OpenStates, then \in OpenStates :
         from = "anthropic" /\ at = "none" /\ then = k
  BY DEF BlockProtocols, OpenStates
<1>3. /\ "thinking_added" \in QuietTypes \ {"args_done"} /\ "item_done" \in QuietTypes \ {"args_done"}
      /\ "item_added" \in QuietTypes \ {"args_done"} /\ "part_added" \in QuietTypes \ {"args_done"}
  BY DEF QuietTypes
<1>4. \A x \in OpenStates : x \in {"none", "thinking", "redacted", "text"} =>
         {at, x} \cap {"call", "over", "failed"} = {} /\ {x, then} \cap {"call", "over", "failed"} = {}
  BY <1>2
<1>5. CASE k = "thinking"
  <2>1. q.d = [d EXCEPT !.thinking = {i}, !.signed = FALSE] /\ q.evs = <<Plain("thinking_added")>>
    BY <1>1, <1>5 DEF StartBlock
  <2>2. AnthropicAt(q.d, k, i)
    <3>1. PICK I \in SUBSET Nat : I = {i}
      OBVIOUS
    <3>2. q.d = [d EXCEPT !.thinking = I, !.signed = FALSE]
      BY <2>1, <3>1
    <3>3. q.d \in AnthropicDecoder /\ q.d.thinking = I /\ q.d.text = {} /\ q.d.calls = {}
      BY <1>1, <3>2 DEF AnthropicDecoder
    <3>4. QED
      BY <1>5, <3>1, <3>3 DEF AnthropicAt
  <2>3. PICK ev \in Event : ev = Plain("thinking_added") /\ ev.t = "thinking_added"
    BY <1>3, QuietEvent DEF Plain
  <2>4. Carries(BlockSays(from, at, i, b, s), <<ev>>, BlockSays(from, then, i, b, s))
    BY <1>2, <1>3, <1>4, <1>5, <2>3, BlockQuiet
  <2>5. QED
    BY <1>2, <2>1, <2>2, <2>3, <2>4
<1>6. CASE k = "redacted"
  <2>1. q.d = d /\ q.evs = <<Ev("item_done", i, 0)>>
    BY <1>1, <1>6 DEF StartBlock
  <2>2. AnthropicAt(q.d, k, i)
    BY <1>1, <1>6, <2>1 DEF AnthropicAt
  <2>3. PICK ev \in Event : ev = Ev("item_done", i, 0) /\ ev.t = "item_done"
    BY <1>3, QuietEvent
  <2>4. Carries(BlockSays(from, at, i, b, s), <<ev>>, BlockSays(from, then, i, b, s))
    BY <1>2, <1>3, <1>4, <1>6, <2>3, BlockQuiet
  <2>5. QED
    BY <1>2, <2>1, <2>2, <2>3, <2>4
<1>7. CASE k = "text"
  <2>1. q.d = [d EXCEPT !.text = {i}] /\ q.evs = <<Ev("item_added", i, 0), Ev("part_added", i, 0)>>
    <3>1. l.k = "text" /\ l.k # "thinking" /\ l.k # "redacted" /\ l.i = i
      BY <1>7
    <3>2. q = [d |-> [d EXCEPT !.text = {i}], evs |-> <<Ev("item_added", i, 0), Ev("part_added", i, 0)>>]
      BY <1>1, <3>1, Zenon DEF StartBlock
    <3>3. PICK w : w = <<Ev("item_added", i, 0), Ev("part_added", i, 0)>>
      OBVIOUS
    <3>4. q = [d |-> [d EXCEPT !.text = {i}], evs |-> w]
      BY <3>2, <3>3
    <3>5. QED
      BY <3>3, <3>4
  <2>2. AnthropicAt(q.d, k, i)
    <3>1. PICK I \in SUBSET Nat : I = {i}
      OBVIOUS
    <3>2. q.d = [d EXCEPT !.text = I]
      BY <2>1, <3>1
    <3>3. q.d \in AnthropicDecoder /\ q.d.thinking = {} /\ q.d.text = I /\ q.d.calls = {}
      BY <1>1, <3>2 DEF AnthropicDecoder
    <3>4. QED
      BY <1>7, <3>1, <3>3 DEF AnthropicAt
  <2>3. PICK a \in Event : a = Ev("item_added", i, 0) /\ a.t = "item_added"
    BY <1>3, QuietEvent
  <2>4. PICK e \in Event : e = Ev("part_added", i, 0) /\ e.t = "part_added"
    BY <1>3, QuietEvent
  <2>5. Carries(BlockSays(from, at, i, b, s), <<a>>, BlockSays(from, at, i, b, s))
    BY <1>2, <1>3, <1>4, <2>3, BlockQuiet
  <2>6. Carries(BlockSays(from, at, i, b, s), <<e>>, BlockSays(from, then, i, b, s))
    BY <1>2, <1>3, <1>4, <1>7, <2>4, BlockQuiet
  <2>7. Carries(BlockSays(from, at, i, b, s), <<a>> \o <<e>>, BlockSays(from, then, i, b, s))
    BY <2>5, <2>6, CarriesBoth
  <2>8. q.evs = <<a>> \o <<e>>
    BY <2>1, <2>3, <2>4, PairOfOnes
  <2>9. QED
    BY <1>2, <2>2, <2>7, <2>8
<1>8. QED
  BY <1>5, <1>6, <1>7

LEMMA AnthropicCallStarts ==
    ASSUME NEW d, NEW i \in Nat, NEW b \in BOOLEAN, NEW s \in Seq(Deltas),
           AnthropicAt(d, "none", i), NEW n,
           NEW l, l.t = "block_start", l.k = "call", l.i = i, NEW q, q = DecodeAnthropic(d, l, n)
    PROVE  /\ AnthropicAt(q.d, "call", i)
           /\ Carries(BlockSays("anthropic", "none", i, b, s), q.evs, BlockSays("anthropic", "call", i, TRUE, s))
<1>1. q = StartBlock(d, l) /\ d \in AnthropicDecoder /\ d.text = {} /\ d.thinking = {} /\ d.calls = {}
  BY DEF DecodeAnthropic, AnthropicAt
<1>2. /\ q.d = [d EXCEPT !.text = {}, !.calls = @ \cup {i}]
      /\ q.evs = TextDone(d) \o <<Ev("call_added", i, i)>>
  BY <1>1 DEF StartBlock
<1>3. AnthropicAt(q.d, "call", i)
  <2>1. [d EXCEPT !.text = {}].calls = {}
    BY <1>1 DEF AnthropicDecoder
  <2>2. PICK I \in SUBSET Nat : I = {i}
    OBVIOUS
  <2>3. q.d = [d EXCEPT !.text = {}, !.calls = I]
    BY <1>2, <2>1, <2>2
  <2>4. q.d \in AnthropicDecoder /\ q.d.thinking = {} /\ q.d.text = {} /\ q.d.calls = I
    BY <1>1, <2>3 DEF AnthropicDecoder
  <2>5. QED
    BY <2>2, <2>4 DEF AnthropicAt
<1>4. q.evs = <<Ev("call_added", i, i)>>
  <2>1. TextDone(d) = <<>>
    BY <1>1 DEF TextDone, If
  <2>2. PICK e \in Event : e = Ev("call_added", i, i)
    <3>1. "call_added" \in CanonicalType
      BY DEF CanonicalType
    <3>2. QED
      BY <3>1, EventOf
  <2>3. <<e>> \in Seq(Event)
    OBVIOUS
  <2>4. <<>> \o <<e>> = <<e>>
    BY <2>3, ConcatEmptySeq
  <2>5. QED
    BY <1>2, <2>1, <2>2, <2>4, Zenon
<1>5. PICK from \in BlockProtocols : from = "anthropic"
  BY DEF BlockProtocols
<1>6. Carries(BlockSays(from, "none", i, b, s), <<Ev("call_added", i, i)>>,
              BlockSays(from, "call", i, TRUE, s))
  BY BlockCall, Zenon
<1>7. QED
  BY <1>3, <1>4, <1>5, <1>6, Zenon

LEMMA AnthropicSendsDelta ==
    ASSUME NEW d, NEW i \in Nat, NEW b \in BOOLEAN, NEW s \in Seq(Deltas),
           NEW k \in {"thinking", "text", "call"}, AnthropicAt(d, k, i), NEW n \in Nat,
           NEW l, l.t = "block_delta", l.k = k, l.i = i, NEW q, q = DecodeAnthropic(d, l, n),
           NEW delta, delta = <<IF k = "call" THEN "args" ELSE k, IF k = "call" THEN i ELSE 0, n>>
    PROVE  /\ AnthropicAt(q.d, k, i) /\ Append(s, delta) \in Seq(Deltas)
           /\ Carries(BlockSays("anthropic", k, i, b, s), q.evs,
                      BlockSays("anthropic", k, i, b, Append(s, delta)))
<1>1. /\ q = BlockDelta(d, l, n)
      /\ d.thinking = IF k = "thinking" THEN {i} ELSE {}
      /\ d.text = IF k = "text" THEN {i} ELSE {}
      /\ d.calls = IF k = "call" THEN {i} ELSE {}
  BY DEF DecodeAnthropic, AnthropicAt
<1>2. PICK x, j : /\ x = (IF k = "call" THEN "args" ELSE k) /\ j \in Nat /\ (x = "args" => j = i)
                  /\ q.d = d /\ q.evs = <<Ev(x, j, n)>>
  <2>1. CASE k = "thinking"
    <3>1. q.d = d /\ q.evs = <<Ev("thinking", 0, n)>>
      BY <1>1, <2>1 DEF BlockDelta, If
    <3>2. QED
      BY <2>1, <3>1
  <2>2. CASE k = "text"
    <3>1. q.d = d /\ q.evs = <<Ev("text", i, n)>>
      BY <1>1, <2>2 DEF BlockDelta, If
    <3>2. QED
      BY <2>2, <3>1
  <2>3. CASE k = "call"
    <3>1. q.d = d /\ q.evs = <<Ev("args", i, n)>>
      BY <1>1, <2>3 DEF BlockDelta, If
    <3>2. QED
      BY <2>3, <3>1
  <2>4. QED
    BY <2>1, <2>2, <2>3
<1>3. PICK ev \in Event : ev = Ev(x, j, n) /\ ev.t = x /\ ev.i = j /\ ev.n = n
  <2>1. x \in CanonicalType
    BY <1>2 DEF CanonicalType
  <2>2. QED
    BY <1>2, <2>1, EventOf
<1>4. PICK from \in BlockProtocols, at \in OpenStates : from = "anthropic" /\ at = k
  BY DEF BlockProtocols, OpenStates
<1>5. \/ ev.t \in {"text", "thinking"} /\ at = ev.t
      \/ ev.t = "args" /\ at = "call" /\ ev.i = i
  BY <1>2, <1>3, <1>4
<1>6. delta = <<ev.t, IF ev.t = "args" THEN i ELSE 0, ev.n>>
  BY <1>2, <1>3
<1>7. /\ Append(s, delta) \in Seq(Deltas)
      /\ Carries(BlockSays(from, at, i, b, s), <<ev>>, BlockSays(from, at, i, b, Append(s, delta)))
  BY <1>5, <1>6, BlockTellsDelta
<1>8. AnthropicAt(q.d, k, i)
  BY <1>2
<1>9. QED
  BY <1>2, <1>3, <1>4, <1>7, <1>8

LEMMA AnthropicSigns ==
    ASSUME NEW d, NEW i \in Nat, NEW b \in BOOLEAN, NEW s \in Seq(Deltas),
           AnthropicAt(d, "thinking", i), NEW n,
           NEW l, l.t = "block_delta", l.k = "signature", NEW q, q = DecodeAnthropic(d, l, n)
    PROVE  /\ AnthropicAt(q.d, "thinking", i)
           /\ Carries(BlockSays("anthropic", "thinking", i, b, s), q.evs,
                      BlockSays("anthropic", "thinking", i, b, s))
<1>1. q = BlockDelta(d, l, n) /\ d \in AnthropicDecoder /\ d.text = {} /\ d.thinking = {i} /\ d.calls = {}
  BY DEF DecodeAnthropic, AnthropicAt
<1>2. q = [d |-> [d EXCEPT !.signed = @ \/ d.thinking # {}], evs |-> <<>>]
  BY <1>1, Zenon DEF BlockDelta
<1>3. PICK x \in BOOLEAN : x = (d.signed \/ d.thinking # {})
  OBVIOUS
<1>4. q.d = [d EXCEPT !.signed = x] /\ q.evs = <<>>
  BY <1>2, <1>3
<1>5. AnthropicAt(q.d, "thinking", i)
  <2>1. q.d \in AnthropicDecoder /\ q.d.thinking = d.thinking /\ q.d.text = {} /\ q.d.calls = {}
    BY <1>1, <1>4 DEF AnthropicDecoder
  <2>2. QED
    BY <1>1, <2>1 DEF AnthropicAt
<1>6. PICK from \in BlockProtocols, at \in OpenStates : from = "anthropic" /\ at = "thinking"
  BY DEF BlockProtocols, OpenStates
<1>7. Carries(BlockSays(from, at, i, b, s), <<>>, BlockSays(from, at, i, b, s))
  BY BlockNothing
<1>8. QED
  BY <1>4, <1>5, <1>6, <1>7

\* The events that end thinking, after which nothing is open.
LEMMA ThinkingStops ==
    ASSUME NEW d, NEW i \in Nat, NEW j \in Nat, NEW b \in BOOLEAN, NEW s \in Seq(Deltas),
           AnthropicAt(d, "thinking", i)
    PROVE  Carries(BlockSays("anthropic", "thinking", i, b, s), ThinkingDone(d),
                   BlockSays("anthropic", "none", j, b, s))
<1>1. d.thinking # {}
  BY DEF AnthropicAt
<1>2. ThinkingDone(d) = Thought \o If(d.signed, <<Plain("item_done")>>)
  BY <1>1, Zenon DEF ThinkingDone, If
<1>3. PICK from \in BlockProtocols, at \in OpenStates, then \in OpenStates :
         from = "anthropic" /\ at = "thinking" /\ then = "none"
  BY DEF BlockProtocols, OpenStates
<1>4. /\ "thinking_text_done" \in QuietTypes \ {"args_done"}
      /\ "thinking_part_done" \in QuietTypes \ {"args_done"} /\ "item_done" \in QuietTypes \ {"args_done"}
  BY DEF QuietTypes
<1>5. PICK u \in Event : u = Plain("thinking_text_done") /\ u.t = "thinking_text_done"
  BY <1>4, QuietEvent DEF Plain
<1>6. PICK v \in Event : v = Plain("thinking_part_done") /\ v.t = "thinking_part_done"
  BY <1>4, QuietEvent DEF Plain
<1>7. PICK w \in Event : w = Plain("item_done") /\ w.t = "item_done"
  BY <1>4, QuietEvent DEF Plain
<1>8. {at, then} \cap {"call", "over", "failed"} = {} /\ {then, then} \cap {"call", "over", "failed"} = {}
  BY <1>3
<1>9. Carries(BlockSays(from, at, i, b, s), <<u>>, BlockSays(from, then, j, b, s))
  BY <1>3, <1>4, <1>5, <1>8, BlockQuiet
<1>10. Carries(BlockSays(from, then, j, b, s), <<v>>, BlockSays(from, then, j, b, s))
  BY <1>3, <1>4, <1>6, <1>8, BlockQuiet
<1>11. Carries(BlockSays(from, then, j, b, s), <<w>>, BlockSays(from, then, j, b, s))
  BY <1>3, <1>4, <1>7, <1>8, BlockQuiet
<1>12. PICK c, e : c = BlockSays(from, at, i, b, s) /\ e = BlockSays(from, then, j, b, s)
  OBVIOUS
<1>13. Carries(c, <<u>> \o <<v>>, e)
  BY <1>9, <1>10, <1>12, CarriesBoth
<1>14. Thought = <<u>> \o <<v>>
  BY <1>5, <1>6, PairOfOnes DEF Thought
<1>15. Carries(c, Thought, e)
  BY <1>13, <1>14
<1>16. Carries(e, If(d.signed, <<Plain("item_done")>>), e)
  <2>1. CASE d.signed
    <3>1. If(d.signed, <<Plain("item_done")>>) = <<w>>
      BY <1>7, <2>1, Zenon DEF If
    <3>2. QED
      BY <1>11, <1>12, <3>1
  <2>2. CASE ~d.signed
    <3>1. If(d.signed, <<Plain("item_done")>>) = <<>>
      BY <2>2, Zenon DEF If
    <3>2. e \in Told
      BY <1>12, BlockTypes, Zenon
    <3>3. QED
      BY <3>1, <3>2, CarriesNone
  <2>3. QED
    BY <2>1, <2>2
<1>17. Carries(c, Thought \o If(d.signed, <<Plain("item_done")>>), e)
  BY <1>15, <1>16, CarriesBoth
<1>18. QED
  BY <1>2, <1>3, <1>12, <1>17

LEMMA AnthropicBlockStops ==
    ASSUME NEW d, NEW i \in Nat, NEW j \in Nat, NEW b \in BOOLEAN, NEW s \in Seq(Deltas),
           NEW at \in {"thinking", "redacted", "text", "call"}, AnthropicAt(d, at, i), NEW n,
           NEW l, l.t = "block_stop", l.i = i, NEW q, q = DecodeAnthropic(d, l, n)
    PROVE  /\ AnthropicAt(q.d, "none", j)
           /\ Carries(BlockSays("anthropic", at, i, b, s), q.evs, BlockSays("anthropic", "none", j, b, s))
<1>1. q = StopBlock(d, l) /\ d \in AnthropicDecoder
  BY DEF DecodeAnthropic, AnthropicAt
<1>2. PICK from \in BlockProtocols, state \in OpenStates, then \in OpenStates :
         from = "anthropic" /\ state = at /\ then = "none"
  BY DEF BlockProtocols, OpenStates
<1>3. \A x \in AnthropicDecoder : x.thinking = {} /\ x.text = {} /\ x.calls = {} => AnthropicAt(x, "none", j)
  BY DEF AnthropicAt
<1>4. CASE at = "thinking"
  <2>1. d.thinking = {i} /\ d.text = {} /\ d.calls = {}
    BY <1>4 DEF AnthropicAt
  <2>2. q = [d |-> [d EXCEPT !.thinking = {}], evs |-> ThinkingDone(d)]
    BY <1>1, <2>1, Zenon DEF StopBlock
  <2>3. q.d = [d EXCEPT !.thinking = {}] /\ q.evs = ThinkingDone(d)
    BY <2>2
  <2>4. AnthropicAt(q.d, "none", j)
    <3>1. q.d \in AnthropicDecoder /\ q.d.thinking = {} /\ q.d.text = {} /\ q.d.calls = {}
      BY <1>1, <2>1, <2>3 DEF AnthropicDecoder
    <3>2. QED
      BY <1>3, <3>1
  <2>5. QED
    BY <1>4, <2>3, <2>4, ThinkingStops
<1>5. CASE at = "redacted"
  <2>1. d.thinking = {} /\ d.text = {} /\ d.calls = {}
    BY <1>5 DEF AnthropicAt
  <2>2. q = [d |-> d, evs |-> <<>>]
    BY <1>1, <2>1, Zenon DEF StopBlock
  <2>3. q.d = d /\ q.evs = <<>>
    BY <2>2
  <2>4. AnthropicAt(q.d, "none", j)
    BY <1>1, <1>3, <2>1, <2>3
  <2>5. {state, then} \cap {"thinking", "text", "call", "over", "failed"} = {}
    BY <1>2, <1>5
  <2>6. Carries(BlockSays(from, state, i, b, s), <<>>, BlockSays(from, then, j, b, s))
    BY <2>5, BlockNothing
  <2>7. QED
    BY <1>2, <2>3, <2>4, <2>6
<1>6. CASE at = "text"
  <2>1. d.thinking = {} /\ d.text = {i} /\ d.calls = {}
    BY <1>6 DEF AnthropicAt
  <2>2. q = [d |-> [d EXCEPT !.text = {}], evs |-> TextDone(d)]
    BY <1>1, <2>1, Zenon DEF StopBlock
  <2>3. q.d = [d EXCEPT !.text = {}] /\ q.evs = <<Plain("text_done")>>
    <3>1. TextDone(d) = <<Plain("text_done")>>
      BY <2>1, Zenon DEF TextDone, If
    <3>2. QED
      BY <2>2, <3>1
  <2>4. AnthropicAt(q.d, "none", j)
    <3>1. q.d \in AnthropicDecoder /\ q.d.thinking = {} /\ q.d.text = {} /\ q.d.calls = {}
      BY <1>1, <2>1, <2>3 DEF AnthropicDecoder
    <3>2. QED
      BY <1>3, <3>1
  <2>5. PICK ev \in Event : ev = Plain("text_done") /\ ev.t = "text_done" /\ ev.t \in QuietTypes \ {"args_done"}
    <3>1. "text_done" \in QuietTypes \ {"args_done"}
      BY DEF QuietTypes
    <3>2. QED
      BY <3>1, QuietEvent DEF Plain
  <2>6. {state, then} \cap {"call", "over", "failed"} = {} /\ then # "text" /\ then # "thinking"
    BY <1>2, <1>6
  <2>7. Carries(BlockSays(from, state, i, b, s), <<ev>>, BlockSays(from, then, j, b, s))
    BY <2>5, <2>6, BlockQuiet
  <2>8. QED
    BY <1>2, <2>3, <2>4, <2>5, <2>7
<1>7. CASE at = "call"
  <2>1. d.thinking = {} /\ d.text = {} /\ d.calls = {i}
    BY <1>7 DEF AnthropicAt
  <2>2. q = [d |-> [d EXCEPT !.calls = @ \ {i}], evs |-> <<Ev("args_done", i, 0)>>]
    BY <1>1, <2>1, Zenon DEF StopBlock
  <2>3. q.d = [d EXCEPT !.calls = {}] /\ q.evs = <<Ev("args_done", i, 0)>>
    <3>1. d.calls \ {i} = {}
      BY <2>1
    <3>2. q.d = [d EXCEPT !.calls = d.calls \ {i}] /\ q.evs = <<Ev("args_done", i, 0)>>
      BY <2>2
    <3>3. QED
      BY <3>1, <3>2, Zenon
  <2>4. AnthropicAt(q.d, "none", j)
    <3>1. q.d \in AnthropicDecoder /\ q.d.thinking = {} /\ q.d.text = {} /\ q.d.calls = {}
      BY <1>1, <2>1, <2>3 DEF AnthropicDecoder
    <3>2. QED
      BY <1>3, <3>1
  <2>5. PICK ev \in Event : ev = Ev("args_done", i, 0) /\ ev.t = "args_done" /\ ev.i = i
    <3>1. "args_done" \in CanonicalType \cup ClientTypes
      BY DEF CanonicalType
    <3>2. QED
      BY <3>1, EventOf
  <2>6. Carries(BlockSays(from, "call", i, b, s), <<ev>>, BlockSays(from, "none", j, b, s))
    BY <2>5, BlockCallDone
  <2>7. QED
    BY <1>2, <1>7, <2>3, <2>4, <2>5, <2>6
<1>8. QED
  BY <1>4, <1>5, <1>6, <1>7

LEMMA AnthropicStops ==
    ASSUME NEW d, NEW i \in Nat, NEW b \in BOOLEAN, NEW s \in Seq(Deltas),
           AnthropicAt(d, "none", i), NEW n, NEW k \in {"none", "max_tokens", "tool_use"},
           NEW l, l.t = "message_delta", l.k = k, NEW q, q = DecodeAnthropic(d, l, n)
    PROVE  /\ AnthropicAt(q.d, "over", i)
           /\ Carries(BlockSays("anthropic", "none", i, b, s), q.evs, BlockSays("anthropic", "over", i, b, s))
<1>1. d \in AnthropicDecoder /\ d.thinking = {} /\ d.text = {} /\ d.calls = {}
  BY DEF AnthropicAt
<1>2. q = [d |-> [d EXCEPT !.stop = k], evs |-> <<>>]
  BY Zenon DEF DecodeAnthropic
<1>3. q.d = [d EXCEPT !.stop = k] /\ q.evs = <<>>
  BY <1>2
<1>4. AnthropicAt(q.d, "over", i)
  <2>1. q.d \in AnthropicDecoder /\ q.d.thinking = {} /\ q.d.text = {} /\ q.d.calls = {}
    BY <1>1, <1>3 DEF AnthropicDecoder
  <2>2. QED
    BY <2>1 DEF AnthropicAt
<1>5. PICK from \in BlockProtocols, at \in OpenStates, then \in OpenStates :
         from = "anthropic" /\ at = "none" /\ then = "over"
  BY DEF BlockProtocols, OpenStates
<1>6. Carries(BlockSays(from, at, i, b, s), <<>>, BlockSays(from, then, i, b, s))
  BY <1>5, BlockNothing
<1>7. QED
  BY <1>3, <1>4, <1>5, <1>6

LEMMA AnthropicFlushes ==
    ASSUME NEW d, NEW at \in OpenStates, NEW i \in Nat, NEW b \in BOOLEAN, NEW s \in Seq(Deltas),
           at # "failed", NEW c, c = BlockSays("anthropic", at, i, b, s)
    PROVE  \E e : Carries(c, FlushAnthropic(d), e) /\ SameStory(c, e) /\ e.ends
<1>1. "item_done" \in QuietTypes /\ "text_done" \in QuietTypes
  BY DEF QuietTypes
<1>2. PICK us \in Seq(QuietEvents) : us = ThinkingDone(d)
  <2>1. <<Plain("item_done")>> \in Seq(QuietEvents)
    BY <1>1, QuietOne DEF Plain
  <2>2. If(d.signed, <<Plain("item_done")>>) \in Seq(QuietEvents)
    BY <2>1, QuietIf
  <2>3. PICK x \in Seq(QuietEvents) : x = Thought \o If(d.signed, <<Plain("item_done")>>)
    BY <2>2, QuietThought, ConcatProperties
  <2>4. If(d.thinking # {}, x) \in Seq(QuietEvents)
    BY QuietIf
  <2>5. QED
    BY <2>3, <2>4 DEF ThinkingDone
<1>3. PICK vs \in Seq(QuietEvents) : vs = TextDone(d)
  <2>1. <<Plain("text_done")>> \in Seq(QuietEvents)
    BY <1>1, QuietOne DEF Plain
  <2>2. QED
    BY <2>1, QuietIf DEF TextDone
<1>4. PICK ws \in Seq(QuietEvents) : ws = us \o vs
  BY ConcatProperties
<1>5. PICK t \in {"completed", "incomplete"} : t = IF d.stop = "max_tokens" THEN "incomplete" ELSE "completed"
  OBVIOUS
<1>6. FlushAnthropic(d) = ws \o <<Plain(t)>>
  BY <1>2, <1>3, <1>4, <1>5, Zenon DEF FlushAnthropic
<1>7. c \in Told /\ c.ends = FALSE /\ c.failed = FALSE
  <2>1. PICK from \in BlockProtocols : from = "anthropic"
    BY DEF BlockProtocols
  <2>2. c = BlockSays(from, at, i, b, s)
    BY <2>1
  <2>3. c \in Told
    BY <2>2, BlockTypes, Zenon
  <2>4. QED
    BY <2>3 DEF BlockSays
<1>8. \E e : Carries(c, ws \o <<Plain(t)>>, e) /\ SameStory(c, e) /\ e.ends
  BY <1>7, QuietFlush
<1>9. QED
  BY <1>6, <1>8

-----------------------------------------------------------------------------
(* What a backend sends, and what its decoder makes of it.                    *)

Backends == [lines : Nat, open : OpenStates, i : Nat, calls : {S \in SUBSET Nat : IsFiniteSet(S)},
             sent : Seq(Deltas), error : BOOLEAN]

\* The backend after its n-th line.
Sending(u, n, at, i, calls, sent) ==
    [lines |-> n, open |-> at, i |-> i, calls |-> u.calls \cup calls, sent |-> u.sent \o sent,
     error |-> FALSE]

\* What is known of a backend and its decoder, and what the two have told.
SourceOK(from, d, u) ==
    /\ u \in Backends
    /\ from = "openai" => d \in ChatDecoder /\ d.calls = u.calls
    /\ from = "anthropic" => AnthropicAt(d, u.open, u.i)
    /\ from # "openai-responses" => u.open # "failed"
SourceTold(from, d, u) == IF from = "openai" THEN ChatTold(d, u.sent)
                          ELSE BlockSays(from, u.open, u.i, u.calls # {}, u.sent)

\* A line takes a backend from u to v; the decoder d makes q of it.
SourceGoes(from, d, u, q, v) == /\ SourceOK(from, q.d, v)
                                /\ Carries(SourceTold(from, d, u), q.evs, SourceTold(from, q.d, v))

LEMMA SendingTypes ==
    ASSUME NEW u \in Backends, NEW n \in Nat, NEW at \in OpenStates, NEW i \in Nat,
           NEW K \in SUBSET Nat, IsFiniteSet(K), NEW w, u.sent \o w \in Seq(Deltas)
    PROVE  Sending(u, n, at, i, K, w) \in Backends
<1>1. PICK S \in SUBSET Nat : S = u.calls \cup K
  BY DEF Backends
<1>2. IsFiniteSet(S)
  <2>1. IsFiniteSet(u.calls)
    BY DEF Backends
  <2>2. QED
    BY <1>1, <2>1, FS_Union
<1>3. PICK r \in Seq(Deltas) : r = u.sent \o w
  OBVIOUS
<1>4. Sending(u, n, at, i, K, w)
         = [lines |-> n, open |-> at, i |-> i, calls |-> S, sent |-> r, error |-> FALSE]
  BY <1>1, <1>3, Zenon DEF Sending
<1>5. S \in {T \in SUBSET Nat : IsFiniteSet(T)}
  BY <1>2
<1>6. [lines |-> n, open |-> at, i |-> i, calls |-> S, sent |-> r, error |-> FALSE] \in Backends
  BY <1>5 DEF Backends
<1>7. QED
  BY <1>4, <1>6

LEMMA BlockGoes ==
    ASSUME NEW from \in BlockProtocols, NEW u \in Backends, NEW d, SourceOK(from, d, u), NEW n \in Nat,
           NEW at \in OpenStates, NEW i \in Nat, NEW K \in SUBSET Nat, IsFiniteSet(K),
           NEW w, NEW r \in Seq(Deltas), r = u.sent \o w, NEW v, v = Sending(u, n, at, i, K, w),
           NEW b \in BOOLEAN, b = (u.calls # {} \/ K # {}), NEW q,
           from = "anthropic" => AnthropicAt(q.d, at, i) /\ at # "failed",
           Carries(BlockSays(from, u.open, u.i, u.calls # {}, u.sent), q.evs, BlockSays(from, at, i, b, r))
    PROVE  SourceGoes(from, d, u, q, v)
<1>1. /\ v \in Backends /\ v.open = at /\ v.i = i /\ v.calls = u.calls \cup K /\ v.sent = r
      /\ (v.calls # {}) = b
  <2>1. u.sent \o w \in Seq(Deltas)
    OBVIOUS
  <2>2. Sending(u, n, at, i, K, w) \in Backends
    BY <2>1, SendingTypes
  <2>3. v.open = at /\ v.i = i /\ v.calls = u.calls \cup K /\ v.sent = u.sent \o w
    BY DEF Sending
  <2>4. (u.calls \cup K # {}) = (u.calls # {} \/ K # {})
    OBVIOUS
  <2>5. QED
    BY <2>2, <2>3, <2>4
<1>2. from # "openai" /\ (from # "openai-responses" => from = "anthropic")
  BY DEF BlockProtocols
<1>3. SourceTold(from, d, u) = BlockSays(from, u.open, u.i, u.calls # {}, u.sent)
  BY <1>2, Zenon DEF SourceTold
<1>4. SourceTold(from, q.d, v) = BlockSays(from, v.open, v.i, v.calls # {}, v.sent)
  BY <1>2, Zenon DEF SourceTold
<1>5. BlockSays(from, v.open, v.i, v.calls # {}, v.sent) = BlockSays(from, at, i, b, r)
  BY <1>1, Zenon
<1>6. Carries(SourceTold(from, d, u), q.evs, SourceTold(from, q.d, v))
  BY <1>3, <1>4, <1>5, Zenon
<1>7. SourceOK(from, q.d, v)
  BY <1>1, <1>2 DEF SourceOK
<1>8. QED
  BY <1>6, <1>7 DEF SourceGoes

LEMMA AnthropicGoes ==
    ASSUME NEW d, NEW u, SourceOK("anthropic", d, u), NEW n \in Nat, NEW t, NEW k, NEW v,
           NEW l, l = [t |-> t, k |-> k, i |-> u.i], NEW q, q = DecodeAnthropic(d, l, n),
           \/ t = "message_start" /\ u.open = "start" /\ v = Sending(u, n, "none", 0, {}, <<>>)
           \/ /\ t = "block_start" /\ u.open = "none" /\ k \in {"thinking", "redacted", "text"}
              /\ v = Sending(u, n, k, u.i, {}, <<>>)
           \/ /\ t = "block_start" /\ u.open = "none" /\ k = "call"
              /\ v = Sending(u, n, k, u.i, {u.i}, <<>>)
           \/ /\ t = "block_delta" /\ u.open = k /\ k \in {"thinking", "text", "call"}
              /\ v = Sending(u, n, k, u.i, {}, <<<<IF k = "call" THEN "args" ELSE k,
                                                   IF k = "call" THEN u.i ELSE 0, n>>>>)
           \/ /\ t = "block_delta" /\ u.open = "thinking" /\ k = "signature"
              /\ v = Sending(u, n, "thinking", u.i, {}, <<>>)
           \/ /\ t = "block_stop" /\ u.open \in {"thinking", "redacted", "text", "call"}
              /\ v = Sending(u, n, "none", u.i + 1, {}, <<>>)
           \/ /\ t = "message_delta" /\ u.open = "none" /\ k \in {"none", "max_tokens", "tool_use"}
              /\ v = Sending(u, n, "over", u.i, {}, <<>>)
    PROVE  SourceGoes("anthropic", d, u, q, v)
<1>1. PICK from, b, at, i, s :
         /\ from = "anthropic" /\ b = (u.calls # {}) /\ at = u.open /\ i = u.i /\ s = u.sent
  OBVIOUS
<1>2. /\ from \in BlockProtocols /\ b \in BOOLEAN /\ at \in OpenStates /\ i \in Nat /\ s \in Seq(Deltas)
      /\ AnthropicAt(d, at, i) /\ u \in Backends /\ SourceOK(from, d, u)
  BY <1>1 DEF BlockProtocols, Backends, SourceOK
<1>3. /\ s \o <<>> = s /\ s = u.sent \o <<>> /\ {} \in SUBSET Nat /\ IsFiniteSet({})
      /\ b = (u.calls # {} \/ {} # {})
  BY <1>1, <1>2, FS_EmptySet
<1>4. l.t = t /\ l.k = k /\ l.i = i
  BY <1>1
<1>5. \A x \in {"none", "thinking", "redacted", "text", "call", "over"} : x \in OpenStates /\ x # "failed"
  BY DEF OpenStates
<1>6. CASE t = "message_start" /\ at = "start" /\ v = Sending(u, n, "none", 0, {}, <<>>)
  <2>1. PICK then \in OpenStates, j \in Nat : then = "none" /\ j = 0 /\ then # "failed"
    BY <1>5
  <2>2. v = Sending(u, n, then, j, {}, <<>>)
    BY <1>6, <2>1
  <2>3. AnthropicAt(q.d, "none", j) /\ Carries(BlockSays("anthropic", "start", i, b, s), q.evs,
                                                BlockSays("anthropic", "none", j, b, s))
    BY <1>2, <1>4, <1>6, AnthropicStart
  <2>4. AnthropicAt(q.d, then, j) /\ Carries(BlockSays(from, u.open, u.i, u.calls # {}, u.sent), q.evs,
                                              BlockSays(from, then, j, b, s))
    BY <1>1, <1>6, <2>1, <2>3
  <2>5. SourceGoes(from, d, u, q, v)
    BY <1>2, <1>3, <2>1, <2>2, <2>4, BlockGoes
  <2>6. QED
    BY <1>1, <2>5
<1>7. CASE /\ t = "block_start" /\ at = "none" /\ k \in {"thinking", "redacted", "text"}
           /\ v = Sending(u, n, k, u.i, {}, <<>>)
  <2>1. PICK then \in OpenStates : then = k /\ then # "failed"
    BY <1>5, <1>7
  <2>2. v = Sending(u, n, then, i, {}, <<>>)
    BY <1>1, <1>7, <2>1
  <2>3. AnthropicAt(q.d, k, i) /\ Carries(BlockSays("anthropic", "none", i, b, s), q.evs,
                                           BlockSays("anthropic", k, i, b, s))
    BY <1>2, <1>4, <1>7, AnthropicBlockStarts
  <2>4. AnthropicAt(q.d, then, i) /\ Carries(BlockSays(from, u.open, u.i, u.calls # {}, u.sent), q.evs,
                                              BlockSays(from, then, i, b, s))
    BY <1>1, <1>7, <2>1, <2>3
  <2>5. SourceGoes(from, d, u, q, v)
    BY <1>2, <1>3, <2>1, <2>2, <2>4, BlockGoes, ZenonT(60)
  <2>6. QED
    BY <1>1, <2>5
<1>8. CASE t = "block_start" /\ at = "none" /\ k = "call" /\ v = Sending(u, n, k, u.i, {u.i}, <<>>)
  <2>1. PICK then \in OpenStates, K \in SUBSET Nat, c \in BOOLEAN :
           then = "call" /\ then # "failed" /\ K = {i} /\ c = TRUE
    BY <1>2, <1>5
  <2>2. v = Sending(u, n, then, i, K, <<>>) /\ IsFiniteSet(K) /\ c = (u.calls # {} \/ K # {})
    <3>1. IsFiniteSet(K)
      BY <2>1, FS_Singleton
    <3>2. QED
      BY <1>1, <1>8, <2>1, <3>1
  <2>3. AnthropicAt(q.d, "call", i) /\ Carries(BlockSays("anthropic", "none", i, b, s), q.evs,
                                                BlockSays("anthropic", "call", i, TRUE, s))
    BY <1>2, <1>4, <1>8, AnthropicCallStarts
  <2>4. AnthropicAt(q.d, then, i) /\ Carries(BlockSays(from, u.open, u.i, u.calls # {}, u.sent), q.evs,
                                              BlockSays(from, then, i, c, s))
    BY <1>1, <1>8, <2>1, <2>3
  <2>5. SourceGoes(from, d, u, q, v)
    BY <1>2, <1>3, <2>1, <2>2, <2>4, BlockGoes, ZenonT(60)
  <2>6. QED
    BY <1>1, <2>5
<1>9. CASE /\ t = "block_delta" /\ at = k /\ k \in {"thinking", "text", "call"}
           /\ v = Sending(u, n, k, u.i, {}, <<<<IF k = "call" THEN "args" ELSE k,
                                                IF k = "call" THEN u.i ELSE 0, n>>>>)
  <2>1. PICK then \in OpenStates : then = k /\ then # "failed"
    BY <1>5, <1>9
  <2>2. PICK delta : delta = <<IF k = "call" THEN "args" ELSE k, IF k = "call" THEN i ELSE 0, n>>
    OBVIOUS
  <2>3. v = Sending(u, n, then, i, {}, <<delta>>)
    BY <1>1, <1>9, <2>1, <2>2, Zenon
  <2>4. AnthropicAt(d, k, i)
    BY <1>2, <1>9
  <2>5. /\ AnthropicAt(q.d, k, i) /\ Append(s, delta) \in Seq(Deltas)
        /\ Carries(BlockSays("anthropic", k, i, b, s), q.evs,
                   BlockSays("anthropic", k, i, b, Append(s, delta)))
    BY <1>2, <1>4, <1>9, <2>2, <2>4, AnthropicSendsDelta
  <2>6. PICK r, w : r \in Seq(Deltas) /\ r = Append(s, delta) /\ w = <<delta>> /\ r = u.sent \o w
    <3>1. delta \in Deltas
      BY <1>2, <1>9, <2>2 DEF Deltas, DeltaTypes
    <3>2. s \o <<delta>> = Append(s, delta)
      BY <1>2, <3>1
    <3>3. QED
      BY <1>1, <2>5, <3>2
  <2>7. AnthropicAt(q.d, then, i) /\ Carries(BlockSays(from, u.open, u.i, u.calls # {}, u.sent), q.evs,
                                              BlockSays(from, then, i, b, r))
    BY <1>1, <1>9, <2>1, <2>5, <2>6
  <2>8. v = Sending(u, n, then, i, {}, w)
    BY <2>3, <2>6
  <2>9. SourceGoes(from, d, u, q, v)
    BY <1>2, <1>3, <2>1, <2>6, <2>7, <2>8, BlockGoes, ZenonT(60)
  <2>10. QED
    BY <1>1, <2>9
<1>10. CASE t = "block_delta" /\ at = "thinking" /\ k = "signature"
            /\ v = Sending(u, n, "thinking", u.i, {}, <<>>)
  <2>1. PICK then \in OpenStates : then = "thinking" /\ then # "failed"
    BY <1>5
  <2>2. v = Sending(u, n, then, i, {}, <<>>)
    BY <1>1, <1>10, <2>1
  <2>3. AnthropicAt(q.d, "thinking", i) /\ Carries(BlockSays("anthropic", "thinking", i, b, s), q.evs,
                                                    BlockSays("anthropic", "thinking", i, b, s))
    BY <1>2, <1>4, <1>10, AnthropicSigns
  <2>4. AnthropicAt(q.d, then, i) /\ Carries(BlockSays(from, u.open, u.i, u.calls # {}, u.sent), q.evs,
                                              BlockSays(from, then, i, b, s))
    BY <1>1, <1>10, <2>1, <2>3
  <2>5. SourceGoes(from, d, u, q, v)
    BY <1>2, <1>3, <2>1, <2>2, <2>4, BlockGoes, ZenonT(60)
  <2>6. QED
    BY <1>1, <2>5
<1>11. CASE /\ t = "block_stop" /\ at \in {"thinking", "redacted", "text", "call"}
            /\ v = Sending(u, n, "none", u.i + 1, {}, <<>>)
  <2>1. PICK then \in OpenStates, j \in Nat : then = "none" /\ j = u.i + 1 /\ then # "failed"
    BY <1>1, <1>2, <1>5
  <2>2. v = Sending(u, n, then, j, {}, <<>>)
    BY <1>11, <2>1
  <2>3. AnthropicAt(q.d, "none", j) /\ Carries(BlockSays("anthropic", at, i, b, s), q.evs,
                                                BlockSays("anthropic", "none", j, b, s))
    BY <1>2, <1>4, <1>11, AnthropicBlockStops
  <2>4. AnthropicAt(q.d, then, j) /\ Carries(BlockSays(from, u.open, u.i, u.calls # {}, u.sent), q.evs,
                                              BlockSays(from, then, j, b, s))
    BY <1>1, <2>1, <2>3
  <2>5. SourceGoes(from, d, u, q, v)
    BY <1>2, <1>3, <2>1, <2>2, <2>4, BlockGoes, ZenonT(60)
  <2>6. QED
    BY <1>1, <2>5
<1>12. CASE /\ t = "message_delta" /\ at = "none" /\ k \in {"none", "max_tokens", "tool_use"}
            /\ v = Sending(u, n, "over", u.i, {}, <<>>)
  <2>1. PICK then \in OpenStates : then = "over" /\ then # "failed"
    BY <1>5
  <2>2. v = Sending(u, n, then, i, {}, <<>>)
    BY <1>1, <1>12, <2>1
  <2>3. AnthropicAt(q.d, "over", i) /\ Carries(BlockSays("anthropic", "none", i, b, s), q.evs,
                                                BlockSays("anthropic", "over", i, b, s))
    BY <1>2, <1>4, <1>12, AnthropicStops
  <2>4. AnthropicAt(q.d, then, i) /\ Carries(BlockSays(from, u.open, u.i, u.calls # {}, u.sent), q.evs,
                                              BlockSays(from, then, i, b, s))
    BY <1>1, <1>12, <2>1, <2>3
  <2>5. SourceGoes(from, d, u, q, v)
    BY <1>2, <1>3, <2>1, <2>2, <2>4, BlockGoes, ZenonT(60)
  <2>6. QED
    BY <1>1, <2>5
<1>13. QED
  BY <1>1, <1>6, <1>7, <1>8, <1>9, <1>10, <1>11, <1>12

\* A Responses backend: what its decoder reads is what it tells.
LEMMA ResponsesQuiet ==
    ASSUME NEW d, NEW u, SourceOK("openai-responses", d, u), NEW n \in Nat,
           NEW then \in OpenStates, NEW j \in Nat, NEW v, v = Sending(u, n, then, j, {}, <<>>),
           NEW ev \in Event, ev.t \in QuietTypes \ {"args_done"},
           {u.open, then} \cap {"call", "over", "failed"} = {},
           then = "text" => ev.t = "part_added", then = "thinking" => ev.t = "thinking_added",
           NEW q, q = DecodeResponses(d, ev)
    PROVE  SourceGoes("openai-responses", d, u, q, v)
<1>1. PICK from, b, at, i, s :
         /\ from = "openai-responses" /\ b = (u.calls # {}) /\ at = u.open /\ i = u.i /\ s = u.sent
  OBVIOUS
<1>2. /\ from \in BlockProtocols /\ b \in BOOLEAN /\ at \in OpenStates /\ i \in Nat /\ s \in Seq(Deltas)
      /\ u \in Backends /\ SourceOK(from, d, u) /\ from # "anthropic"
  BY <1>1 DEF BlockProtocols, Backends, SourceOK
<1>3. /\ s = u.sent \o <<>> /\ {} \in SUBSET Nat /\ IsFiniteSet({}) /\ b = (u.calls # {} \/ {} # {})
  BY <1>1, <1>2, FS_EmptySet
<1>4. q.evs = <<ev>>
  BY DEF DecodeResponses
<1>5. {at, then} \cap {"call", "over", "failed"} = {}
  BY <1>1
<1>6. Carries(BlockSays(from, at, i, b, s), <<ev>>, BlockSays(from, then, j, b, s))
  BY <1>2, <1>5, BlockQuiet
<1>7. Carries(BlockSays(from, u.open, u.i, u.calls # {}, u.sent), q.evs, BlockSays(from, then, j, b, s))
  BY <1>1, <1>4, <1>6
<1>8. SourceGoes(from, d, u, q, v)
  BY <1>2, <1>3, <1>7, BlockGoes
<1>9. QED
  BY <1>1, <1>8

LEMMA ResponsesCall ==
    ASSUME NEW d, NEW u, SourceOK("openai-responses", d, u), NEW n \in Nat, u.open = "none",
           NEW v, v = Sending(u, n, "call", u.i, {u.i}, <<>>),
           NEW q, q = DecodeResponses(d, Ev("call_added", u.i, u.i))
    PROVE  SourceGoes("openai-responses", d, u, q, v)
<1>1. PICK from, b, at, then, i, s :
         /\ from = "openai-responses" /\ b = (u.calls # {}) /\ at = u.open /\ i = u.i /\ s = u.sent
         /\ then = "call"
  OBVIOUS
<1>2. /\ from \in BlockProtocols /\ b \in BOOLEAN /\ then \in OpenStates /\ i \in Nat /\ s \in Seq(Deltas)
      /\ u \in Backends /\ SourceOK(from, d, u) /\ from # "anthropic"
  BY <1>1 DEF BlockProtocols, Backends, SourceOK, OpenStates
<1>3. PICK K \in SUBSET Nat, c \in BOOLEAN : K = {i} /\ c = TRUE
  BY <1>2
<1>4. s = u.sent \o <<>> /\ IsFiniteSet(K) /\ c = (u.calls # {} \/ K # {})
  <2>1. IsFiniteSet(K)
    BY <1>3, FS_Singleton
  <2>2. c = (u.calls # {} \/ K # {})
    BY <1>3
  <2>3. s = u.sent \o <<>>
    BY <1>1, <1>2
  <2>4. QED
    BY <2>1, <2>2, <2>3
<1>5. q.evs = <<Ev("call_added", i, i)>>
  BY <1>1 DEF DecodeResponses
<1>6. Carries(BlockSays(from, "none", i, b, s), <<Ev("call_added", i, i)>>,
              BlockSays(from, "call", i, TRUE, s))
  BY <1>2, BlockCall
<1>7. Carries(BlockSays(from, u.open, u.i, u.calls # {}, u.sent), q.evs, BlockSays(from, then, i, c, s))
  BY <1>1, <1>3, <1>5, <1>6
<1>8. v = Sending(u, n, then, i, K, <<>>)
  BY <1>1, <1>3
<1>9. SourceGoes(from, d, u, q, v)
  BY <1>2, <1>3, <1>4, <1>7, <1>8, BlockGoes
<1>10. QED
  BY <1>1, <1>9

LEMMA ResponsesDelta ==
    ASSUME NEW d, NEW u, SourceOK("openai-responses", d, u), NEW n \in Nat, NEW ev \in Event,
           \/ ev.t \in {"text", "thinking"} /\ u.open = ev.t
           \/ ev.t = "args" /\ u.open = "call" /\ ev.i = u.i,
           NEW v, v = Sending(u, n, u.open, u.i, {}, <<<<ev.t, IF ev.t = "args" THEN u.i ELSE 0, ev.n>>>>),
           NEW q, q = DecodeResponses(d, ev)
    PROVE  SourceGoes("openai-responses", d, u, q, v)
<1>1. PICK from, b, at, i, s, delta :
         /\ from = "openai-responses" /\ b = (u.calls # {}) /\ at = u.open /\ i = u.i /\ s = u.sent
         /\ delta = <<ev.t, IF ev.t = "args" THEN i ELSE 0, ev.n>>
  OBVIOUS
<1>2. /\ from \in BlockProtocols /\ b \in BOOLEAN /\ at \in OpenStates /\ i \in Nat /\ s \in Seq(Deltas)
      /\ u \in Backends /\ SourceOK(from, d, u) /\ from # "anthropic"
  BY <1>1 DEF BlockProtocols, Backends, SourceOK
<1>3. {} \in SUBSET Nat /\ IsFiniteSet({}) /\ b = (u.calls # {} \/ {} # {})
  BY <1>1, FS_EmptySet
<1>4. q.evs = <<ev>>
  BY DEF DecodeResponses
<1>5. \/ ev.t \in {"text", "thinking"} /\ at = ev.t
      \/ ev.t = "args" /\ at = "call" /\ ev.i = i
  BY <1>1
<1>6. /\ Append(s, delta) \in Seq(Deltas)
      /\ Carries(BlockSays(from, at, i, b, s), <<ev>>, BlockSays(from, at, i, b, Append(s, delta)))
  <2>1. delta = <<ev.t, IF ev.t = "args" THEN i ELSE 0, ev.n>>
    BY <1>1
  <2>2. QED
    BY <1>2, <1>5, <2>1, BlockTellsDelta
<1>7. PICK r, w : r \in Seq(Deltas) /\ r = Append(s, delta) /\ w = <<delta>> /\ r = u.sent \o w
  <2>1. ev.n \in Nat
    BY DEF Event
  <2>2. delta \in Deltas
    BY <1>1, <1>2, <2>1 DEF Deltas, DeltaTypes
  <2>3. s \o <<delta>> = Append(s, delta)
    BY <1>2, <2>2
  <2>4. QED
    BY <1>1, <1>6, <2>3
<1>8. Carries(BlockSays(from, u.open, u.i, u.calls # {}, u.sent), q.evs, BlockSays(from, at, i, b, r))
  BY <1>1, <1>4, <1>6, <1>7
<1>9. v = Sending(u, n, at, i, {}, w)
  BY <1>1, <1>7, Zenon
<1>10. SourceGoes(from, d, u, q, v)
  BY <1>2, <1>3, <1>7, <1>8, <1>9, BlockGoes
<1>11. QED
  BY <1>1, <1>10

LEMMA ResponsesCallDone ==
    ASSUME NEW d, NEW u, SourceOK("openai-responses", d, u), NEW n \in Nat, u.open = "call",
           NEW v, v = Sending(u, n, "done", u.i, {}, <<>>),
           NEW ev \in Event, ev.t = "args_done", ev.i = u.i,
           NEW q, q = DecodeResponses(d, ev)
    PROVE  SourceGoes("openai-responses", d, u, q, v)
<1>1. PICK from, b, then, i, s :
         /\ from = "openai-responses" /\ b = (u.calls # {}) /\ i = u.i /\ s = u.sent /\ then = "done"
  OBVIOUS
<1>2. /\ from \in BlockProtocols /\ b \in BOOLEAN /\ then \in OpenStates /\ i \in Nat /\ s \in Seq(Deltas)
      /\ u \in Backends /\ SourceOK(from, d, u) /\ from # "anthropic"
  BY <1>1 DEF BlockProtocols, Backends, SourceOK, OpenStates
<1>3. /\ s = u.sent \o <<>> /\ {} \in SUBSET Nat /\ IsFiniteSet({}) /\ b = (u.calls # {} \/ {} # {})
  BY <1>1, <1>2, FS_EmptySet
<1>4. q.evs = <<ev>> /\ ev.i = i /\ then \in {"none", "done"}
  BY <1>1 DEF DecodeResponses
<1>5. Carries(BlockSays(from, "call", i, b, s), <<ev>>, BlockSays(from, then, i, b, s))
  BY <1>2, <1>4, BlockCallDone
<1>6. Carries(BlockSays(from, u.open, u.i, u.calls # {}, u.sent), q.evs, BlockSays(from, then, i, b, s))
  BY <1>1, <1>4, <1>5
<1>7. v = Sending(u, n, then, i, {}, <<>>)
  BY <1>1
<1>8. SourceGoes(from, d, u, q, v)
  BY <1>2, <1>3, <1>6, <1>7, BlockGoes
<1>9. QED
  BY <1>1, <1>8

LEMMA ResponsesLast ==
    ASSUME NEW d, NEW u, SourceOK("openai-responses", d, u), NEW n \in Nat,
           NEW then \in {"over", "failed"}, NEW v, v = Sending(u, n, then, u.i, {}, <<>>),
           NEW ev \in Event,
           \/ ev.t \in {"completed", "incomplete"} /\ u.open = "none" /\ then = "over"
           \/ ev.t = "failed" /\ u.open # "over" /\ then = "failed",
           NEW q, q = DecodeResponses(d, ev)
    PROVE  SourceGoes("openai-responses", d, u, q, v)
<1>1. PICK from, b, at, i, s :
         /\ from = "openai-responses" /\ b = (u.calls # {}) /\ at = u.open /\ i = u.i /\ s = u.sent
  OBVIOUS
<1>2. /\ from \in BlockProtocols /\ b \in BOOLEAN /\ at \in OpenStates /\ then \in OpenStates /\ i \in Nat
      /\ s \in Seq(Deltas) /\ u \in Backends /\ SourceOK(from, d, u) /\ from # "anthropic"
  BY <1>1 DEF BlockProtocols, Backends, SourceOK, OpenStates
<1>3. /\ s = u.sent \o <<>> /\ {} \in SUBSET Nat /\ IsFiniteSet({}) /\ b = (u.calls # {} \/ {} # {})
  BY <1>1, <1>2, FS_EmptySet
<1>4. q.evs = <<ev>>
  BY DEF DecodeResponses
<1>5. \/ ev.t \in {"completed", "incomplete"} /\ at = "none" /\ then = "over"
      \/ ev.t = "failed" /\ at # "over" /\ then = "failed"
  BY <1>1
<1>6. Carries(BlockSays("openai-responses", at, i, b, s), <<ev>>,
              BlockSays("openai-responses", then, i, b, s))
  BY <1>2, <1>5, BlockLast
<1>7. Carries(BlockSays(from, u.open, u.i, u.calls # {}, u.sent), q.evs, BlockSays(from, then, i, b, s))
  BY <1>1, <1>4, <1>6
<1>8. v = Sending(u, n, then, i, {}, <<>>)
  BY <1>1
<1>9. SourceGoes(from, d, u, q, v)
  BY <1>2, <1>3, <1>7, <1>8, BlockGoes
<1>10. QED
  BY <1>1, <1>9

LEMMA CallsNamed ==
    ASSUME NEW calls \in Seq([i : Nat, args : BOOLEAN])
    PROVE  {calls[k].i : k \in DOMAIN calls} \in SUBSET Nat /\ IsFiniteSet({calls[k].i : k \in DOMAIN calls})
<1>1. PICK m \in Nat : m = Len(calls)
  OBVIOUS
<1>2. PICK K : K = {calls[k].i : k \in 1..m}
  OBVIOUS
<1>3. DOMAIN calls = 1..m /\ \A k \in 1..m : calls[k].i \in Nat
  <2>1. PICK R : R = [i : Nat, args : BOOLEAN]
    OBVIOUS
  <2>2. calls \in Seq(R)
    BY <2>1
  <2>3. DOMAIN calls = 1..m /\ \A k \in 1..m : calls[k] \in R
    BY <1>1, <2>2
  <2>4. \A x \in R : x.i \in Nat
    BY <2>1
  <2>5. QED
    BY <2>3, <2>4
<1>4. IsFiniteSet(1..m)
  BY FS_Interval
<1>5. PICK f : f = [k \in 1..m |-> calls[k].i]
  OBVIOUS
<1>6. f \in Surjection(1..m, K)
  BY <1>2, <1>5 DEF Surjection
<1>7. IsFiniteSet(K)
  BY <1>4, <1>6, FS_Surjection
<1>8. K \in SUBSET Nat /\ {calls[k].i : k \in DOMAIN calls} = K
  BY <1>2, <1>3
<1>9. QED
  BY <1>7, <1>8

LEMMA ChatGoes ==
    ASSUME NEW d, NEW u, SourceOK("openai", d, u), NEW ch \in Chunk, NEW n \in Nat,
           NEW q, q = DecodeChat(d, ch, n),
           NEW v, v = Sending(u, n, "start", 0, {ch.calls[k].i : k \in DOMAIN ch.calls}, ChatSent(ch, n))
    PROVE  SourceGoes("openai", d, u, q, v)
<1>1. PICK s, w, r, K : /\ s = u.sent /\ w = ChatSent(ch, n) /\ r = s \o w
                        /\ K = {ch.calls[k].i : k \in DOMAIN ch.calls}
  OBVIOUS
<1>2. d \in ChatDecoder /\ s \in Seq(Deltas) /\ u \in Backends /\ d.calls = u.calls
  BY <1>1 DEF SourceOK, Backends
<1>3. r = s \o ChatSent(ch, n)
  BY <1>1
<1>4. ChatLineTold(d, s, q, r, ch)
  BY <1>2, <1>3, ChatDecodes
<1>5. /\ q.d \in ChatDecoder /\ r \in Seq(Deltas)
      /\ Carries(ChatTold(d, s), q.evs, ChatTold(q.d, r))
      /\ q.d.calls = d.calls \cup K
  BY <1>1, <1>4 DEF ChatLineTold
<1>6. K \in SUBSET Nat /\ IsFiniteSet(K)
  <2>1. ch.calls \in Seq([i : Nat, args : BOOLEAN])
    BY DEF Chunk
  <2>2. QED
    BY <1>1, <2>1, CallsNamed
<1>7. PICK at \in OpenStates, i \in Nat : at = "start" /\ i = 0
  BY DEF OpenStates
<1>8. v = Sending(u, n, at, i, K, w)
  BY <1>1, <1>7, Zenon
<1>9. v \in Backends
  <2>1. u.sent \o w \in Seq(Deltas)
    BY <1>1, <1>5, Zenon
  <2>2. Sending(u, n, at, i, K, w) \in Backends
    BY <1>2, <1>6, <2>1, SendingTypes
  <2>3. QED
    BY <1>8, <2>2, Zenon
<1>10. v.open = "start" /\ v.calls = u.calls \cup K /\ v.sent = r
  BY <1>1, <1>7, <1>8 DEF Sending
<1>11. q.d.calls = v.calls
  BY <1>2, <1>5, <1>10
<1>12. SourceOK("openai", q.d, v)
  BY <1>5, <1>9, <1>10, <1>11 DEF SourceOK
<1>13. SourceTold("openai", d, u) = ChatTold(d, s) /\ SourceTold("openai", q.d, v) = ChatTold(q.d, r)
  BY <1>1, <1>10 DEF SourceTold
<1>14. QED
  BY <1>5, <1>12, <1>13 DEF SourceGoes

\* What the backend and its decoder have told, of the fields that matter in the end.
LEMMA ToldOf ==
    ASSUME NEW from \in Protocols, NEW d, NEW u, SourceOK(from, d, u), NEW c, c = SourceTold(from, d, u)
    PROVE  /\ c \in Told /\ c.from = from /\ c.deltas = u.sent
           /\ c.called = (u.calls # {}) /\ c.failed = (u.open = "failed")
           /\ c.ends => from = "openai-responses"
<1>1. u.sent \in Seq(Deltas) /\ u.open \in OpenStates /\ u.i \in Nat /\ u.calls \in SUBSET Nat
  BY DEF SourceOK, Backends
<1>2. CASE from = "openai"
  <2>1. d \in ChatDecoder /\ d.calls = u.calls /\ u.open # "failed"
    BY <1>2 DEF SourceOK
  <2>2. d.text \in BOOLEAN /\ d.reasoning \in BOOLEAN /\ d.calls \in SUBSET Nat
    BY <2>1 DEF ChatDecoder
  <2>3. c = ChatSays(d.text, d.reasoning, d.calls, u.sent)
    BY <1>2, Zenon DEF SourceTold, ChatTold
  <2>4. c \in Told
    BY <1>1, <2>2, <2>3, SaysTypes, Zenon
  <2>5. /\ c.from = "openai" /\ c.deltas = u.sent /\ c.called = (d.calls # {}) /\ c.failed = FALSE
        /\ c.ends = FALSE
    BY <2>3 DEF ChatSays
  <2>6. QED
    BY <1>2, <2>1, <2>4, <2>5
<1>3. CASE from # "openai"
  <2>1. PICK b \in BOOLEAN : b = (u.calls # {})
    OBVIOUS
  <2>2. from \in BlockProtocols
    BY <1>3 DEF BlockProtocols, Protocols
  <2>3. c = BlockSays(from, u.open, u.i, b, u.sent)
    BY <1>3, <2>1, Zenon DEF SourceTold
  <2>4. c \in Told
    BY <1>1, <2>2, <2>3, BlockTypes, Zenon
  <2>5. PICK at, i, s : at = u.open /\ i = u.i /\ s = u.sent
    OBVIOUS
  <2>6. c = BlockSays(from, at, i, b, s)
    BY <2>3, <2>5
  <2>7. /\ c.from = from /\ c.deltas = s /\ c.called = b /\ c.failed = (at = "failed")
        /\ c.ends = (from = "openai-responses" /\ at \in {"over", "failed"})
    <3>1. /\ c.from = from /\ c.deltas = s /\ c.called = b /\ c.failed = (at = "failed")
      BY <2>6 DEF BlockSays
    <3>2. PICK x, y, z, K, f :
             /\ x = (from = "openai-responses" /\ at \in {"over", "failed"})
             /\ y = (at = "text") /\ z = (at = "thinking") /\ f = (at = "failed")
             /\ K = IF at = "call" THEN {i} ELSE {}
      OBVIOUS
    <3>3. c = [from |-> from, text |-> y, thinking |-> z, calls |-> K, called |-> b, failed |-> f,
               ends |-> x, deltas |-> s]
      BY <2>6, <3>2, Zenon DEF BlockSays
    <3>4. c.ends = x
      BY <3>3
    <3>5. QED
      BY <3>1, <3>2, <3>4
  <2>8. QED
    BY <2>1, <2>4, <2>5, <2>7
<1>4. QED
  BY <1>2, <1>3

\* A stream between two protocols: the client has what the backend has told.
Streaming(from, to, d, u, p) ==
    /\ from \in Protocols /\ to \in Protocols /\ from # to
    /\ SourceOK(from, d, u)
    /\ Sinks(to, p, SourceTold(from, d, u))

LEMMA SinkPair ==
    ASSUME NEW to, NEW p, NEW c, Sinks(to, p, c)
    PROVE  p = [e |-> p.e, out |-> p.out]
<1>1. CASE to = "anthropic"
  <2>1. p \in AnthropicPair
    BY <1>1 DEF Sinks, AnthropicKeeps, AnthropicOK
  <2>2. QED
    BY <2>1 DEF AnthropicPair
<1>2. CASE to = "openai"
  <2>1. p \in ChatPair
    BY <1>2 DEF Sinks, ChatKeeps
  <2>2. QED
    BY <2>1 DEF ChatPair
<1>3. CASE to = "openai-responses"
  <2>1. p \in [e : {<<>>}, out : Seq(Event)]
    BY <1>3 DEF Sinks, ResponsesKeeps
  <2>2. QED
    BY <2>1
<1>4. QED
  BY <1>1, <1>2, <1>3 DEF Sinks

LEMMA LineStep ==
    ASSUME NEW from, NEW to, NEW d, NEW u, NEW p, Streaming(from, to, d, u, p),
           NEW q, NEW v, SourceGoes(from, d, u, q, v), NEW r, r = Encode(to, p, q.evs)
    PROVE  Streaming(from, to, q.d, v, [e |-> r.e, out |-> r.out])
<1>1. PICK c, e : c = SourceTold(from, d, u) /\ e = SourceTold(from, q.d, v)
  OBVIOUS
<1>2. /\ from \in Protocols /\ to \in Protocols /\ from # to /\ SourceOK(from, d, u)
      /\ Sinks(to, p, c)
  BY <1>1 DEF Streaming
<1>3. c.from = from
  BY <1>1, <1>2, ToldOf
<1>4. SourceOK(from, q.d, v) /\ Carries(c, q.evs, e)
  BY <1>1 DEF SourceGoes
<1>5. to # c.from
  BY <1>2, <1>3
<1>6. PICK evs : evs = q.evs
  OBVIOUS
<1>7. Carries(c, evs, e) /\ r = Encode(to, p, evs)
  BY <1>4, <1>6
<1>8. Sinks(to, r, e)
  BY <1>2, <1>5, <1>7, EncodeStep
<1>9. r = [e |-> r.e, out |-> r.out]
  BY <1>8, SinkPair
<1>10. QED
  BY <1>1, <1>2, <1>4, <1>8, <1>9, Zenon DEF Streaming

\* The events that the decoder of a backend flushes, in any order of its calls.
FlushedBy(from, d, evs) ==
    \/ from = "openai" /\ \E order \in SetToSeqs(d.calls) : evs = FlushChat(d, order)
    \/ from = "anthropic" /\ evs = FlushAnthropic(d)
    \/ from = "openai-responses" /\ evs = <<>>

\* What a stream's end leaves the client with.
EndedAs(s, to, u, failed) ==
    \E e : /\ Ended(s, to, e) /\ e.deltas = u.sent /\ e.failed = failed
           /\ ~failed => e.called = (u.calls # {})

LEMMA FlushStep ==
    ASSUME NEW from, NEW to, NEW d, NEW u, NEW p, Streaming(from, to, d, u, p),
           NEW evs, FlushedBy(from, d, evs), NEW r, r = Encode(to, p, evs), NEW q, q = Close(to, r)
    PROVE  EndedAs(q.out, to, u, u.open = "failed")
<1>1. PICK c : c = SourceTold(from, d, u)
  OBVIOUS
<1>2. /\ from \in Protocols /\ to \in Protocols /\ from # to /\ SourceOK(from, d, u)
      /\ Sinks(to, p, c)
  BY <1>1 DEF Streaming
<1>3. /\ c \in Told /\ c.from = from /\ c.deltas = u.sent
      /\ c.called = (u.calls # {}) /\ c.failed = (u.open = "failed")
  <2>1. SourceOK(from, d, u) /\ from \in Protocols
    BY <1>2
  <2>2. QED
    BY <1>1, <2>1, ToldOf
<1>4. \E e : Carries(c, evs, e) /\ SameStory(c, e) /\ (to = "openai-responses" => e.ends)
  <2>1. CASE from = "openai"
    <3>1. PICK order \in SetToSeqs(d.calls) : evs = FlushChat(d, order)
      BY <2>1 DEF FlushedBy
    <3>2. d \in ChatDecoder /\ IsFiniteSet(d.calls)
      BY <1>2, <2>1 DEF SourceOK, Backends
    <3>3. PICK s \in Seq(Deltas) : s = u.sent
      BY <1>2 DEF SourceOK, Backends
    <3>4. c = ChatTold(d, s)
      BY <1>1, <2>1, <3>3 DEF SourceTold
    <3>5. PICK e : Carries(c, FlushChat(d, order), e) /\ SameStory(c, e) /\ e.ends
      BY <3>2, <3>4, ChatFlushes
    <3>6. QED
      BY <3>1, <3>5
  <2>2. CASE from = "anthropic"
    <3>1. PICK at \in OpenStates, i \in Nat, s \in Seq(Deltas), b \in BOOLEAN :
             at = u.open /\ i = u.i /\ s = u.sent /\ b = (u.calls # {})
      BY <1>2 DEF SourceOK, Backends
    <3>2. at # "failed"
      BY <1>2, <2>2, <3>1 DEF SourceOK
    <3>3. c = BlockSays("anthropic", at, i, b, s)
      BY <1>1, <2>2, <3>1, Zenon DEF SourceTold
    <3>4. PICK e : Carries(c, FlushAnthropic(d), e) /\ SameStory(c, e) /\ e.ends
      BY <3>2, <3>3, AnthropicFlushes
    <3>5. evs = FlushAnthropic(d)
      BY <2>2 DEF FlushedBy
    <3>6. QED
      BY <3>4, <3>5
  <2>3. CASE from = "openai-responses"
    <3>1. evs = <<>>
      BY <2>3 DEF FlushedBy
    <3>2. Carries(c, evs, c) /\ SameStory(c, c) /\ to # "openai-responses"
      BY <1>2, <1>3, <2>3, <3>1, CarriesNone DEF SameStory
    <3>3. QED
      BY <3>2
  <2>4. QED
    BY <1>2, <2>1, <2>2, <2>3 DEF Protocols
<1>5. PICK e : Carries(c, evs, e) /\ SameStory(c, e) /\ (to = "openai-responses" => e.ends)
  BY <1>4
<1>6. to # c.from
  BY <1>2, <1>3
<1>7. Sinks(to, r, e)
  BY <1>2, <1>5, <1>6, EncodeStep
<1>8. Ended(q.out, to, e)
  BY <1>5, <1>7, CloseStep
<1>9. e.deltas = u.sent /\ e.called = (u.calls # {}) /\ e.failed = (u.open = "failed")
  BY <1>3, <1>5 DEF SameStory
<1>10. QED
  BY <1>8, <1>9 DEF EndedAs

LEMMA BreakStep ==
    ASSUME NEW from, NEW to, NEW d, NEW u, NEW p, Streaming(from, to, d, u, p),
           NEW evs, evs = <<Plain("failed")>>,
           NEW r, r = Encode(to, p, evs), NEW q, q = Close(to, r)
    PROVE  EndedAs(q.out, to, u, TRUE)
<1>1. PICK c : c = SourceTold(from, d, u)
  OBVIOUS
<1>2. /\ from \in Protocols /\ to \in Protocols /\ from # to /\ SourceOK(from, d, u)
      /\ Sinks(to, p, c)
  BY <1>1 DEF Streaming
<1>3. c \in Told /\ c.from = from /\ c.deltas = u.sent /\ (c.ends => c.from = "openai-responses")
  <2>1. SourceOK(from, d, u) /\ from \in Protocols
    BY <1>2
  <2>2. QED
    BY <1>1, <2>1, ToldOf
<1>4. PICK e : /\ Carries(c, <<Plain("failed")>>, e) /\ e.from = c.from
               /\ e.deltas = c.deltas /\ e.failed /\ e.ends
  BY <1>3, CarriesFailure
<1>5. e \in Told
  BY <1>4, CarriesTypes
<1>6. e.failed = TRUE /\ Carries(c, evs, e)
  BY <1>4, <1>5 DEF Told
<1>7. to # c.from
  BY <1>2, <1>3
<1>8. Sinks(to, r, e)
  BY <1>2, <1>6, <1>7, EncodeStep
<1>9. Ended(q.out, to, e)
  BY <1>4, <1>8, CloseStep
<1>10. QED
  BY <1>3, <1>4, <1>6, <1>9 DEF EndedAs
=============================================================================
