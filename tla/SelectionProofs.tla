--------------------------- MODULE SelectionProofs ----------------------------
(* Induction over the natural numbers as facts about sets, and what Selected  *)
(* gives for any sequence and any places.                                     *)
EXTENDS Selection, WellFoundedInduction, TLAPS

(* A set of numbers that is not empty has a least element.                    *)
LEMMA Least ==
  ASSUME NEW T, T \subseteq Nat, T # {}
  PROVE  \E n \in T : \A m \in T : n <= m
<1>1. PICK n \in T : \A m \in T : <<m, n>> \notin OpToRel(<, Nat)
  BY NatLessThanWellFounded, WFMin
<1>2. \A m \in T : ~(m < n)
  BY <1>1 DEF OpToRel
<1>3. QED
  BY <1>2

(* Induction: what holds for 0 and with n for n + 1 holds for every number.   *)
LEMMA Induction ==
  ASSUME NEW T, 0 \in T, \A n \in Nat : n \in T => n + 1 \in T
  PROVE  Nat \subseteq T
<1>1. SUFFICES ASSUME Nat \ T # {} PROVE FALSE
  OBVIOUS
<1>2. PICK n \in Nat \ T : \A m \in Nat \ T : n <= m
  BY <1>1, Least
<1>3. n # 0 /\ n - 1 \in Nat /\ n - 1 \in T
  BY <1>2
<1>4. QED
  BY <1>2, <1>3

(* A function that is defined step by step exists.                            *)
IsStepwise(f, N, S, start, step) ==
  f \in [0..N -> S] /\ f[0] = start /\ \A n \in 1..N : f[n] = step[n][f[n - 1]]

LEMMA Stepwise ==
  ASSUME NEW N \in Nat, NEW S, NEW start \in S, NEW step \in [1..N -> [S -> S]]
  PROVE  \E f : IsStepwise(f, N, S, start, step)
<1> DEFINE Good(f, m) == /\ f \in [0..m -> S]
                         /\ f[0] = start /\ \A n \in 1..m : f[n] = step[n][f[n - 1]]
           T == {m \in Nat : m <= N => \E f : Good(f, m)}
<1>1. 0 \in T
  <2>1. Good([k \in 0..0 |-> start], 0)
    OBVIOUS
  <2>2. QED
    BY <2>1
<1>2. ASSUME NEW m \in Nat, m \in T
      PROVE  m + 1 \in T
  <2>1. SUFFICES ASSUME m + 1 <= N
                 PROVE  \E f : Good(f, m + 1)
    OBVIOUS
  <2>2. PICK f : Good(f, m)
    BY <1>2, <2>1
  <2> DEFINE g == [k \in 0..m+1 |-> IF k = m + 1 THEN step[m + 1][f[m]] ELSE f[k]]
  <2>3. f[m] \in S /\ m + 1 \in 1..N /\ step[m + 1][f[m]] \in S
    BY <2>1, <2>2
  <2>4. g \in [0..m+1 -> S]
    BY <2>2, <2>3
  <2>5. g[0] = start /\ \A k \in 0..m : g[k] = f[k]
    BY <2>2
  <2>6. ASSUME NEW n \in 1..m+1
        PROVE  g[n] = step[n][g[n - 1]]
    <3>1. CASE n = m + 1
      BY <2>5, <3>1
    <3>2. CASE n \in 1..m
      BY <2>2, <2>5, <3>2
    <3>3. QED
      BY <3>1, <3>2
  <2>7. QED
    BY <2>4, <2>5, <2>6
<1>3. N \in T
  BY <1>1, <1>2, Induction
<1>4. QED
  BY <1>3 DEF IsStepwise

(* SelectedUpTo is what its definition says.                                  *)
LEMMA SelectedStep ==
  ASSUME NEW E, NEW s \in Seq(E), NEW P
  PROVE  /\ SelectedUpTo(s, P)[0] = <<>>
         /\ \A n \in 1..Len(s) :
              SelectedUpTo(s, P)[n] =
                IF n \in P THEN Append(SelectedUpTo(s, P)[n - 1], s[n])
                ELSE SelectedUpTo(s, P)[n - 1]
         /\ SelectedUpTo(s, P) \in [0..Len(s) -> Seq(E)]
<1> DEFINE N == Len(s)
           S == Seq(E)
           start == <<>>
           step == [n \in 1..N |-> [t \in S |-> IF n \in P THEN Append(t, s[n]) ELSE t]]
           Def(f) == [n \in 0..N |->
                        IF n = 0 THEN <<>>
                        ELSE IF n \in P THEN Append(f[n - 1], s[n]) ELSE f[n - 1]]
<1>1. N \in Nat /\ start \in S
  OBVIOUS
<1>2. ASSUME NEW n \in 1..N, NEW t \in S
      PROVE  (IF n \in P THEN Append(t, s[n]) ELSE t) \in S
  BY s[n] \in E
<1>3. step \in [1..N -> [S -> S]]
  BY <1>2
<1>4. \A n \in 1..N, t \in S : step[n][t] = IF n \in P THEN Append(t, s[n]) ELSE t
  OBVIOUS
<1> HIDE DEF step, S, start, N
<1>5. PICK f \in [0..N -> S] : f[0] = start /\ \A n \in 1..N : f[n] = step[n][f[n - 1]]
  <2>1. \E f : IsStepwise(f, N, S, start, step)
    BY <1>1, <1>3, Stepwise
  <2>2. QED
    BY <2>1 DEF IsStepwise
<1>6. ASSUME NEW n \in 1..N
      PROVE  f[n] = IF n \in P THEN Append(f[n - 1], s[n]) ELSE f[n - 1]
  <2>1. n - 1 \in 0..N /\ f[n - 1] \in S
    BY <1>1
  <2>2. QED
    BY <1>4, <1>5, <2>1
<1>7. f = Def(f)
  <2>1. \A n \in 0..N : f[n] = Def(f)[n]
    <3>1. ASSUME NEW n \in 0..N
          PROVE  f[n] = Def(f)[n]
      <4>1. CASE n = 0
        BY <1>5, <4>1 DEF start
      <4>2. CASE n # 0
        <5>1. n \in 1..N
          BY <1>1, <4>2
        <5>2. QED
          BY <1>6, <4>2, <5>1
      <4>3. QED
        BY <4>1, <4>2
    <3>2. QED
      BY <3>1
  <2>2. f = [n \in 0..N |-> f[n]]
    BY <1>5
  <2>3. QED
    BY <2>1, <2>2
<1> DEFINE g == SelectedUpTo(s, P)
<1>8. g = CHOOSE h : h = Def(h)
  BY Zenon DEF SelectedUpTo, N
<1> HIDE DEF g
<1>9. g = Def(g)
  <2> HIDE DEF Def
  <2>1. QED
    BY <1>7, <1>8, Zenon
<1>10. /\ g[0] = <<>>
       /\ \A n \in 1..N : g[n] = IF n \in P THEN Append(g[n - 1], s[n]) ELSE g[n - 1]
       /\ DOMAIN g = 0..N
  <2> DEFINE d == Def(g)
  <2>1. /\ d[0] = <<>>
        /\ \A n \in 1..N : d[n] = IF n \in P THEN Append(g[n - 1], s[n]) ELSE g[n - 1]
        /\ DOMAIN d = 0..N
    BY <1>1
  <2> HIDE DEF d
  <2>2. g = d
    BY <1>9 DEF d
  <2>3. QED
    BY <2>1, <2>2
<1>11. \A n \in 0..N : g[n] \in S
  <2> DEFINE T == {n \in Nat : n <= N => g[n] \in S}
  <2>1. 0 \in T
    BY <1>1, <1>10 DEF start
  <2>2. ASSUME NEW n \in Nat, n \in T
        PROVE  n + 1 \in T
    <3>1. SUFFICES ASSUME n + 1 <= N PROVE g[n + 1] \in S
      OBVIOUS
    <3>2. n + 1 \in 1..N /\ g[n] \in S /\ (n + 1) - 1 = n
      BY <1>1, <2>2, <3>1
    <3>3. g[n + 1] = IF n + 1 \in P THEN Append(g[n], s[n + 1]) ELSE g[n]
      BY <1>10, <3>2
    <3>4. QED
      BY <1>2, <3>2, <3>3
  <2> HIDE DEF T
  <2>3. Nat \subseteq T
    BY <2>1, <2>2, Induction
  <2>4. QED
    BY <1>1, <2>3 DEF T
<1>12. g = [n \in 0..N |-> g[n]]
  BY <1>9
<1>13. QED
  BY <1>10, <1>11, <1>12 DEF g, N, S

LEMMA SelectedStart ==
  ASSUME NEW E, NEW s \in Seq(E), NEW P
  PROVE  SelectedUpTo(s, P)[0] = <<>>
BY SelectedStep

(* It depends only on the elements and places that it has looked at.          *)
SameUpTo(s, P, t, Q, m) == \A n \in 1..m : s[n] = t[n] /\ (n \in P <=> n \in Q)

LEMMA SelectedAgrees ==
  ASSUME NEW E, NEW s \in Seq(E), NEW t \in Seq(E), NEW P, NEW Q, NEW m \in Nat,
         m <= Len(s), m <= Len(t),
         SameUpTo(s, P, t, Q, m)
  PROVE  SelectedUpTo(s, P)[m] = SelectedUpTo(t, Q)[m]
<1> DEFINE f == SelectedUpTo(s, P)
           g == SelectedUpTo(t, Q)
           T == {n \in Nat : n <= m => f[n] = g[n]}
<1>1. Len(s) \in Nat /\ Len(t) \in Nat
  OBVIOUS
<1>2. 0 \in T
  BY SelectedStep
<1>3. ASSUME NEW n \in Nat, n \in T
      PROVE  n + 1 \in T
  <2>1. SUFFICES ASSUME n + 1 <= m PROVE f[n + 1] = g[n + 1]
    OBVIOUS
  <2>2. /\ n + 1 \in 1..m /\ n + 1 \in 1..Len(s) /\ n + 1 \in 1..Len(t)
        /\ f[n] = g[n] /\ (n + 1) - 1 = n
    BY <1>1, <1>3, <2>1
  <2> HIDE DEF T
  <2>3. f[n + 1] = IF n + 1 \in P THEN Append(f[n], s[n + 1]) ELSE f[n]
    BY <2>2, SelectedStep
  <2>4. g[n + 1] = IF n + 1 \in Q THEN Append(g[n], t[n + 1]) ELSE g[n]
    BY <2>2, SelectedStep
  <2> HIDE DEF f, g
  <2>5. QED
    BY <2>2, <2>3, <2>4 DEF SameUpTo
<1> HIDE DEF T
<1>4. Nat \subseteq T
  BY <1>2, <1>3, Induction
<1>5. QED
  BY <1>4 DEF T

(* What is selected are elements of the sequence.                             *)
LEMMA SelectedType ==
  ASSUME NEW E, NEW s \in Seq(E), NEW P
  PROVE  Selected(s, P) \in Seq(E)
<1>1. Len(s) \in Nat /\ Len(s) \in 0..Len(s)
  OBVIOUS
<1>2. QED
  BY <1>1, SelectedStep DEF Selected

(* Nothing is selected from the empty sequence.                               *)
LEMMA SelectedEmpty ==
  ASSUME NEW P
  PROVE  Selected(<<>>, P) = <<>>
<1>1. <<>> \in Seq({}) /\ Len(<<>>) = 0
  OBVIOUS
<1> DEFINE empty == <<>>
<1> HIDE DEF empty
<1>2. empty \in Seq({}) /\ Len(empty) = 0
  BY <1>1 DEF empty
<1>3. SelectedUpTo(empty, P)[0] = <<>>
  BY <1>2, SelectedStart
<1>4. QED
  BY <1>2, <1>3 DEF Selected, empty

(* The selection from two sequences that agree in what is selected.           *)
LEMMA SelectedSame ==
  ASSUME NEW E, NEW s \in Seq(E), NEW t \in Seq(E), NEW P, NEW Q,
         Len(s) = Len(t), \A n \in 1..Len(s) : s[n] = t[n] /\ (n \in P <=> n \in Q)
  PROVE  Selected(s, P) = Selected(t, Q)
<1> DEFINE m == Len(s)
<1>1. m \in Nat /\ m <= Len(s) /\ m <= Len(t) /\ Len(t) = m
  OBVIOUS
<1>2. SameUpTo(s, P, t, Q, m)
  BY DEF SameUpTo
<1> HIDE DEF m
<1>3. SelectedUpTo(s, P)[m] = SelectedUpTo(t, Q)[m]
  BY <1>1, <1>2, SelectedAgrees
<1>4. QED
  BY <1>1, <1>3 DEF Selected, m

(* A new last element is selected or not, what was before stays as it was.    *)
LEMMA SelectedAppend ==
  ASSUME NEW E, NEW s \in Seq(E), NEW e \in E, NEW P, NEW Q,
         \A n \in 1..Len(s) : n \in P <=> n \in Q
  PROVE  Selected(Append(s, e), Q) =
           IF Len(s) + 1 \in Q THEN Append(Selected(s, P), e) ELSE Selected(s, P)
<1> DEFINE t == Append(s, e)
           n == Len(s)
<1>1. /\ n \in Nat /\ t \in Seq(E) /\ Len(t) = n + 1 /\ t[n + 1] = e
      /\ \A k \in 1..n : t[k] = s[k]
  OBVIOUS
<1> HIDE DEF t
<1>2. SelectedUpTo(t, Q)[n] = SelectedUpTo(s, P)[n]
  <2>1. SameUpTo(t, Q, s, P, n)
    BY <1>1 DEF SameUpTo
  <2>2. QED
    BY <1>1, <2>1, SelectedAgrees
<1>3. SelectedUpTo(t, Q)[n + 1] =
        IF n + 1 \in Q THEN Append(SelectedUpTo(t, Q)[n], e) ELSE SelectedUpTo(t, Q)[n]
  <2>1. n + 1 \in 1..Len(t) /\ (n + 1) - 1 = n
    BY <1>1
  <2>2. QED
    BY <1>1, <2>1, SelectedStep
<1>4. QED
  BY <1>1, <1>2, <1>3 DEF Selected, t

(* Where the elements selected from the first m come from: every place asked  *)
(* for, each once and in their order.                                         *)
Enumerates(pos, s, P, m) ==
  LET chosen == SelectedUpTo(s, P)[m]
  IN /\ pos \in [1..Len(chosen) -> P \cap 1..m]
     /\ \A j, k \in 1..Len(chosen) : j < k => pos[j] < pos[k]
     /\ \A n \in P \cap 1..m : \E k \in 1..Len(chosen) : pos[k] = n
     /\ \A k \in 1..Len(chosen) : chosen[k] = s[pos[k]]

LEMMA SelectedUpToPlaces ==
  ASSUME NEW E, NEW s \in Seq(E), NEW P, NEW m \in 0..Len(s)
  PROVE  \E pos : Enumerates(pos, s, P, m)
<1> DEFINE f == SelectedUpTo(s, P)
           T == {n \in Nat : n <= Len(s) => \E pos : Enumerates(pos, s, P, n)}
<1>1. Len(s) \in Nat /\ f \in [0..Len(s) -> Seq(E)] /\ f[0] = <<>>
  BY SelectedStep
<1>2. 0 \in T
  <2> DEFINE pos == [k \in 1..0 |-> 0]
  <2>1. Enumerates(pos, s, P, 0)
    BY <1>1 DEF Enumerates
  <2>2. QED
    BY <2>1
<1>3. ASSUME NEW n \in Nat, n \in T
      PROVE  n + 1 \in T
  <2>1. SUFFICES ASSUME n + 1 <= Len(s)
                 PROVE  \E pos : Enumerates(pos, s, P, n + 1)
    OBVIOUS
  <2>2. PICK pos : Enumerates(pos, s, P, n)
    BY <1>1, <1>3, <2>1
  <2> HIDE DEF T
  <2> DEFINE N == Len(f[n])
  <2>3. /\ n \in 0..Len(s) /\ n + 1 \in 1..Len(s) /\ (n + 1) - 1 = n
        /\ f[n] \in Seq(E) /\ N \in Nat /\ s[n + 1] \in E
    <3>1. n \in 0..Len(s) /\ n + 1 \in 1..Len(s) /\ (n + 1) - 1 = n
      BY <1>1, <2>1
    <3>2. f[n] \in Seq(E)
      BY <1>1, <3>1
    <3> HIDE DEF f
    <3>3. Len(f[n]) \in Nat
      BY <3>2
    <3>4. s[n + 1] \in E
      BY <3>1
    <3>5. QED
      BY <3>1, <3>2, <3>3, <3>4
  <2>4. f[n + 1] = IF n + 1 \in P THEN Append(f[n], s[n + 1]) ELSE f[n]
    BY <2>3, SelectedStep
  <2>5. /\ pos \in [1..N -> P \cap 1..n]
        /\ \A j, k \in 1..N : j < k => pos[j] < pos[k]
        /\ \A i \in P \cap 1..n : \E k \in 1..N : pos[k] = i
        /\ \A k \in 1..N : f[n][k] = s[pos[k]]
    BY <2>2 DEF Enumerates
  <2>6. CASE n + 1 \notin P
    <3>1. f[n + 1] = f[n] /\ P \cap 1..n+1 = P \cap 1..n
      BY <2>3, <2>4, <2>6
    <3> HIDE DEF f
    <3>2. Enumerates(pos, s, P, n + 1)
      BY <2>5, <3>1 DEF Enumerates, f
    <3>3. QED
      BY <3>2
  <2>7. CASE n + 1 \in P
    <3> DEFINE q == [k \in 1..N+1 |-> IF k = N + 1 THEN n + 1 ELSE pos[k]]
    <3>1. /\ f[n + 1] = Append(f[n], s[n + 1]) /\ Len(f[n + 1]) = N + 1
          /\ f[n + 1][N + 1] = s[n + 1] /\ \A k \in 1..N : f[n + 1][k] = f[n][k]
      BY <2>3, <2>4, <2>7
    <3> HIDE DEF f, N
    <3>2. q \in [1..N+1 -> P \cap 1..n+1]
      BY <2>3, <2>5, <2>7
    <3>3. q[N + 1] = n + 1 /\ \A k \in 1..N : q[k] = pos[k] /\ pos[k] \in P \cap 1..n
      BY <2>3, <2>5
    <3> HIDE DEF q
    <3>4. \A j, k \in 1..N+1 : j < k => q[j] < q[k]
      <4>1. SUFFICES ASSUME NEW j \in 1..N+1, NEW k \in 1..N+1, j < k
                     PROVE  q[j] < q[k]
        OBVIOUS
      <4>2. j \in 1..N /\ q[j] = pos[j] /\ pos[j] \in 1..n
        BY <2>3, <3>3, <4>1
      <4>3. CASE k = N + 1
        BY <2>3, <3>3, <4>2, <4>3
      <4>4. CASE k \in 1..N
        BY <2>5, <3>3, <4>1, <4>2, <4>4
      <4>5. QED
        BY <2>3, <4>3, <4>4
    <3>5. \A i \in P \cap 1..n+1 : \E k \in 1..N+1 : q[k] = i
      <4>1. SUFFICES ASSUME NEW i \in P \cap 1..n+1
                     PROVE  \E k \in 1..N+1 : q[k] = i
        OBVIOUS
      <4>2. CASE i = n + 1
        BY <2>3, <3>3, <4>2
      <4>3. CASE i \in P \cap 1..n
        <5>1. PICK k \in 1..N : pos[k] = i
          BY <2>5, <4>3
        <5>2. k \in 1..N+1 /\ q[k] = i
          BY <2>3, <3>3, <5>1
        <5>3. QED
          BY <5>2
      <4>4. QED
        BY <2>3, <4>2, <4>3
    <3>6. \A k \in 1..N+1 : f[n + 1][k] = s[q[k]]
      BY <2>3, <2>5, <3>1, <3>3, SMTT(20)
    <3>7. Enumerates(q, s, P, n + 1)
      BY <3>1, <3>2, <3>4, <3>5, <3>6 DEF Enumerates, f
    <3>8. QED
      BY <3>7
  <2>8. QED
    BY <2>6, <2>7
<1> HIDE DEF T
<1>4. Nat \subseteq T
  BY <1>2, <1>3, Induction
<1>5. QED
  BY <1>1, <1>4 DEF T

LEMMA SelectedPlaces ==
  ASSUME NEW E, NEW s \in Seq(E), NEW P
  PROVE  LET chosen == Selected(s, P)
         IN \E pos \in [1..Len(chosen) -> P \cap 1..Len(s)] :
              /\ \A j, k \in 1..Len(chosen) : j < k => pos[j] < pos[k]
              /\ \A n \in P \cap 1..Len(s) : \E k \in 1..Len(chosen) : pos[k] = n
              /\ \A k \in 1..Len(chosen) : chosen[k] = s[pos[k]]
<1>1. PICK pos : Enumerates(pos, s, P, Len(s))
  BY Len(s) \in 0..Len(s), SelectedUpToPlaces
<1>2. QED
  BY <1>1 DEF Enumerates, Selected

(* Nothing is selected at no place.                                           *)
LEMMA SelectedNone ==
  ASSUME NEW E, NEW s \in Seq(E), NEW P, P \cap 1..Len(s) = {}
  PROVE  Selected(s, P) = <<>>
<1> DEFINE chosen == Selected(s, P)
<1>1. chosen \in Seq(E)
  BY SelectedType
<1>2. PICK pos \in [1..Len(chosen) -> P \cap 1..Len(s)] : TRUE
  BY SelectedPlaces
<1> HIDE DEF chosen
<1>3. Len(chosen) = 0
  BY <1>1, <1>2
<1>4. QED
  BY <1>1, <1>3 DEF chosen

(* What the last place adds.                                                  *)
LEMMA SelectedLast ==
  ASSUME NEW E, NEW s \in Seq(E), s # <<>>, NEW P, NEW Q,
         SameUpTo(s, P, s, Q, Len(s) - 1), Len(s) \notin P
  PROVE  Selected(s, Q) =
           IF Len(s) \in Q THEN Append(Selected(s, P), s[Len(s)]) ELSE Selected(s, P)
<1> DEFINE n == Len(s)
<1>1. n \in Nat /\ n \in 1..n /\ n - 1 \in Nat /\ n - 1 <= n
  OBVIOUS
<1>2. SelectedUpTo(s, P)[n - 1] = SelectedUpTo(s, Q)[n - 1]
  BY <1>1, SelectedAgrees
<1>3. /\ SelectedUpTo(s, P)[n] = SelectedUpTo(s, P)[n - 1]
      /\ SelectedUpTo(s, Q)[n] =
           IF n \in Q THEN Append(SelectedUpTo(s, Q)[n - 1], s[n]) ELSE SelectedUpTo(s, Q)[n - 1]
  BY <1>1, SelectedStep
<1>4. QED
  BY <1>2, <1>3 DEF Selected

(* Of sequences that each continue the one before, the last continues all.    *)
Continues(t, s) == Len(s) <= Len(t) /\ \A x \in 1..Len(s) : t[x] = s[x]

LEMMA LastContinues ==
  ASSUME NEW E, NEW N \in Nat, NEW f \in [0..N -> Seq(E)],
         \A m \in 1..N : Continues(f[m], f[m - 1]), NEW n \in 0..N
  PROVE  Continues(f[N], f[n])
<1> DEFINE T == {d \in Nat : n + d <= N => Continues(f[n + d], f[n])}
<1>1. \A m \in 0..N : f[m] \in Seq(E) /\ Len(f[m]) \in Nat
  <2>1. \A m \in 0..N : f[m] \in Seq(E)
    OBVIOUS
  <2>2. QED
    BY <2>1
<1>2. 0 \in T
  BY <1>1 DEF Continues
<1>3. ASSUME NEW d \in Nat, d \in T
      PROVE  d + 1 \in T
  <2>1. SUFFICES ASSUME n + (d + 1) <= N PROVE Continues(f[n + (d + 1)], f[n])
    OBVIOUS
  <2> DEFINE m == n + (d + 1)
  <2>2. m \in 1..N /\ m - 1 = n + d /\ m - 1 \in 0..N
    BY <2>1
  <2>3. Continues(f[m - 1], f[n]) /\ Continues(f[m], f[m - 1])
    BY <1>3, <2>2
  <2> HIDE DEF m
  <2>4. QED
    BY <1>1, <2>2, <2>3 DEF Continues, m
<1>4. Nat \subseteq T
  <2> HIDE DEF T
  <2> QED
    BY <1>2, <1>3, Induction
<1>5. N - n \in T /\ n + (N - n) = N
  <2>1. N - n \in Nat /\ n + (N - n) = N
    OBVIOUS
  <2> HIDE DEF T
  <2>2. QED
    BY <1>4, <2>1
<1>6. QED
  BY <1>5

LEMMA SelectedPrefix ==
  ASSUME NEW E, NEW s \in Seq(E), NEW P, NEW n \in 0..Len(s)
  PROVE  Continues(Selected(s, P), SelectedUpTo(s, P)[n])
<1> DEFINE up == SelectedUpTo(s, P)
<1>1. /\ up \in [0..Len(s) -> Seq(E)] /\ Len(s) \in Nat
      /\ \A m \in 1..Len(s) : up[m] = IF m \in P THEN Append(up[m - 1], s[m]) ELSE up[m - 1]
  BY SelectedStep
<1> HIDE DEF up
<1>2. ASSUME NEW m \in 1..Len(s) PROVE Continues(up[m], up[m - 1])
  <2> DEFINE old == up[m - 1]
  <2>1. m - 1 \in 0..Len(s) /\ s[m] \in E /\ old \in Seq(E)
    <3>1. m - 1 \in 0..Len(s)
      BY <1>1
    <3>2. s[m] \in E
      OBVIOUS
    <3>3. up[m - 1] \in Seq(E)
      BY <1>1, <3>1
    <3>4. QED
      BY <3>1, <3>2, <3>3
  <2>2. up[m] = Append(old, s[m]) \/ up[m] = old
    BY <1>1
  <2> HIDE DEF old
  <2>3. Continues(Append(old, s[m]), old) /\ Continues(old, old)
    BY <2>1 DEF Continues
  <2>4. QED
    BY <2>2, <2>3 DEF old
<1>3. QED
  BY <1>1, <1>2, LastContinues DEF up, Selected
==============================================================================
