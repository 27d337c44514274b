------------------------ MODULE InterpretationProofs ------------------------
(***************************************************************************)
(* Proofs about Interpretation, whatever the lines, the calls, the amounts *)
(* and the decimals, and however many: what is said is about the item it   *)
(* stands behind, an amount is said exactly, and Bitcoin figures are given *)
(* exactly where they should be.                                           *)
(*                                                                         *)
(* The induction these need is over numbers: it goes by the least number   *)
(* that is in a set, which the natural numbers being well-founded gives.   *)
(***************************************************************************)
EXTENDS Interpretation, BitcoinReadingProofs, WellFoundedInduction

-----------------------------------------------------------------------------
(* Numbers                                                                 *)

LEMMA MinIs ==
    ASSUME NEW S \in SUBSET Nat, S # {}
    PROVE  Min(S) \in S /\ \A x \in S : Min(S) <= x
  <1> DEFINE R == OpToRel(<, Nat)
  <1>1. IsWellFoundedOn(R, Nat)
    BY NatLessThanWellFounded
  <1>2. PICK m \in S : \A n \in S : <<n, m>> \notin R
    <2> HIDE DEF R
    <2>1. QED
      BY <1>1, WFMin
  <1>3. \A n \in S : ~(n < m)
    <2>1. \A n \in S : <<n, m>> \in Nat \X Nat /\ <<n, m>>[1] = n /\ <<n, m>>[2] = m
      OBVIOUS
    <2>2. QED
      BY <1>2, <2>1 DEF OpToRel
  <1>4. \A n \in S : m <= n
    BY <1>3
  <1>5. QED
    BY <1>4 DEF Min

LEMMA MaxIs ==
    ASSUME NEW N \in Nat, NEW S \in SUBSET (0 .. N), S # {}
    PROVE  Max(S) \in S /\ \A x \in S : x <= Max(S)
  <1> DEFINE T == {N - x : x \in S}
  <1>1. T \in SUBSET Nat /\ T # {}
    <2>1. \A x \in S : N - x \in Nat
      OBVIOUS
    <2>2. QED
      BY <2>1
  <1>2. PICK t \in T : \A u \in T : t <= u
    <2> HIDE DEF T
    <2>1. QED
      BY <1>1, MinIs
  <1>3. PICK m \in S : t = N - m
    OBVIOUS
  <1>4. \A x \in S : N - m <= N - x
    BY <1>2, <1>3
  <1>5. ASSUME NEW x \in S
        PROVE  m >= x
    <2>1. x \in Int /\ m \in Int /\ N \in Int /\ N - m <= N - x
      BY <1>4
    <2>2. QED
      BY <2>1
  <1>6. Max(S) \in S /\ \A x \in S : Max(S) >= x
    BY <1>5 DEF Max
  <1>7. QED
    BY <1>6

(* What holds of 0, and of n + 1 where it holds of n, holds of all. *)
LEMMA ByInduction ==
    ASSUME NEW T, 0 \in T, \A n \in Nat : n \in T => n + 1 \in T
    PROVE  Nat \subseteq T
  <1> SUFFICES ASSUME Nat \ T # {}
               PROVE  FALSE
    OBVIOUS
  <1>1. PICK m \in Nat \ T : \A x \in Nat \ T : m <= x
    BY MinIs
  <1>2. m # 0 /\ m - 1 \in Nat
    BY <1>1
  <1>3. m - 1 \in T
    BY <1>1, <1>2
  <1>4. QED
    BY <1>1, <1>2, <1>3

-----------------------------------------------------------------------------
(* Folds                                                                   *)

(* A fold from the left over n places, which step[<<so far, place>>] makes *)
(* from what the places before it came to: it is there, for every n.       *)
Folds(f, base, step, n) ==
    \A s \in SUBSET (1 .. n) :
        f[s] = IF s = {} THEN base ELSE step[<<f[s \ {Max(s)}], Max(s)>>]

LEMMA MaxOfTop ==
    ASSUME NEW n \in Nat, NEW s \in SUBSET (1 .. n + 1), n + 1 \in s
    PROVE  Max(s) = n + 1
  <1>1. n + 1 \in Nat /\ s \in SUBSET (0 .. n + 1) /\ s # {}
    OBVIOUS
  <1>2. Max(s) \in s /\ n + 1 <= Max(s)
    BY <1>1, MaxIs
  <1>3. Max(s) \in 1 .. n + 1
    BY <1>2
  <1>4. QED
    BY <1>2, <1>3

LEMMA FoldExists ==
    ASSUME NEW A, NEW base \in A, NEW N \in Nat, NEW step \in [A \X (1 .. N) -> A]
    PROVE  \E f \in [SUBSET (1 .. N) -> A] : Folds(f, base, step, N)
  <1> DEFINE T == {n \in Nat : n <= N => \E f \in [SUBSET (1 .. n) -> A] : Folds(f, base, step, n)}
  <1>a. \A n \in Nat :
           n \in T <=> (n <= N => \E f \in [SUBSET (1 .. n) -> A] : Folds(f, base, step, n))
    OBVIOUS
  <1> HIDE DEF T
  <1>1. 0 \in T
    <2> DEFINE f == [s \in SUBSET (1 .. 0) |-> base]
    <2>1. f \in [SUBSET (1 .. 0) -> A] /\ \A s \in SUBSET (1 .. 0) : s = {} /\ f[s] = base
      OBVIOUS
    <2>2. Folds(f, base, step, 0)
      BY <2>1 DEF Folds
    <2>3. QED
      BY <1>a, <2>1, <2>2
  <1>2. ASSUME NEW n \in Nat, n \in T
        PROVE  n + 1 \in T
    <2>0. n + 1 \in Nat
      OBVIOUS
    <2>1. SUFFICES ASSUME n + 1 <= N
                   PROVE  \E g \in [SUBSET (1 .. n + 1) -> A] : Folds(g, base, step, n + 1)
      BY <1>a, <2>0, Zenon
    <2>a. n <= N
      BY <2>1
    <2>2. PICK f \in [SUBSET (1 .. n) -> A] : Folds(f, base, step, n)
      BY <1>a, <1>2, <2>a, Zenon
    <2> DEFINE g == [s \in SUBSET (1 .. n + 1) |->
                       IF n + 1 \in s THEN step[<<f[s \ {n + 1}], n + 1>>] ELSE f[s]]
    <2>3. ASSUME NEW s \in SUBSET (1 .. n + 1), n + 1 \in s
          PROVE  s \ {n + 1} \in SUBSET (1 .. n) /\ g[s \ {n + 1}] = f[s \ {n + 1}]
      BY <2>3
    <2>4. ASSUME NEW s \in SUBSET (1 .. n + 1), n + 1 \notin s
          PROVE  s \in SUBSET (1 .. n) /\ g[s] = f[s]
      BY <2>4
    <2>5. ASSUME NEW s \in SUBSET (1 .. n + 1)
          PROVE  g[s] \in A
      <3>1. CASE n + 1 \in s
        BY <2>1, <2>3, <3>1
      <3>2. CASE n + 1 \notin s
        BY <2>4, <3>2
      <3>3. QED
        BY <3>1, <3>2
    <2>6. ASSUME NEW s \in SUBSET (1 .. n + 1)
          PROVE  g[s] = IF s = {} THEN base ELSE step[<<g[s \ {Max(s)}], Max(s)>>]
      <3>1. CASE n + 1 \in s
        <4>1. Max(s) = n + 1
          BY <3>1, MaxOfTop
        <4>2. g[s] = step[<<f[s \ {n + 1}], n + 1>>]
          BY <3>1
        <4>3. QED
          BY <2>3, <3>1, <4>1, <4>2
      <3>2. CASE s = {}
        <4>1. g[s] = f[s] /\ s \in SUBSET (1 .. n)
          BY <2>4, <3>2
        <4>2. QED
          BY <2>2, <3>2, <4>1 DEF Folds
      <3>3. CASE n + 1 \notin s /\ s # {}
        <4>1. s \in SUBSET (1 .. n) /\ s \in SUBSET (0 .. n) /\ g[s] = f[s]
          BY <2>4, <3>3
        <4>2. s \ {Max(s)} \in SUBSET (1 .. n + 1) /\ n + 1 \notin s \ {Max(s)}
          BY <3>3
        <4>3. g[s \ {Max(s)}] = f[s \ {Max(s)}]
          BY <2>4, <4>2
        <4>4. f[s] = step[<<f[s \ {Max(s)}], Max(s)>>]
          BY <2>2, <3>3, <4>1 DEF Folds
        <4>5. QED
          BY <3>3, <4>1, <4>3, <4>4
      <3>4. QED
        BY <3>1, <3>2, <3>3
    <2>7. g \in [SUBSET (1 .. n + 1) -> A]
      BY <2>5
    <2> HIDE DEF g
    <2>8. Folds(g, base, step, n + 1)
      BY <2>6 DEF Folds
    <2>9. QED
      BY <2>7, <2>8
  <1>3. N \in T
    BY <1>1, <1>2, ByInduction
  <1>4. N <= N
    OBVIOUS
  <1>5. QED
    BY <1>a, <1>3, <1>4, Zenon

LEMMA PlacesPeel ==
    ASSUME NEW n \in Nat \ {0}
    PROVE  Max(1 .. n) = n /\ (1 .. n) \ {n} = 1 .. n - 1 /\ 1 .. n # {}
  <1> DEFINE m == n - 1
             s == 1 .. n
  <1>1. m \in Nat /\ m + 1 = n
    OBVIOUS
  <1>2. s \in SUBSET (1 .. m + 1) /\ m + 1 \in s
    BY <1>1
  <1> HIDE DEF m, s
  <1>3. Max(s) = m + 1
    BY <1>1, <1>2, MaxOfTop
  <1>4. s \ {n} = 1 .. n - 1 /\ s # {}
    BY <1>2 DEF s
  <1>5. QED
    BY <1>1, <1>3, <1>4 DEF s

(* The number that digits spell, digit by digit. *)
Spells(v, d) ==
    /\ v \in [0 .. Len(d) -> Nat]
    /\ v[0] = 0
    /\ \A n \in 1 .. Len(d) : v[n] = 10 * v[n - 1] + d[n]

ValueFold(d) ==
    CHOOSE f : f = [s \in SUBSET DOMAIN d |->
                       IF s = {} THEN 0 ELSE 10 * f[s \ {Max(s)}] + d[Max(s)]]

LEMMA ValueIsFold == ASSUME NEW d PROVE Value(d) = ValueFold(d)[DOMAIN d]
  BY DEF Value, FoldLeft, MapThenFoldSet, ValueFold

LEMMA ValueSpells ==
    ASSUME NEW d \in Seq(Nat)
    PROVE  \E v : Spells(v, d) /\ Value(d) = v[Len(d)]
  <1> DEFINE N == Len(d)
             step == [p \in Nat \X (1 .. N) |-> 10 * p[1] + d[p[2]]]
             f == ValueFold(d)
  <1>1. N \in Nat /\ DOMAIN d = 1 .. N /\ \A n \in 1 .. N : d[n] \in Nat
    OBVIOUS
  <1>2. step \in [Nat \X (1 .. N) -> Nat]
    BY <1>1
  <1>3. PICK g \in [SUBSET (1 .. N) -> Nat] : Folds(g, 0, step, N)
    <2> HIDE DEF N, step
    <2>1. QED
      BY <1>1, <1>2, FoldExists
  <1>4. g = [s \in SUBSET DOMAIN d |-> IF s = {} THEN 0 ELSE 10 * g[s \ {Max(s)}] + d[Max(s)]]
    <2>1. ASSUME NEW s \in SUBSET (1 .. N), s # {}
          PROVE  g[s] = 10 * g[s \ {Max(s)}] + d[Max(s)]
      <3>1. s \in SUBSET (0 .. N)
        OBVIOUS
      <3>2. Max(s) \in 1 .. N
        BY <1>1, <2>1, <3>1, MaxIs
      <3>3. g[s] = step[<<g[s \ {Max(s)}], Max(s)>>]
        BY <1>3, <2>1 DEF Folds
      <3>4. g[s \ {Max(s)}] \in Nat
        OBVIOUS
      <3>5. QED
        BY <3>2, <3>3, <3>4
    <2>2. g[{}] = 0
      BY <1>3 DEF Folds
    <2>3. \A s \in SUBSET (1 .. N) : g[s] = IF s = {} THEN 0 ELSE 10 * g[s \ {Max(s)}] + d[Max(s)]
      BY <2>1, <2>2
    <2> HIDE DEF step
    <2>4. QED
      BY <1>1, <2>3
  <1>5. f = [s \in SUBSET DOMAIN d |-> IF s = {} THEN 0 ELSE 10 * f[s \ {Max(s)}] + d[Max(s)]]
    BY <1>4 DEF ValueFold
  <1> HIDE DEF f, step
  <1> DEFINE v == [n \in 0 .. N |-> f[1 .. n]]
  <1>6. v[0] = 0
    <2>1. 1 .. 0 = {} /\ {} \in SUBSET DOMAIN d /\ 0 \in 0 .. N
      BY <1>1
    <2>2. f[{}] = 0
      BY <1>5, <2>1
    <2>3. QED
      BY <2>1, <2>2
  <1>7. ASSUME NEW n \in 1 .. N
        PROVE  v[n] = 10 * v[n - 1] + d[n]
    <2>1. /\ n \in Nat \ {0} /\ 1 .. n \in SUBSET DOMAIN d /\ n \in 0 .. N /\ n - 1 \in 0 .. N
      BY <1>1
    <2>2. Max(1 .. n) = n /\ (1 .. n) \ {n} = 1 .. n - 1 /\ 1 .. n # {}
      BY <2>1, PlacesPeel
    <2>3. f[1 .. n] = 10 * f[(1 .. n) \ {Max(1 .. n)}] + d[Max(1 .. n)]
      BY <1>5, <2>1, <2>2
    <2>4. f[1 .. n] = 10 * f[1 .. n - 1] + d[n]
      BY <2>2, <2>3
    <2>5. QED
      BY <2>1, <2>4
  <1> HIDE DEF v
  <1> DEFINE T == {n \in Nat : n <= N => v[n] \in Nat}
  <1>8. Nat \subseteq T
    <2>1. 0 \in T
      BY <1>6
    <2>2. ASSUME NEW n \in Nat, n \in T
          PROVE  n + 1 \in T
      <3>1. SUFFICES ASSUME n + 1 <= N
                     PROVE  v[n + 1] \in Nat
        OBVIOUS
      <3>2. v[n] \in Nat /\ n + 1 \in 1 .. N /\ (n + 1) - 1 = n
        BY <1>1, <2>2, <3>1
      <3>3. v[n + 1] = 10 * v[n] + d[n + 1] /\ d[n + 1] \in Nat
        BY <1>1, <1>7, <3>2
      <3>4. QED
        BY <3>2, <3>3
    <2> HIDE DEF T
    <2>3. QED
      BY <2>1, <2>2, ByInduction
  <1>9. \A n \in 0 .. N : v[n] \in Nat
    BY <1>1, <1>8
  <1>10. v \in [0 .. N -> Nat]
    BY <1>9 DEF v
  <1>11. Value(d) = v[N]
    <2>1. N \in 0 .. N
      BY <1>1
    <2>2. QED
      BY <1>1, <2>1, ValueIsFold DEF v, f
  <1>12. Spells(v, d)
    BY <1>6, <1>7, <1>10 DEF Spells
  <1>13. QED
    BY <1>11, <1>12

(* Zeros in front change nothing. *)
LEMMA LeadingZeros ==
    ASSUME NEW d \in Seq(Nat), NEW e \in Seq(Nat), NEW k \in Nat,
           Len(e) = k + Len(d),
           \A n \in 1 .. k : e[n] = 0,
           \A n \in 1 .. Len(d) : e[k + n] = d[n]
    PROVE  Value(e) = Value(d)
  <1>1. PICK v : Spells(v, d) /\ Value(d) = v[Len(d)]
    BY ValueSpells
  <1>2. PICK u : Spells(u, e) /\ Value(e) = u[Len(e)]
    BY ValueSpells
  <1>0. Len(d) \in Nat /\ Len(e) \in Nat
    OBVIOUS
  <1> DEFINE T == {n \in Nat : n <= k => u[n] = 0}
             U == {n \in Nat : n <= Len(d) => u[k + n] = v[n]}
  <1>3. Nat \subseteq T
    <2>1. 0 \in T
      BY <1>2 DEF Spells
    <2>2. ASSUME NEW n \in Nat, n \in T
          PROVE  n + 1 \in T
      <3>1. SUFFICES ASSUME n + 1 <= k
                     PROVE  u[n + 1] = 0
        OBVIOUS
      <3>2. u[n] = 0 /\ n + 1 \in 1 .. Len(e) /\ (n + 1) - 1 = n /\ e[n + 1] = 0
        BY <1>0, <2>2, <3>1
      <3>3. u[n + 1] = 10 * u[(n + 1) - 1] + e[n + 1]
        BY <1>2, <3>2 DEF Spells
      <3>4. QED
        BY <3>2, <3>3
    <2> HIDE DEF T
    <2>3. QED
      BY <2>1, <2>2, ByInduction
  <1>4. Nat \subseteq U
    <2>1. 0 \in U
      <3>1. u[k] = 0 /\ v[0] = 0 /\ k + 0 = k
        BY <1>1, <1>3 DEF Spells
      <3>2. QED
        BY <3>1
    <2>2. ASSUME NEW n \in Nat, n \in U
          PROVE  n + 1 \in U
      <3>1. SUFFICES ASSUME n + 1 <= Len(d)
                     PROVE  u[k + (n + 1)] = v[n + 1]
        OBVIOUS
      <3>2. u[k + n] = v[n]
        BY <1>0, <2>2, <3>1
      <3>3. n + 1 \in 1 .. Len(d) /\ (n + 1) - 1 = n
        BY <1>0, <3>1
      <3>4. k + (n + 1) \in 1 .. Len(e) /\ (k + (n + 1)) - 1 = k + n
        BY <1>0, <3>1
      <3>5. e[k + (n + 1)] = d[n + 1]
        BY <3>3
      <3>6. u[k + (n + 1)] = 10 * u[(k + (n + 1)) - 1] + e[k + (n + 1)]
        BY <1>2, <3>4 DEF Spells
      <3>7. v[n + 1] = 10 * v[(n + 1) - 1] + d[n + 1]
        BY <1>1, <3>3 DEF Spells
      <3>8. QED
        BY <3>2, <3>3, <3>4, <3>5, <3>6, <3>7
    <2> HIDE DEF U
    <2>3. QED
      BY <2>1, <2>2, ByInduction
  <1>5. u[k + Len(d)] = v[Len(d)]
    BY <1>0, <1>4
  <1>6. QED
    BY <1>1, <1>2, <1>5

-----------------------------------------------------------------------------
(* Amounts                                                                 *)

LEMMA ZerosAre ==
    ASSUME NEW n \in Int
    PROVE  /\ Zeros(n) \in Seq(Nat)
           /\ Len(Zeros(n)) = IF n > 0 THEN n ELSE 0
           /\ \A k \in 1 .. Len(Zeros(n)) : Zeros(n)[k] = 0
  <1>1. CASE n > 0
    BY <1>1 DEF Zeros
  <1>2. CASE n <= 0
    <2>1. 1 .. n = 1 .. 0
      BY <1>2
    <2>2. Zeros(n) = [k \in 1 .. 0 |-> 0]
      BY <2>1 DEF Zeros
    <2>3. QED
      BY <1>2, <2>2
  <1>3. QED
    BY <1>1, <1>2

(* The zeros at the end of a fraction are all that is chopped off it. *)
LEMMA ChoppedIs ==
    ASSUME NEW frac \in Seq(Nat)
    PROVE  \E m \in 0 .. Len(frac) :
              /\ Chopped(frac) = SubSeq(frac, 1, m)
              /\ m # 0 => frac[m] # 0
              /\ \A k \in m + 1 .. Len(frac) : frac[k] = 0
  <1> DEFINE S == {0} \cup {n \in DOMAIN frac : frac[n] # 0}
             m == Max(S)
  <1>1. Len(frac) \in Nat /\ DOMAIN frac = 1 .. Len(frac)
    OBVIOUS
  <1>2. S \in SUBSET (0 .. Len(frac)) /\ S # {}
    BY <1>1
  <1>3. m \in S /\ \A x \in S : x <= m
    <2> HIDE DEF S
    <2>1. QED
      BY <1>1, <1>2, MaxIs
  <1>4. Chopped(frac) = SubSeq(frac, 1, m)
    BY DEF Chopped
  <1> HIDE DEF m
  <1>5. m \in 0 .. Len(frac)
    BY <1>1, <1>3
  <1>6. m # 0 => frac[m] # 0
    BY <1>3
  <1>7. \A k \in m + 1 .. Len(frac) : frac[k] = 0
    <2>1. ASSUME NEW k \in m + 1 .. Len(frac), frac[k] # 0
          PROVE  FALSE
      <3>1. k \in S
        BY <1>1, <1>5, <2>1
      <3>2. k <= m
        BY <1>3, <3>1
      <3>3. QED
        BY <1>5, <2>1, <3>2
    <2>2. QED
      BY <2>1
  <1>8. QED
    BY <1>4, <1>5, <1>6, <1>7

(* What scaleUnits gives is the raw amount's digits with a point among     *)
(* them, zeros apart that stand before all of them or behind the point.    *)
LEMMA ScalesExactly ==
    ASSUME NEW raw \in Seq(Nat), NEW decimals \in Int,
           scaleUnits(raw, decimals) # Nothing
    PROVE  LET amount == scaleUnits(raw, decimals)
           IN  /\ amount.whole # <<>>
               /\ amount.frac # <<>> => Last(amount.frac) # 0
               /\ Value(amount.whole \o amount.frac \o Zeros(decimals - Len(amount.frac))) = Value(raw)
  <1> DEFINE amount == scaleUnits(raw, decimals)
             z == decimals + 1 - Len(raw)
             padded == Zeros(z) \o raw
             point == Len(padded) - decimals
             rest == SubSeq(padded, point + 1, Len(padded))
             pad == Len(Zeros(z))
  <1>1. raw # <<>> /\ decimals \in 0 .. MaxDecimals
    BY DEF scaleUnits
  <1>2. amount = [whole |-> SubSeq(padded, 1, point), frac |-> Chopped(rest)]
    BY DEF scaleUnits
  <1>3. Len(raw) \in Nat /\ z \in Int /\ decimals \in Nat
    BY <1>1, DecimalsAssumption
  <1>4. /\ Zeros(z) \in Seq(Nat) /\ pad = (IF z > 0 THEN z ELSE 0)
        /\ \A k \in 1 .. pad : Zeros(z)[k] = 0
    BY <1>3, ZerosAre
  <1> HIDE DEF amount
  <1>5. padded \in Seq(Nat) /\ Len(padded) = pad + Len(raw)
    BY <1>4, ConcatProperties
  <1>6. \A k \in 1 .. pad : padded[k] = 0
    BY <1>3, <1>4
  <1>7. \A k \in 1 .. Len(raw) : padded[pad + k] = raw[k]
    BY <1>3, <1>4
  <1>8. pad \in Nat
    BY <1>3, <1>4
  <1>9. Len(padded) \in Nat /\ Len(padded) >= decimals + 1
    BY <1>3, <1>4, <1>5, <1>8
  <1> HIDE DEF pad, z, padded
  <1>10. point \in Nat /\ point >= 1 /\ point + decimals = Len(padded)
    BY <1>3, <1>9
  <1> HIDE DEF point
  <1>11. /\ SubSeq(padded, 1, point) \in Seq(Nat)
         /\ Len(SubSeq(padded, 1, point)) = point
         /\ \A k \in 1 .. point : SubSeq(padded, 1, point)[k] = padded[k]
    BY <1>3, <1>5, <1>10
  <1>12. /\ rest \in Seq(Nat) /\ Len(rest) = decimals
         /\ \A k \in 1 .. decimals : rest[k] = padded[point + k]
    <2> DEFINE from == point + 1
               to == Len(padded)
    <2>1. from \in Int /\ to \in Int /\ from >= 1 /\ to - from + 1 = decimals
      BY <1>3, <1>10
    <2>2. \A k \in from .. to : padded[k] \in Nat
      <3>1. \A k \in from .. to : k \in 1 .. Len(padded)
        BY <2>1
      <3>2. QED
        BY <1>5, <3>1
    <2> HIDE DEF from, to
    <2>3. /\ SubSeq(padded, from, to) \in Seq(Nat)
          /\ Len(SubSeq(padded, from, to)) = IF from <= to THEN to - from + 1 ELSE 0
          /\ \A k \in 1 .. to - from + 1 : SubSeq(padded, from, to)[k] = padded[from + k - 1]
      BY <2>1, <2>2, SubSeqProperties
    <2>4. rest = SubSeq(padded, from, to)
      BY DEF rest, from, to
    <2>5. Len(rest) = decimals
      <3>1. IF from <= to THEN decimals = to - from + 1 ELSE decimals = 0
        BY <1>3, <2>1
      <3>2. QED
        BY <2>3, <2>4, <3>1
    <2>6. ASSUME NEW k \in 1 .. decimals
          PROVE  rest[k] = padded[point + k]
      <3>1. from + k - 1 = point + k
        BY <1>10 DEF from
      <3>2. QED
        BY <2>1, <2>3, <2>4, <3>1
    <2>7. QED
      BY <2>3, <2>4, <2>5, <2>6
  <1> HIDE DEF rest
  <1>13. PICK m \in 0 .. decimals :
            /\ Chopped(rest) = SubSeq(rest, 1, m)
            /\ m # 0 => rest[m] # 0
            /\ \A k \in m + 1 .. decimals : rest[k] = 0
    BY <1>12, ChoppedIs
  <1> DEFINE whole == SubSeq(padded, 1, point)
             frac == SubSeq(rest, 1, m)
             tail == Zeros(decimals - m)
             body == whole \o frac
             e == body \o tail
  <1>14. frac \in Seq(Nat) /\ Len(frac) = m /\ \A k \in 1 .. m : frac[k] = rest[k]
    BY <1>3, <1>12, <1>13
  <1>15. tail \in Seq(Nat) /\ Len(tail) = decimals - m /\ \A k \in 1 .. decimals - m : tail[k] = 0
    <2>1. decimals - m \in Int /\ decimals - m >= 0
      BY <1>3, <1>13
    <2>2. /\ tail \in Seq(Nat)
          /\ Len(tail) = IF decimals - m > 0 THEN decimals - m ELSE 0
          /\ \A k \in 1 .. Len(tail) : tail[k] = 0
      <3> DEFINE n == decimals - m
      <3>1. n \in Int
        BY <2>1
      <3> HIDE DEF n
      <3>2. /\ Zeros(n) \in Seq(Nat) /\ Len(Zeros(n)) = IF n > 0 THEN n ELSE 0
            /\ \A k \in 1 .. Len(Zeros(n)) : Zeros(n)[k] = 0
        BY <3>1, ZerosAre
      <3>3. QED
        BY <3>2 DEF n
    <2> HIDE DEF tail
    <2>3. QED
      BY <2>1, <2>2
  <1>16. amount.whole = whole /\ amount.frac = frac
    BY <1>2, <1>13
  <1> HIDE DEF whole, frac, tail
  <1>17. whole # <<>>
    <2>1. Len(whole) # 0
      BY <1>10, <1>11 DEF whole
    <2>2. QED
      BY <2>1, EmptySeq
  <1>18. frac # <<>> => Last(frac) # 0
    <2>1. SUFFICES ASSUME frac # <<>>
                   PROVE  frac[m] # 0
      BY <1>14 DEF Last
    <2>2. m # 0 /\ m \in 1 .. m
      BY <1>3, <1>13, <1>14, <2>1, EmptySeq
    <2>3. QED
      BY <1>13, <1>14, <2>2
  <1>19. /\ body \in Seq(Nat) /\ Len(body) = point + m
         /\ \A i \in 1 .. point + m : body[i] = IF i <= point THEN padded[i] ELSE rest[i - point]
    <2>1. whole \in Seq(Nat) /\ Len(whole) = point /\ \A i \in 1 .. point : whole[i] = padded[i]
      BY <1>11 DEF whole
    <2>2. /\ body \in Seq(Nat) /\ Len(body) = point + m
          /\ \A i \in 1 .. point + m : body[i] = IF i <= point THEN whole[i] ELSE frac[i - point]
      BY <1>14, <2>1, ConcatProperties
    <2> HIDE DEF body
    <2>3. ASSUME NEW i \in 1 .. point + m
          PROVE  body[i] = IF i <= point THEN padded[i] ELSE rest[i - point]
      <3>1. body[i] = IF i <= point THEN whole[i] ELSE frac[i - point]
        BY <2>2
      <3>2. (i <= point => i \in 1 .. point) /\ (~(i <= point) => i - point \in 1 .. m)
        BY <1>3, <1>10, <1>13
      <3>3. QED
        BY <1>14, <2>1, <3>1, <3>2
    <2>4. QED
      BY <2>2, <2>3
  <1> HIDE DEF body
  <1>20. /\ e \in Seq(Nat) /\ Len(e) = Len(padded)
         /\ \A k \in 1 .. Len(padded) : e[k] = padded[k]
    <2> DEFINE top == point + m
    <2>1. body \in Seq(Nat) /\ Len(body) = top
      BY <1>19
    <2>2. tail \in Seq(Nat) /\ Len(tail) = decimals - m
      BY <1>15
    <2> HIDE DEF top
    <2>3. /\ e \in Seq(Nat) /\ Len(e) = top + Len(tail)
          /\ \A k \in 1 .. top + Len(tail) : e[k] = IF k <= top THEN body[k] ELSE tail[k - top]
      BY <2>1, <2>2, ConcatProperties
    <2> HIDE DEF e
    <2>4. top + Len(tail) = Len(padded)
      <3>1. m \in Int /\ point \in Int /\ (point + m) + (decimals - m) = point + decimals
        BY <1>3, <1>10, <1>13
      <3>2. QED
        BY <1>10, <2>2, <3>1 DEF top
    <2>5. ASSUME NEW k \in 1 .. Len(padded)
          PROVE  e[k] = padded[k]
      <3>1. e[k] = IF k <= top THEN body[k] ELSE tail[k - top]
        BY <2>3, <2>4
      <3>2. CASE k <= point
        <4>1. k <= top /\ k \in 1 .. point + m
          BY <1>3, <1>10, <1>13, <3>2 DEF top
        <4>2. QED
          BY <1>19, <3>1, <3>2, <4>1
      <3>3. CASE ~(k <= point) /\ k <= top
        <4>1. /\ k \in 1 .. point + m /\ k - point \in 1 .. decimals /\ point + (k - point) = k
          BY <1>3, <1>10, <1>13, <3>3 DEF top
        <4>2. e[k] = rest[k - point]
          BY <1>19, <3>1, <3>3, <4>1
        <4>3. rest[k - point] = padded[point + (k - point)]
          BY <1>12, <4>1
        <4>4. QED
          BY <4>1, <4>2, <4>3
      <3>4. CASE ~(k <= top)
        <4>1. /\ k - top \in 1 .. decimals - m /\ k - point \in m + 1 .. decimals
              /\ k - point \in 1 .. decimals /\ point + (k - point) = k
          BY <1>3, <1>10, <1>13, <3>4 DEF top
        <4>2. e[k] = 0 /\ rest[k - point] = 0
          BY <1>13, <1>15, <3>1, <3>4, <4>1
        <4>3. rest[k - point] = padded[point + (k - point)]
          BY <1>12, <4>1
        <4>4. QED
          BY <4>1, <4>2, <4>3
      <3>5. QED
        BY <3>2, <3>3, <3>4
    <2>6. QED
      BY <2>3, <2>4, <2>5
  <1> HIDE DEF e
  <1>21. Value(e) = Value(raw)
    <2>1. \A n \in 1 .. pad : e[n] = 0
      BY <1>3, <1>5, <1>6, <1>8, <1>20
    <2>2. ASSUME NEW n \in 1 .. Len(raw)
          PROVE  e[pad + n] = raw[n]
      <3>1. pad + n \in 1 .. Len(padded)
        BY <1>3, <1>5, <1>8
      <3>2. QED
        BY <1>7, <1>20, <3>1
    <2>3. Len(e) = pad + Len(raw)
      BY <1>5, <1>20
    <2>4. QED
      BY <1>8, <1>20, <2>1, <2>2, <2>3, LeadingZeros
  <1>22. Value(amount.whole \o amount.frac \o Zeros(decimals - Len(amount.frac))) = Value(raw)
    BY <1>14, <1>16, <1>21 DEF e, body, tail
  <1>23. QED
    BY <1>16, <1>17, <1>18, <1>22 DEF amount

-----------------------------------------------------------------------------
(* What is said                                                            *)

Says == {"item", "decoded", "token", "amount"}

Scaled == {scaleUnits(RawAmount(leg), d) : leg \in Legs, d \in Decimals \cup {-1}} \cup {Nothing}

Speech == [item : Nat, says : Says, decimals : Int, amount : Scaled]

(* A line is about a call that was decoded, and true of it. *)
TrueOf(l) ==
    /\ l.item \in DOMAIN legs
    /\ l.says = "token" => ~legs[l.item].verified
    /\ l.says = "amount" =>
          l.amount = scaleUnits(RawAmount(legs[l.item]), l.decimals) /\ l.amount # Nothing

(* It may stand behind another ... *)
Follows(k, l) == k.item < l.item \/ (k.item = l.item /\ Before[k.says] < Before[l.says])

(* ... and, being the decoder's, has its label before it. *)
NeedsLabel(l) == l.says = "decoded" /\ items > 1

InOrder(s) ==
    /\ s \in Seq(Speech)
    /\ \A n \in 1 .. Len(s) :
          /\ TrueOf(s[n])
          /\ NeedsLabel(s[n]) => n > 1 /\ s[n - 1] = Line(s[n].item, "item", 0, Nothing)
          /\ n > 1 => Follows(s[n - 1], s[n])

(* The items yet to be read are behind all that is said. *)
Below(s, n) == s # <<>> => s[Len(s)].item < n

(* The call the token list is asked about is the next to be read, not      *)
(* verified, and what the decoder tells of it was said last.               *)
Asking ==
    /\ unread # {}
    /\ Asks(legs[Min(unread)])
    /\ said # <<>>
    /\ said[Len(said)] = Line(Min(unread), "decoded", 0, Nothing)

CallsTyped ==
    /\ phase \in {"start", "bitcoin", "legs", "asked", "done"}
    /\ items \in 0 .. MaxItems
    /\ DOMAIN legs \subseteq 1 .. items
    /\ \A n \in DOMAIN legs : legs[n] \in Legs
    /\ unread \subseteq DOMAIN legs

Speaking ==
    /\ InOrder(said)
    /\ phase \in {"start", "bitcoin"} => said = <<>>
    /\ phase = "legs" => \A n \in unread : Below(said, n)
    /\ phase = "asked" => Asking

LEMMA AppendInOrder ==
    ASSUME NEW s, InOrder(s), NEW l \in Speech, TrueOf(l),
           NeedsLabel(l) => s # <<>> /\ s[Len(s)] = Line(l.item, "item", 0, Nothing),
           s # <<>> => Follows(s[Len(s)], l)
    PROVE  InOrder(Append(s, l))
  <1> DEFINE t == Append(s, l)
  <1>1. s \in Seq(Speech) /\ Len(s) \in Nat
    BY DEF InOrder
  <1>2. /\ t \in Seq(Speech) /\ Len(t) = Len(s) + 1 /\ t[Len(s) + 1] = l
        /\ \A n \in 1 .. Len(s) : t[n] = s[n]
    BY <1>1, AppendProperties
  <1> HIDE DEF t
  <1>3. ASSUME NEW n \in 1 .. Len(t)
        PROVE  /\ TrueOf(t[n])
               /\ NeedsLabel(t[n]) => n > 1 /\ t[n - 1] = Line(t[n].item, "item", 0, Nothing)
               /\ n > 1 => Follows(t[n - 1], t[n])
    <2>1. CASE n \in 1 .. Len(s)
      <3>1. t[n] = s[n] /\ (n > 1 => n - 1 \in 1 .. Len(s))
        BY <1>1, <1>2, <2>1
      <3>2. n > 1 => t[n - 1] = s[n - 1]
        BY <1>2, <3>1
      <3>3. QED
        BY <2>1, <3>1, <3>2 DEF InOrder
    <2>2. CASE n = Len(s) + 1
      <3>1. t[n] = l /\ n - 1 = Len(s)
        BY <1>1, <1>2, <2>2
      <3>2. s # <<>> => n > 1
        BY <1>1, <2>2, EmptySeq
      <3>3. n > 1 => s # <<>> /\ t[n - 1] = s[Len(s)]
        <4>1. SUFFICES ASSUME n > 1
                       PROVE  s # <<>> /\ t[n - 1] = s[Len(s)]
          OBVIOUS
        <4>2. Len(s) # 0 /\ Len(s) \in 1 .. Len(s)
          BY <1>1, <2>2, <4>1
        <4>3. s # <<>>
          BY <4>2, EmptySeq
        <4>4. QED
          BY <1>2, <3>1, <4>2, <4>3
      <3>4. QED
        BY <3>1, <3>2, <3>3
    <2>3. QED
      BY <1>1, <1>2, <2>1, <2>2
  <1>4. InOrder(t)
    BY <1>2, <1>3 DEF InOrder
  <1>5. QED
    BY <1>4 DEF t

LEMMA ConcatOne ==
    ASSUME NEW S, NEW s \in Seq(S), NEW l \in S
    PROVE  s \o <<l>> = Append(s, l) /\ s \o <<>> = s
  <1>1. s \o <<l>> = Append(s, l)
    BY AppendIsConcat
  <1>2. s \o <<>> = s
    BY ConcatEmptySeq
  <1>3. QED
    BY <1>1, <1>2

LEMMA LineIs ==
    ASSUME NEW item \in Nat, NEW says \in Says, NEW decimals \in Int, NEW amount \in Scaled
    PROVE  /\ Line(item, says, decimals, amount) \in Speech
           /\ Line(item, says, decimals, amount).item = item
           /\ Line(item, says, decimals, amount).says = says
           /\ Line(item, says, decimals, amount).decimals = decimals
           /\ Line(item, says, decimals, amount).amount = amount
  BY DEF Line, Speech

LEMMA InOrderFrames ==
    ASSUME InOrder(said'), UNCHANGED <<items, legs>>
    PROVE  InOrder(said)'
  BY DEF InOrder, TrueOf, NeedsLabel, Follows
LEMMA NextLeg ==
    ASSUME CallsTyped, unread # {}
    PROVE  /\ Min(unread) \in unread /\ Min(unread) \in DOMAIN legs /\ Min(unread) \in Nat
           /\ \A m \in unread : Min(unread) <= m /\ m \in Nat
  <1>1. items \in Nat /\ unread \in SUBSET Nat
    BY ItemsAssumption DEF CallsTyped
  <1>2. Min(unread) \in unread /\ \A m \in unread : Min(unread) <= m
    BY <1>1, MinIs
  <1>3. QED
    BY <1>1, <1>2 DEF CallsTyped

(* The decoder's reading of a leg, behind its label where it has one. *)
LEMMA DecodedInOrder ==
    ASSUME CallsTyped, Speaking, phase = "legs", unread # {},
           said' = said \o (IF Labelled THEN <<Line(Min(unread), "item", 0, Nothing)>> ELSE <<>>)
                        \o <<Line(Min(unread), "decoded", 0, Nothing)>>
    PROVE  /\ InOrder(said')
           /\ said' # <<>>
           /\ said'[Len(said')] = Line(Min(unread), "decoded", 0, Nothing)
  <1> DEFINE n == Min(unread)
             label == Line(n, "item", 0, Nothing)
             l == Line(n, "decoded", 0, Nothing)
             s == said \o (IF Labelled THEN <<label>> ELSE <<>>)
  <1>1. n \in unread /\ n \in DOMAIN legs /\ n \in Nat
    BY NextLeg
  <1>2. InOrder(said) /\ said \in Seq(Speech) /\ Below(said, n)
    BY <1>1 DEF Speaking, InOrder
  <1> HIDE DEF n
  <1>3. 0 \in Int /\ Nothing \in Scaled /\ "item" \in Says /\ "decoded" \in Says
    BY DEF Scaled, Says
  <1>4. label \in Speech /\ label.item = n /\ label.says = "item"
    BY <1>1, <1>3, LineIs
  <1>5. l \in Speech /\ l.item = n /\ l.says = "decoded"
    BY <1>1, <1>3, LineIs
  <1> HIDE DEF l
  <1>6. /\ InOrder(s)
        /\ NeedsLabel(l) => s # <<>> /\ s[Len(s)] = label
        /\ s # <<>> => Follows(s[Len(s)], l)
    <2>1. CASE Labelled
      <3>1. s = Append(said, label)
        <4> HIDE DEF label
        <4>1. QED
          BY <1>2, <1>4, <2>1, ConcatOne
      <3>2. TrueOf(label) /\ ~NeedsLabel(label)
        BY <1>1, <1>4 DEF TrueOf, NeedsLabel
      <3>3. said # <<>> => Follows(said[Len(said)], label)
        BY <1>2, <1>4 DEF Below, Follows
      <3> HIDE DEF label
      <3>4. InOrder(Append(said, label))
        BY <1>2, <1>4, <3>2, <3>3, AppendInOrder
      <3>5. Append(said, label) # <<>> /\ Append(said, label)[Len(Append(said, label))] = label
        BY <1>2, <1>4, AppendProperties
      <3>6. Follows(label, l)
        BY <1>4, <1>5 DEF Follows, Before
      <3> HIDE DEF s
      <3>7. QED
        BY <3>1, <3>4, <3>5, <3>6
    <2>2. CASE ~Labelled
      <3>1. s = said
        BY <1>2, <1>4, <2>2, ConcatOne
      <3>2. ~NeedsLabel(l)
        BY <2>2 DEF Labelled, NeedsLabel
      <3>3. said # <<>> => Follows(said[Len(said)], l)
        BY <1>2, <1>5 DEF Below, Follows
      <3> HIDE DEF s
      <3>4. QED
        BY <1>2, <3>1, <3>2, <3>3
    <2>3. QED
      BY <2>1, <2>2
  <1>7. said' = s \o <<l>>
    BY DEF n, l
  <1> HIDE DEF s
  <1>8. s \in Seq(Speech) /\ TrueOf(l)
    BY <1>1, <1>5, <1>6 DEF InOrder, TrueOf
  <1>9. s \o <<l>> = Append(s, l)
    BY <1>5, <1>8, ConcatOne
  <1>10. InOrder(Append(s, l))
    <2> HIDE DEF label
    <2>1. NeedsLabel(l) => s # <<>> /\ s[Len(s)] = Line(l.item, "item", 0, Nothing)
      BY <1>5, <1>6 DEF label
    <2>2. QED
      BY <1>5, <1>6, <1>8, <2>1, AppendInOrder
  <1>11. Append(s, l) # <<>> /\ Append(s, l)[Len(Append(s, l))] = l
    BY <1>5, <1>8, AppendProperties
  <1>12. said' = Append(s, l)
    BY <1>7, <1>9
  <1>13. QED
    BY <1>10, <1>11, <1>12 DEF l, n

(* What the token list adds, behind it. *)
LEMMA TokenInOrder ==
    ASSUME CallsTyped, Speaking, phase = "asked", NEW reply \in Replies, TokenListAnswers(reply)
    PROVE  /\ InOrder(said')
           /\ said' # <<>>
           /\ said'[Len(said')].item = Min(unread)
  <1> DEFINE n == Min(unread)
             amount == scaleUnits(RawAmount(legs[n]), reply.decimals)
             token == Line(n, "token", 0, Nothing)
             sum == Line(n, "amount", reply.decimals, amount)
  <1>1. unread # {} /\ Asks(legs[n]) /\ said # <<>> /\ said[Len(said)] = Line(n, "decoded", 0, Nothing)
    BY DEF Speaking, Asking
  <1>2. n \in unread /\ n \in DOMAIN legs /\ n \in Nat /\ legs[n] \in Legs
    BY <1>1, NextLeg DEF CallsTyped
  <1>3. InOrder(said) /\ said \in Seq(Speech)
    BY DEF Speaking, InOrder
  <1>4. /\ 0 \in Int /\ Nothing \in Scaled /\ "token" \in Says /\ "amount" \in Says
        /\ "decoded" \in Says
    BY DEF Scaled, Says
  <1>5. reply.decimals \in Int /\ reply.decimals \in Decimals \cup {-1}
    <2>1. CASE reply \in [named : {TRUE}, decimals : Decimals]
      BY <2>1, DecimalsAssumption
    <2>2. CASE reply \in [named : {FALSE}, decimals : {-1}]
      BY <2>2
    <2>3. QED
      BY <2>1, <2>2 DEF Replies
  <1>6. amount \in Scaled
    BY <1>2, <1>5 DEF Scaled
  <1>7. said' = said \o (IF reply.named THEN <<token>> ELSE <<>>)
                     \o (IF reply.named /\ amount # Nothing THEN <<sum>> ELSE <<>>)
    BY DEF TokenListAnswers
  <1> HIDE DEF n
  <1>8. token \in Speech /\ token.item = n /\ token.says = "token"
    BY <1>2, <1>4, LineIs
  <1>9. /\ sum \in Speech /\ sum.item = n /\ sum.says = "amount"
        /\ sum.decimals = reply.decimals /\ sum.amount = amount
    <2> HIDE DEF amount
    <2>1. QED
      BY <1>2, <1>4, <1>5, <1>6, LineIs
  <1>10. said[Len(said)].item = n /\ said[Len(said)].says = "decoded"
    BY <1>1, <1>2, <1>4, LineIs
  <1>11. TrueOf(token) /\ ~NeedsLabel(token) /\ Follows(said[Len(said)], token)
    BY <1>1, <1>2, <1>8, <1>10 DEF TrueOf, NeedsLabel, Follows, Before, Asks
  <1>12. amount # Nothing => TrueOf(sum) /\ ~NeedsLabel(sum) /\ Follows(token, sum)
    BY <1>2, <1>8, <1>9 DEF TrueOf, NeedsLabel, Follows, Before
  <1> HIDE DEF token, sum, amount
  <1>13. CASE ~reply.named
    <2>1. said' = said
      BY <1>3, <1>7, <1>8, <1>13, ConcatOne
    <2>2. QED
      BY <1>1, <1>3, <1>10, <2>1 DEF n
  <1>14. CASE reply.named
    <2> DEFINE t == Append(said, token)
    <2>1. said \o <<token>> = t
      BY <1>3, <1>8, ConcatOne
    <2>2. InOrder(t)
      BY <1>3, <1>8, <1>11, AppendInOrder
    <2>3. t \in Seq(Speech) /\ t # <<>> /\ t[Len(t)] = token
      BY <1>3, <1>8, AppendProperties
    <2> HIDE DEF t
    <2>4. CASE amount = Nothing
      <3>1. said' = t
        BY <1>7, <1>8, <1>14, <2>1, <2>3, <2>4, ConcatOne
      <3>2. QED
        BY <1>8, <2>2, <2>3, <3>1 DEF n
    <2>5. CASE amount # Nothing
      <3>1. said' = Append(t, sum)
        BY <1>7, <1>9, <1>14, <2>1, <2>3, <2>5, ConcatOne
      <3>2. InOrder(Append(t, sum))
        BY <1>9, <1>12, <2>2, <2>3, <2>5, AppendInOrder
      <3>3. Append(t, sum) # <<>> /\ Append(t, sum)[Len(Append(t, sum))] = sum
        BY <1>9, <2>3, AppendProperties
      <3>4. QED
        BY <1>9, <3>1, <3>2, <3>3 DEF n
    <2>6. QED
      BY <2>4, <2>5
  <1>15. QED
    BY <1>13, <1>14

(* What is still to be read is behind what was just said. *)
LEMMA LaterLegs ==
    ASSUME CallsTyped, unread # {}, unread' = unread \ {Min(unread)},
           said'[Len(said')].item = Min(unread)
    PROVE  \A m \in unread' : Below(said, m)'
  <1>1. \A m \in unread : Min(unread) <= m /\ m \in Nat /\ Min(unread) \in Nat
    BY NextLeg
  <1>2. ASSUME NEW m \in unread'
        PROVE  said'[Len(said')].item < m
    BY <1>1
  <1>3. QED
    BY <1>2 DEF Below
LEMMA SpeakingInit == Init => CallsTyped /\ Speaking
  BY ItemsAssumption, EmptySeq DEF Init, CallsTyped, Speaking, InOrder

LEMMA SpeakingFrames ==
    ASSUME CallsTyped, Speaking, UNCHANGED interpretVars
    PROVE  CallsTyped' /\ Speaking'
  BY DEF interpretVars, CallsTyped, Speaking, InOrder, TrueOf, NeedsLabel, Follows, Below, Asking

LEMMA SpeakingBitcoin ==
    ASSUME CallsTyped, Speaking, InterpretBitcoin \/ DecodeNothing \/ Interpreted
    PROVE  CallsTyped' /\ Speaking'
  <1>1. UNCHANGED <<items, legs, unread, said>> /\ phase' \in {"bitcoin", "done"}
    BY DEF InterpretBitcoin, DecodeNothing, Interpreted
  <1>2. phase' = "bitcoin" => said = <<>>
    BY DEF InterpretBitcoin, DecodeNothing, Interpreted, Speaking
  <1>3. InOrder(said)'
    BY <1>1, InOrderFrames DEF Speaking
  <1>4. CallsTyped'
    BY <1>1 DEF CallsTyped
  <1>5. QED
    BY <1>1, <1>2, <1>3, <1>4 DEF Speaking

LEMMA SpeakingDecode ==
    ASSUME CallsTyped, Speaking,
           NEW n \in 1 .. MaxItems, NEW calls \in (SUBSET (1 .. n)) \ {{}}, Decode(n, calls)
    PROVE  CallsTyped' /\ Speaking'
  <1>1. /\ said = <<>> /\ said' = said /\ phase' = "legs" /\ items' = n
        /\ legs' \in [calls -> Legs] /\ unread' = calls
    BY DEF Decode, Speaking
  <1>2. CallsTyped'
    <2>1. items' \in 0 .. MaxItems
      BY <1>1, ItemsAssumption
    <2>2. DOMAIN legs' = calls /\ calls \subseteq 1 .. items' /\ \A m \in calls : legs'[m] \in Legs
      BY <1>1
    <2>3. QED
      BY <1>1, <2>1, <2>2 DEF CallsTyped
  <1>3. InOrder(said)'
    BY <1>1, EmptySeq DEF InOrder
  <1>4. QED
    BY <1>1, <1>2, <1>3 DEF Speaking, Below

LEMMA SpeakingReadLeg ==
    ASSUME CallsTyped, Speaking, ReadLeg
    PROVE  CallsTyped' /\ Speaking'
  <1>1. /\ phase = "legs" /\ unread # {} /\ UNCHANGED <<items, legs>>
        /\ said' = said \o (IF Labelled THEN <<Line(Min(unread), "item", 0, Nothing)>> ELSE <<>>)
                        \o <<Line(Min(unread), "decoded", 0, Nothing)>>
    BY DEF ReadLeg
  <1>2. /\ InOrder(said') /\ said' # <<>>
        /\ said'[Len(said')] = Line(Min(unread), "decoded", 0, Nothing)
    BY <1>1, DecodedInOrder
  <1>3. InOrder(said)'
    BY <1>1, <1>2, InOrderFrames
  <1>4. CASE /\ Asks(legs[Min(unread)])
             /\ phase' = "asked"
             /\ UNCHANGED unread
    <2>1. CallsTyped'
      BY <1>1, <1>4 DEF CallsTyped
    <2>2. Asking'
      BY <1>1, <1>2, <1>4 DEF Asking
    <2>3. QED
      BY <1>3, <1>4, <2>1, <2>2 DEF Speaking
  <1>5. CASE unread' = unread \ {Min(unread)} /\ UNCHANGED phase
    <2>1. CallsTyped'
      BY <1>1, <1>5 DEF CallsTyped
    <2>2. said'[Len(said')].item = Min(unread)
      <3>1. Min(unread) \in Nat /\ "decoded" \in Says /\ 0 \in Int /\ Nothing \in Scaled
        BY <1>1, NextLeg DEF Says, Scaled
      <3>2. QED
        BY <1>2, <3>1, LineIs
    <2>3. \A m \in unread' : Below(said, m)'
      BY <1>1, <1>5, <2>2, LaterLegs
    <2>4. QED
      BY <1>1, <1>3, <1>5, <2>1, <2>3 DEF Speaking
  <1>6. QED
    BY <1>4, <1>5 DEF ReadLeg

LEMMA SpeakingAnswers ==
    ASSUME CallsTyped, Speaking, NEW reply \in Replies, TokenListAnswers(reply)
    PROVE  CallsTyped' /\ Speaking'
  <1>1. /\ phase = "asked" /\ phase' = "legs" /\ unread' = unread \ {Min(unread)}
        /\ UNCHANGED <<items, legs>>
    BY DEF TokenListAnswers
  <1>2. unread # {}
    BY <1>1 DEF Speaking, Asking
  <1>3. InOrder(said') /\ said'[Len(said')].item = Min(unread)
    BY <1>1, TokenInOrder
  <1>4. InOrder(said)'
    BY <1>1, <1>3, InOrderFrames
  <1>5. CallsTyped'
    BY <1>1 DEF CallsTyped
  <1>6. \A m \in unread' : Below(said, m)'
    BY <1>1, <1>2, <1>3, LaterLegs
  <1>7. QED
    BY <1>1, <1>4, <1>5, <1>6 DEF Speaking

LEMMA SpeakingStep == CallsTyped /\ Speaking /\ [Next]_vars => (CallsTyped /\ Speaking)'
  <1> SUFFICES ASSUME CallsTyped, Speaking, [Next]_vars
               PROVE  CallsTyped' /\ Speaking'
    OBVIOUS
  <1>1. CASE InterpretBitcoin \/ DecodeNothing \/ Interpreted
    BY <1>1, SpeakingBitcoin
  <1>2. CASE ReadBitcoin
    BY <1>2, SpeakingFrames DEF ReadBitcoin
  <1>3. CASE \E n \in 1 .. MaxItems : \E calls \in (SUBSET (1 .. n)) \ {{}} : Decode(n, calls)
    BY <1>3, SpeakingDecode
  <1>4. CASE ReadLeg
    BY <1>4, SpeakingReadLeg
  <1>5. CASE \E reply \in Replies : TokenListAnswers(reply)
    BY <1>5, SpeakingAnswers
  <1>6. CASE UNCHANGED vars
    BY <1>6, SpeakingFrames DEF vars
  <1>7. QED
    BY <1>1, <1>2, <1>3, <1>4, <1>5, <1>6 DEF Next

(* interpret() says its lines item by item, from the first on: all that is *)
(* still to be read is behind what was said, and a call the token list is  *)
(* asked about is the one the decoder was just heard of.                   *)
THEOREM SpeakingInvariant == Spec => [](CallsTyped /\ Speaking)
  BY SpeakingInit, SpeakingStep, PTL DEF Spec

-----------------------------------------------------------------------------
(* Sums of lines                                                           *)

(* What a line adds to the sum of a kind, and that sum of lines. *)
Term(line, kind) == IF line.kind = kind THEN line.sats ELSE 0

Total(kind, r) ==
    FoldLeft(LAMBDA sum, line : sum + (IF line.kind = kind THEN line.sats ELSE 0), 0, r)

Tallies(v, kind, r) ==
    /\ v \in [0 .. Len(r) -> Nat]
    /\ v[0] = 0
    /\ \A n \in 1 .. Len(r) : v[n] = v[n - 1] + Term(r[n], kind)

TotalFold(kind, r) ==
    CHOOSE f : f = [s \in SUBSET DOMAIN r |->
                       IF s = {} THEN 0 ELSE f[s \ {Max(s)}] + Term(r[Max(s)], kind)]

LEMMA TotalIsFold == ASSUME NEW kind, NEW r PROVE Total(kind, r) = TotalFold(kind, r)[DOMAIN r]
  BY DEF Total, FoldLeft, MapThenFoldSet, TotalFold, Term

LEMMA TermTyped ==
    ASSUME NEW line \in Lines, NEW kind
    PROVE  Term(line, kind) \in Nat
  BY LineTyped DEF Term

LEMMA TotalTallies ==
    ASSUME NEW kind, NEW r \in Seq(Lines)
    PROVE  \E v : Tallies(v, kind, r) /\ Total(kind, r) = v[Len(r)]
  <1> DEFINE N == Len(r)
             t == [n \in 1 .. N |-> Term(r[n], kind)]
             step == [p \in Nat \X (1 .. N) |-> p[1] + t[p[2]]]
             f == TotalFold(kind, r)
  <1>1. N \in Nat /\ DOMAIN r = 1 .. N /\ \A n \in 1 .. N : t[n] \in Nat /\ t[n] = Term(r[n], kind)
    BY TermTyped
  <1> HIDE DEF t
  <1>2. step \in [Nat \X (1 .. N) -> Nat]
    BY <1>1
  <1>3. PICK g \in [SUBSET (1 .. N) -> Nat] : Folds(g, 0, step, N)
    <2> HIDE DEF N, step
    <2>1. QED
      BY <1>1, <1>2, FoldExists
  <1>4. g = [s \in SUBSET DOMAIN r |->
                IF s = {} THEN 0 ELSE g[s \ {Max(s)}] + Term(r[Max(s)], kind)]
    <2>1. ASSUME NEW s \in SUBSET (1 .. N), s # {}
          PROVE  g[s] = g[s \ {Max(s)}] + Term(r[Max(s)], kind)
      <3>1. s \in SUBSET (0 .. N)
        OBVIOUS
      <3>2. Max(s) \in 1 .. N
        BY <1>1, <2>1, <3>1, MaxIs
      <3>3. g[s] = step[<<g[s \ {Max(s)}], Max(s)>>]
        BY <1>3, <2>1 DEF Folds
      <3>4. g[s \ {Max(s)}] \in Nat
        OBVIOUS
      <3>5. g[s] = g[s \ {Max(s)}] + t[Max(s)]
        BY <3>2, <3>3, <3>4
      <3>6. QED
        BY <1>1, <3>2, <3>5
    <2>2. g[{}] = 0
      BY <1>3 DEF Folds
    <2>3. \A s \in SUBSET (1 .. N) :
             g[s] = IF s = {} THEN 0 ELSE g[s \ {Max(s)}] + Term(r[Max(s)], kind)
      BY <2>1, <2>2
    <2> HIDE DEF step
    <2>4. QED
      BY <1>1, <2>3
  <1>5. f = [s \in SUBSET DOMAIN r |->
                IF s = {} THEN 0 ELSE f[s \ {Max(s)}] + Term(r[Max(s)], kind)]
    BY <1>4 DEF TotalFold
  <1> HIDE DEF f, step
  <1> DEFINE v == [n \in 0 .. N |-> f[1 .. n]]
  <1>6. v[0] = 0
    <2>1. 1 .. 0 = {} /\ {} \in SUBSET DOMAIN r /\ 0 \in 0 .. N
      BY <1>1
    <2>2. f[{}] = 0
      BY <1>5, <2>1
    <2>3. QED
      BY <2>1, <2>2
  <1>7. ASSUME NEW n \in 1 .. N
        PROVE  v[n] = v[n - 1] + Term(r[n], kind)
    <2>1. /\ n \in Nat \ {0} /\ 1 .. n \in SUBSET DOMAIN r /\ n \in 0 .. N /\ n - 1 \in 0 .. N
      BY <1>1
    <2>2. Max(1 .. n) = n /\ (1 .. n) \ {n} = 1 .. n - 1 /\ 1 .. n # {}
      BY <2>1, PlacesPeel
    <2>3. f[1 .. n] = f[(1 .. n) \ {Max(1 .. n)}] + Term(r[Max(1 .. n)], kind)
      BY <1>5, <2>1, <2>2
    <2>4. f[1 .. n] = f[1 .. n - 1] + Term(r[n], kind)
      BY <2>2, <2>3
    <2>5. QED
      BY <2>1, <2>4
  <1> HIDE DEF v
  <1> DEFINE T == {n \in Nat : n <= N => v[n] \in Nat}
  <1>8. Nat \subseteq T
    <2>1. 0 \in T
      BY <1>6
    <2>2. ASSUME NEW n \in Nat, n \in T
          PROVE  n + 1 \in T
      <3>1. SUFFICES ASSUME n + 1 <= N
                     PROVE  v[n + 1] \in Nat
        OBVIOUS
      <3>2. v[n] \in Nat /\ n + 1 \in 1 .. N /\ (n + 1) - 1 = n
        BY <1>1, <2>2, <3>1
      <3>3. v[n + 1] = v[n] + Term(r[n + 1], kind) /\ Term(r[n + 1], kind) \in Nat
        BY <1>1, <1>7, <3>2
      <3>4. QED
        BY <3>2, <3>3
    <2> HIDE DEF T
    <2>3. QED
      BY <2>1, <2>2, ByInduction
  <1>9. \A n \in 0 .. N : v[n] \in Nat
    BY <1>1, <1>8
  <1>10. v \in [0 .. N -> Nat]
    BY <1>9 DEF v
  <1>11. Total(kind, r) = v[N]
    <2>1. N \in 0 .. N
      BY <1>1
    <2>2. QED
      BY <1>1, <2>1, TotalIsFold DEF v, f
  <1>12. Tallies(v, kind, r)
    BY <1>6, <1>7, <1>10 DEF Tallies
  <1>13. QED
    BY <1>11, <1>12

LEMMA TotalOfNone == ASSUME NEW kind PROVE Total(kind, <<>>) = 0
  <1>1. <<>> \in Seq(Lines) /\ Len(<<>>) = 0
    BY EmptySeq
  <1>2. PICK v : Tallies(v, kind, <<>>) /\ Total(kind, <<>>) = v[Len(<<>>)]
    BY <1>1, TotalTallies
  <1>3. QED
    BY <1>1, <1>2 DEF Tallies

(* One line more, and the sum of its kind has grown by what it names. *)
LEMMA TotalOfOneMore ==
    ASSUME NEW kind, NEW r \in Seq(Lines), NEW line \in Lines
    PROVE  /\ Total(kind, Append(r, line)) = Total(kind, r) + Term(line, kind)
           /\ Total(kind, r) \in Nat
  <1> DEFINE e == Append(r, line)
             N == Len(r)
  <1>1. /\ e \in Seq(Lines) /\ N \in Nat /\ Len(e) = N + 1 /\ e[N + 1] = line
        /\ \A n \in 1 .. N : e[n] = r[n]
    BY AppendProperties
  <1> HIDE DEF e
  <1>2. PICK v : Tallies(v, kind, r) /\ Total(kind, r) = v[N]
    BY TotalTallies
  <1>3. PICK u : Tallies(u, kind, e) /\ Total(kind, e) = u[Len(e)]
    BY <1>1, TotalTallies
  <1> HIDE DEF N
  <1> DEFINE T == {n \in Nat : n <= N => u[n] = v[n]}
  <1>4. Nat \subseteq T
    <2>1. 0 \in T
      BY <1>2, <1>3 DEF Tallies
    <2>2. ASSUME NEW n \in Nat, n \in T
          PROVE  n + 1 \in T
      <3>1. SUFFICES ASSUME n + 1 <= N
                     PROVE  u[n + 1] = v[n + 1]
        OBVIOUS
      <3>2. u[n] = v[n] /\ (n + 1) - 1 = n
        BY <1>1, <2>2, <3>1
      <3>3. n + 1 \in 1 .. N /\ n + 1 \in 1 .. Len(e)
        BY <1>1, <3>1
      <3>4. e[n + 1] = r[n + 1]
        BY <1>1, <3>3
      <3>5. u[n + 1] = u[(n + 1) - 1] + Term(e[n + 1], kind)
        BY <1>3, <3>3 DEF Tallies
      <3>6. v[n + 1] = v[(n + 1) - 1] + Term(r[n + 1], kind)
        BY <1>2, <3>3 DEF Tallies, N
      <3>7. QED
        BY <3>2, <3>4, <3>5, <3>6
    <2> HIDE DEF T
    <2>3. QED
      BY <2>1, <2>2, ByInduction
  <1>5. u[N] = v[N]
    BY <1>1, <1>4
  <1>6. u[N + 1] = u[(N + 1) - 1] + Term(e[N + 1], kind)
    <2>1. N + 1 \in 1 .. Len(e)
      BY <1>1
    <2>2. QED
      BY <1>3, <2>1 DEF Tallies
  <1>7. (N + 1) - 1 = N
    BY <1>1
  <1>8. v[N] \in Nat
    BY <1>1, <1>2 DEF Tallies, N
  <1>9. QED
    BY <1>1, <1>2, <1>3, <1>5, <1>6, <1>7, <1>8 DEF e

-----------------------------------------------------------------------------
(* A reading of Bitcoin lines                                              *)

(* interpret() reads a Bitcoin request as sheet::bitcoinReading does: what *)
(* it does besides leaves the figures alone.                               *)
THEOREM ReadsAsBitcoin == Spec => BitcoinSpec
  <1>1. Init => BitcoinInit
    BY DEF Init
  <1>2. ASSUME [Next]_vars
        PROVE  [BitcoinNext]_bitcoinVars
    <2>1. CASE InterpretBitcoin
      BY <2>1 DEF InterpretBitcoin, BitcoinNext
    <2>2. CASE ReadBitcoin
      BY <2>2 DEF ReadBitcoin, BitcoinNext
    <2>3. CASE UNCHANGED bitcoinVars
      BY <2>3
    <2>4. QED
      BY <1>2, <2>1, <2>2, <2>3
      DEF Next, vars, DecodeNothing, Decode, ReadLeg, TokenListAnswers, Interpreted
  <1>3. QED
    BY <1>1, <1>2, PTL DEF Spec, BitcoinSpec

-----------------------------------------------------------------------------
(* The layout of lines                                                     *)

AreOutputs(r) == \A k \in 1 .. Len(r) : r[k].kind \in {"own", "send"}

ToFee(r) ==
    /\ Len(r) > 1
    /\ \A k \in 1 .. Len(r) - 1 : r[k].kind \in {"own", "send"}
    /\ r[Len(r)].kind = "fee"

Laid(r) ==
    LET n == Len(r) - 2 IN
    /\ n > 0
    /\ \A k \in 1 .. n : r[k].kind \in {"own", "send"}
    /\ r[n + 1].kind = "fee" /\ r[n + 2].kind = "spends"

(* Lines are in one place of the layout at most. *)
LEMMA OnePlace ==
    ASSUME NEW r \in Seq(Lines)
    PROVE  Laid(r) => ~AreOutputs(r) /\ ~ToFee(r)
  <1>1. SUFFICES ASSUME Laid(r)
                 PROVE  ~AreOutputs(r) /\ ~ToFee(r)
    OBVIOUS
  <1>2. Len(r) \in Nat /\ (Len(r) - 2) + 1 \in 1 .. Len(r) /\ (Len(r) - 2) + 2 = Len(r)
    BY <1>1 DEF Laid
  <1>3. r[(Len(r) - 2) + 1].kind = "fee" /\ r[Len(r)].kind = "spends"
    BY <1>1, <1>2 DEF Laid
  <1>4. QED
    BY <1>2, <1>3 DEF AreOutputs, ToFee

LEMMA LaidOutOneMore ==
    ASSUME NEW r \in Seq(Lines), NEW line \in Lines
    PROVE  /\ AreOutputs(r) /\ line.kind \in {"own", "send"} => AreOutputs(Append(r, line))
           /\ AreOutputs(r) /\ Len(r) > 0 /\ line.kind = "fee" => ToFee(Append(r, line))
           /\ Laid(Append(r, line)) <=> ToFee(r) /\ line.kind = "spends"
  <1> DEFINE e == Append(r, line)
             N == Len(r)
  <1>1. /\ e \in Seq(Lines) /\ N \in Nat /\ Len(e) = N + 1 /\ e[N + 1] = line
        /\ \A n \in 1 .. N : e[n] = r[n]
    BY AppendProperties
  <1> HIDE DEF e
  <1>2. AreOutputs(r) /\ line.kind \in {"own", "send"} => AreOutputs(e)
    <2>1. \A k \in 1 .. N + 1 : k \in 1 .. N \/ k = N + 1
      BY <1>1
    <2>2. QED
      BY <1>1, <2>1 DEF AreOutputs
  <1>3. AreOutputs(r) /\ N > 0 /\ line.kind = "fee" => ToFee(e)
    <2>1. Len(e) - 1 = N /\ (N > 0 => Len(e) > 1)
      BY <1>1
    <2>2. QED
      BY <1>1, <2>1 DEF AreOutputs, ToFee
  <1>4. Laid(e) <=> ToFee(r) /\ line.kind = "spends"
    <2>1. Len(e) - 2 = N - 1 /\ (N - 1) + 1 = N /\ (N - 1) + 2 = N + 1
      BY <1>1
    <2>2. Laid(e) <=> /\ N - 1 > 0
                      /\ \A k \in 1 .. N - 1 : e[k].kind \in {"own", "send"}
                      /\ e[N].kind = "fee" /\ e[N + 1].kind = "spends"
      BY <2>1 DEF Laid
    <2>3. N - 1 > 0 <=> N > 1
      BY <1>1
    <2>4. \A k \in 1 .. N - 1 : e[k] = r[k]
      <3>1. \A k \in 1 .. N - 1 : k \in 1 .. N
        BY <1>1
      <3>2. QED
        BY <1>1, <3>1
    <2>5. N > 1 => e[N] = r[N]
      <3>1. N > 1 => N \in 1 .. N
        BY <1>1
      <3>2. QED
        BY <1>1, <3>1
    <2>6. QED
      BY <1>1, <2>2, <2>3, <2>4, <2>5 DEF ToFee
  <1>5. QED
    BY <1>2, <1>3, <1>4 DEF e

-----------------------------------------------------------------------------
(* Figures are given where they should be                                  *)

(* While lines are read, what is kept of them is their sums, and the place *)
(* in the layout they have come to.                                        *)
Tallied ==
    /\ back = Total("own", read) /\ out = Total("send", read)
    /\ paid = Total("fee", read) /\ in = Total("spends", read)
    /\ at = "outputs" => AreOutputs(read) /\ outputs = Len(read) /\ paid = 0 /\ in = 0
    /\ at = "spends" => ToFee(read) /\ in = 0
    /\ at = "done" => Laid(read)

Reading == reading \in {"unread", "reading"} => Tallied

Sound(r) ==
    /\ Laid(r)
    /\ Total("own", r) + Total("send", r) + Total("fee", r) = Total("spends", r)
    /\ Total("spends", r) <= MaxSats

IsRight ==
    reading \notin {"unread", "reading"} =>
        reading = IF ~Sound(read) THEN "nothing to add"
                  ELSE IF Total("send", read) = 0 THEN "everything comes back" ELSE "sends"

LEMMA RightIs == ReadingIsRight <=> IsRight
  BY DEF ReadingIsRight, SumOf, InLayout, IsRight, Sound, Laid, Total

LEMMA RightIsNext == ReadingIsRight' <=> IsRight'
  BY RightIs, PTL

LEMMA TalliedInit == BitcoinInit => Reading /\ ReadingIsRight
  <1>1. \A k \in 1 .. Len(<<>>) : FALSE
    BY EmptySeq
  <1>2. QED
    BY <1>1, TotalOfNone, EmptySeq
    DEF BitcoinInit, Reading, Tallied, ReadingIsRight, AreOutputs

(* A line that fits is tallied where it belongs. *)
LEMMA TalliedTake ==
    ASSUME BInv, Tallied, WithinCap, NEW line \in Lines, Fits(line), Take(line),
           read' = Append(read, line)
    PROVE  Tallied'
  <1> DEFINE e == Append(read, line)
  <1>1. read \in Seq(Lines) /\ BitcoinTypeOK /\ Len(read) \in Nat
    BY DEF BInv, BitcoinTypeOK
  <1>2. \A kind : /\ Total(kind, e) = Total(kind, read) + Term(line, kind)
                  /\ Total(kind, read) \in Nat
    BY <1>1, TotalOfOneMore
  <1>3. line.sats \in Nat /\ line.kind \in {"own", "send", "fee", "spends"}
    BY LineTyped, FitsBounds
  <1>4. /\ back' = back + (IF line.kind = "own" THEN line.sats ELSE 0)
        /\ out' = out + (IF line.kind = "send" THEN line.sats ELSE 0)
    BY <1>1, TakeExact
  <1>5. /\ AreOutputs(read) /\ line.kind \in {"own", "send"} => AreOutputs(e)
        /\ AreOutputs(read) /\ Len(read) > 0 /\ line.kind = "fee" => ToFee(e)
        /\ Laid(e) <=> ToFee(read) /\ line.kind = "spends"
    BY <1>1, LaidOutOneMore
  <1>6. Len(e) = Len(read) + 1
    BY <1>1, AppendProperties
  <1> HIDE DEF e
  <1>7. /\ Total("own", e) = Total("own", read) + Term(line, "own")
        /\ Total("send", e) = Total("send", read) + Term(line, "send")
        /\ Total("fee", e) = Total("fee", read) + Term(line, "fee")
        /\ Total("spends", e) = Total("spends", read) + Term(line, "spends")
    BY <1>2
  <1>8. back' = Total("own", e) /\ out' = Total("send", e)
    BY <1>4, <1>7 DEF Tallied, Term
  <1>9. CASE at = "outputs" /\ line.kind \in {"own", "send"}
    <2>1. AreOutputs(e) /\ outputs' = Len(e) /\ at' = "outputs"
      BY <1>5, <1>6, <1>9 DEF Tallied, Take
    <2>2. paid' = 0 /\ in' = 0 /\ paid' = Total("fee", e) /\ in' = Total("spends", e)
      BY <1>7, <1>9 DEF Tallied, Take, Term
    <2>3. QED
      BY <1>8, <2>1, <2>2 DEF Tallied, e
  <1>10. CASE at = "outputs" /\ outputs > 0 /\ line.kind = "fee"
    <2>1. ToFee(e) /\ at' = "spends"
      BY <1>5, <1>10 DEF Tallied, Take
    <2>2. in' = 0 /\ paid' = Total("fee", e) /\ in' = Total("spends", e)
      BY <1>3, <1>7, <1>10 DEF Tallied, Take, Term
    <2>3. QED
      BY <1>8, <2>1, <2>2 DEF Tallied, e
  <1>11. CASE at = "spends" /\ line.kind = "spends"
    <2>1. Laid(e) /\ at' = "done"
      BY <1>5, <1>11 DEF Tallied, Take
    <2>2. paid' = Total("fee", e) /\ in' = Total("spends", e)
      BY <1>2, <1>3, <1>7, <1>11 DEF Tallied, Take, Term
    <2>3. QED
      BY <1>8, <2>1, <2>2 DEF Tallied, e
  <1>12. QED
    BY <1>9, <1>10, <1>11 DEF Fits

(* A line that passes the cap, or does not fit, ends lines that have no    *)
(* figures: none is turned away that had.                                  *)
LEMMA NoneLost ==
    ASSUME BInv, Tallied, WithinCap, NEW line \in Lines,
           \/ ~Fits(line)
           \/ Fits(line) /\ Take(line) /\ ~WithinCap'
    PROVE  ~Sound(Append(read, line))
  <1>1. SUFFICES ASSUME Sound(Append(read, line))
                 PROVE  FALSE
    OBVIOUS
  <1>2. read \in Seq(Lines) /\ BitcoinTypeOK
    BY DEF BInv, BitcoinTypeOK
  <1>3. ToFee(read) /\ line.kind = "spends"
    BY <1>1, <1>2, LaidOutOneMore DEF Sound
  <1>4. at = "spends"
    <2>1. at # "done"
      BY <1>2, <1>3, OnePlace DEF Tallied
    <2>2. at # "outputs"
      <3>1. ~AreOutputs(read)
        <4>1. Len(read) \in Nat /\ Len(read) > 1 /\ read[Len(read)].kind = "fee"
          BY <1>2, <1>3 DEF ToFee
        <4>2. Len(read) \in 1 .. Len(read)
          BY <4>1
        <4>3. QED
          BY <4>1, <4>2 DEF AreOutputs
      <3>2. QED
        BY <3>1 DEF Tallied
    <2>3. QED
      BY <1>2, <2>1, <2>2 DEF BitcoinTypeOK
  <1>5. line.sats \in Nat
    BY LineTyped
  <1>6. line.sats <= MaxSats
    <2>1. Total("spends", Append(read, line)) = Total("spends", read) + Term(line, "spends")
      BY <1>2, TotalOfOneMore
    <2>2. Total("spends", read) = 0 /\ Term(line, "spends") = line.sats
      BY <1>3, <1>4 DEF Tallied, Term
    <2>3. Total("spends", Append(read, line)) <= MaxSats
      BY <1>1 DEF Sound
    <2>4. QED
      BY <1>5, <2>1, <2>2, <2>3
  <1>7. Amount(line.sats)
    <2>1. line.sats < Modulus /\ line.sats <= MaxPrinted /\ Modulus \in Nat
      BY <1>5, <1>6, SatsAssumption
    <2>2. line.sats % Modulus = line.sats
      BY <1>5, <2>1, SmallMod
    <2>3. QED
      BY <1>6, <2>1, <2>2 DEF Amount
  <1>8. Fits(line)
    BY <1>3, <1>4, <1>7 DEF Fits
  <1>9. UNCHANGED <<back, out, paid>>
    BY <1>3, <1>8 DEF Take
  <1>10. QED
    BY <1>8, <1>9 DEF WithinCap

LEMMA RightReadLine ==
    ASSUME BInv, Reading, NEW line \in Lines, ReadLine(line)
    PROVE  Reading' /\ ReadingIsRight'
  <1>1. Tallied /\ WithinCap /\ read' = Append(read, line)
    BY DEF ReadLine, Reading, BInv, Capped
  <1>2. CASE Fits(line) /\ Take(line) /\ WithinCap'
    <2>1. reading' = "reading"
      BY <1>2 DEF ReadLine
    <2>2. Tallied'
      BY <1>1, <1>2, TalliedTake
    <2>3. QED
      BY <2>1, <2>2 DEF Reading, ReadingIsRight
  <1>3. CASE ~Fits(line) \/ (Fits(line) /\ Take(line) /\ ~WithinCap')
    <2>1. reading' = "nothing to add"
      BY <1>3 DEF ReadLine
    <2>2. ~Sound(Append(read, line))
      BY <1>1, <1>3, NoneLost
    <2>3. ~Sound(read')
      BY <1>1, <2>2
    <2>4. ReadingIsRight'
      BY <2>1, <2>3, RightIsNext DEF IsRight
    <2>5. QED
      BY <2>1, <2>4 DEF Reading
  <1>4. QED
    BY <1>2, <1>3 DEF ReadLine

LEMMA RightFinish ==
    ASSUME BInv, Reading, Finish
    PROVE  Reading' /\ ReadingIsRight'
  <1>1. Tallied /\ WithinCap /\ read \in Seq(Lines) /\ UNCHANGED read
    BY DEF Finish, Reading, BInv, Capped, BitcoinTypeOK
  <1>2. back \in Nat /\ out \in Nat /\ paid \in Nat /\ in \in Nat /\ in <= MaxSats
    BY DEF BInv, BitcoinTypeOK, Sats
  <1>3. Plus(Plus(back, out), paid) = back + out + paid
    <2>1. Plus(back, out) = back + out
      BY <1>1, <1>2, PlusExact, SatsAssumption DEF WithinCap
    <2>2. QED
      BY <1>1, <1>2, <2>1, PlusExact, SatsAssumption DEF WithinCap
  <1>4. Laid(read) <=> at = "done"
    <2>1. at \in {"outputs", "spends", "done"}
      BY DEF BInv, BitcoinTypeOK
    <2>2. QED
      BY <1>1, <2>1, OnePlace DEF Tallied
  <1>5. Sound(read) <=> at = "done" /\ Plus(Plus(back, out), paid) = in
    BY <1>1, <1>2, <1>3, <1>4 DEF Tallied, Sound
  <1>6. reading' = IF ~Sound(read) THEN "nothing to add"
                   ELSE IF Total("send", read) = 0 THEN "everything comes back" ELSE "sends"
    BY <1>1, <1>5 DEF Finish, Tallied
  <1>7. ReadingIsRight'
    BY <1>1, <1>6, RightIsNext DEF IsRight
  <1>8. reading' \notin {"unread", "reading"}
    BY <1>6
  <1>9. QED
    BY <1>7, <1>8 DEF Reading

LEMMA RightStep == BInv /\ Reading /\ ReadingIsRight /\ [BitcoinNext]_bitcoinVars
                      => Reading' /\ ReadingIsRight'
  <1> SUFFICES ASSUME BInv, Reading, ReadingIsRight, [BitcoinNext]_bitcoinVars
               PROVE  Reading' /\ ReadingIsRight'
    OBVIOUS
  <1>1. CASE Start
    BY <1>1 DEF Start, Reading, Tallied, ReadingIsRight
  <1>2. CASE \E line \in Lines : ReadLine(line)
    BY <1>2, RightReadLine
  <1>3. CASE Finish
    BY <1>3, RightFinish
  <1>4. CASE UNCHANGED bitcoinVars
    <2>1. UNCHANGED <<at, back, out, paid, in, outputs, read, reading>>
      BY <1>4 DEF bitcoinVars
    <2>2. Reading'
      BY <2>1 DEF Reading, Tallied
    <2>3. ReadingIsRight'
      BY <2>1, RightIs, RightIsNext DEF IsRight
    <2>4. QED
      BY <2>2, <2>3
  <1>5. QED
    BY <1>1, <1>2, <1>3, <1>4 DEF BitcoinNext

-----------------------------------------------------------------------------
(* The theorems                                                            *)

(* What interpret() keeps is of its types: the figures in their width, the *)
(* calls decoded among the items, and every line about one of them.        *)
THEOREM InterpretationTyped == Spec => []TypeOK
  <1>1. BInv /\ CallsTyped /\ Speaking => TypeOK
    <2>1. SUFFICES ASSUME BInv, CallsTyped, Speaking
                   PROVE  TypeOK
      OBVIOUS
    <2>2. Range(legs) \subseteq Legs
      BY <2>1 DEF CallsTyped, Range
    <2>3. \A n \in DOMAIN said : said[n].item \in 1 .. items
      <3>1. said \in Seq(Speech) /\ \A n \in 1 .. Len(said) : TrueOf(said[n])
        BY <2>1 DEF Speaking, InOrder
      <3>2. DOMAIN said = 1 .. Len(said)
        BY <3>1
      <3>3. QED
        BY <2>1, <3>1, <3>2 DEF TrueOf, CallsTyped
    <2>4. QED
      BY <2>1, <2>2, <2>3 DEF BInv, CallsTyped, TypeOK
  <1>2. QED
    BY <1>1, SpeakingInvariant, ReadsAsBitcoin, BitcoinInvariant, PTL

(* However many items a request has, and whatever is decoded of them: each *)
(* is spoken of together, behind its label where there are several, and by *)
(* the token list only where the decoder did not verify (interpret(),      *)
(* tokenListLines()).                                                      *)
THEOREM EachSpeaksOfItsItem == Spec => []SaidOfItsItem
  <1>1. Speaking => SaidOfItsItem
    <2>1. SUFFICES ASSUME Speaking
                   PROVE  SaidOfItsItem
      OBVIOUS
    <2>2. InOrder(said) /\ DOMAIN said = 1 .. Len(said)
      BY <2>1 DEF Speaking, InOrder
    <2>3. QED
      BY <2>2 DEF InOrder, TrueOf, NeedsLabel, Follows, SaidOfItsItem
  <1>2. QED
    BY <1>1, SpeakingInvariant, PTL

(* However long an amount and wherever its point comes to stand, what      *)
(* scaleUnits() gives is that amount exactly, without a zero at its end.   *)
THEOREM AmountsAreExact == Spec => []AmountsExact
  <1>1. CallsTyped /\ Speaking => AmountsExact
    <2>1. SUFFICES ASSUME CallsTyped, Speaking,
                          NEW n \in DOMAIN said, said[n].says = "amount"
                   PROVE  LET amount == said[n].amount
                              short == said[n].decimals - Len(amount.frac)
                          IN  /\ amount.whole # <<>>
                              /\ amount.frac # <<>> => Last(amount.frac) # 0
                              /\ Value(amount.whole \o amount.frac \o Zeros(short)) =
                                    Value(RawAmount(legs[said[n].item]))
      BY DEF AmountsExact
    <2>2. said \in Seq(Speech) /\ n \in 1 .. Len(said) /\ TrueOf(said[n])
      BY <2>1 DEF Speaking, InOrder
    <2> DEFINE raw == RawAmount(legs[said[n].item])
               d == said[n].decimals
    <2>3. d \in Int
      <3>1. said[n] \in Speech
        BY <2>2
      <3>2. QED
        BY <3>1 DEF Speech
    <2>4. said[n].amount = scaleUnits(raw, d) /\ scaleUnits(raw, d) # Nothing
      BY <2>1, <2>2 DEF TrueOf
    <2>5. raw \in Seq(Nat)
      <3>1. legs[said[n].item] \in Legs
        BY <2>1, <2>2 DEF TrueOf, CallsTyped
      <3>2. legs[said[n].item].args \in Seq(Seq(Nat))
        BY <3>1, LegsAssumption
      <3>3. QED
        BY <3>2, EmptySeq DEF RawAmount
    <2> HIDE DEF raw, d
    <2>6. LET amount == scaleUnits(raw, d)
          IN  /\ amount.whole # <<>>
              /\ amount.frac # <<>> => Last(amount.frac) # 0
              /\ Value(amount.whole \o amount.frac \o Zeros(d - Len(amount.frac))) = Value(raw)
      BY <2>3, <2>4, <2>5, ScalesExactly
    <2>7. QED
      BY <2>4, <2>6 DEF raw, d
  <1>2. QED
    BY <1>1, SpeakingInvariant, PTL
(* Whatever lines a Bitcoin request has, in whatever order and however     *)
(* many: it is given figures exactly where its lines are the manager's     *)
(* layout and balance as numbers (sheet::bitcoinReading): neither the caps *)
(* nor the early ways out of the loop lose one that does, and none is let  *)
(* by that does not.                                                       *)
THEOREM ReadingsAreRight == Spec => []ReadingIsRight
  <1>1. BitcoinSpec => []ReadingIsRight
    BY TalliedInit, RightStep, BitcoinInvariant, PTL DEF BitcoinSpec
  <1>2. QED
    BY <1>1, ReadsAsBitcoin, PTL
=============================================================================
