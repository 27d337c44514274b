-------------------------- MODULE CallStackProofs --------------------------
(***************************************************************************)
(* Lemmas about CallStack: a guard that a handler takes before it calls    *)
(* and releases when it returns (m_inFlight, m_walletsInFlight).  However  *)
(* calls nest, it is set exactly while one blocked call holds it.  K is    *)
(* the set of the frames that hold the guard, F that of all frames.        *)
(***************************************************************************)
EXTENDS CallStack, SequenceTheorems, TLAPS

Holding(s, K) == {i \in DOMAIN s : s[i] \in K}

OneHolds(guard, s, K) ==
    /\ guard <=> Holding(s, K) # {}
    /\ \A i, j \in Holding(s, K) : i = j

(* A push on s moves what holds up by one. *)
LEMMA PushHolding ==
    ASSUME NEW F, NEW f \in F, NEW s \in Seq(F), NEW K
    PROVE  /\ \A i \in Holding(s, K) : i + 1 \in Holding(Push(f, s), K)
           /\ \A i \in Holding(Push(f, s), K) :
                 (i = 1 /\ f \in K) \/ (i \in Int /\ i - 1 \in Holding(s, K))
           /\ f \in K => 1 \in Holding(Push(f, s), K)
  <1>0. /\ Len(s) \in Nat
        /\ DOMAIN s = 1 .. Len(s)
        /\ DOMAIN Push(f, s) = 1 .. Len(s) + 1
        /\ Push(f, s)[1] = f
        /\ \A i \in 1 .. Len(s) : Push(f, s)[i + 1] = s[i]
    BY DEF Push
  <1>1. ASSUME NEW i \in Holding(s, K)
        PROVE  i + 1 \in Holding(Push(f, s), K)
    <2>1. i \in 1 .. Len(s) /\ s[i] \in K
      BY <1>0 DEF Holding
    <2>2. i + 1 \in DOMAIN Push(f, s) /\ Push(f, s)[i + 1] = s[i]
      BY <2>1, <1>0
    <2>3. QED
      BY <2>1, <2>2 DEF Holding
  <1>2. ASSUME NEW i \in Holding(Push(f, s), K)
        PROVE  (i = 1 /\ f \in K) \/ (i \in Int /\ i - 1 \in Holding(s, K))
    <2>1. i \in 1 .. Len(s) + 1 /\ Push(f, s)[i] \in K
      BY <1>0 DEF Holding
    <2>2. CASE i = 1
      BY <2>1, <2>2, <1>0
    <2>3. CASE i # 1
      <3>1. i - 1 \in 1 .. Len(s) /\ (i - 1) + 1 = i /\ i \in Int
        BY <2>1, <2>3, <1>0
      <3>2. Push(f, s)[(i - 1) + 1] = s[i - 1]
        BY <3>1, <1>0
      <3>3. s[i - 1] \in K /\ i - 1 \in DOMAIN s
        BY <2>1, <3>1, <3>2, <1>0
      <3>4. QED
        BY <3>1, <3>3 DEF Holding
    <2>4. QED
      BY <2>2, <2>3
  <1>3. f \in K => 1 \in Holding(Push(f, s), K)
    <2>1. 1 \in DOMAIN Push(f, s) /\ Push(f, s)[1] = f
      BY <1>0
    <2>2. QED
      BY <2>1 DEF Holding
  <1>4. QED
    BY <1>1, <1>2, <1>3

(* A return moves it down by one. *)
LEMMA TailHolding ==
    ASSUME NEW F, NEW s \in Seq(F), s # <<>>, NEW K
    PROVE  /\ \A i \in Holding(Tail(s), K) : i \in Nat \ {0} /\ i + 1 \in Holding(s, K)
           /\ \A i \in Holding(s, K) :
                 (i = 1 /\ Head(s) \in K) \/ (i \in Int /\ i - 1 \in Holding(Tail(s), K))
           /\ Head(s) \in K => 1 \in Holding(s, K)
  <1>0. /\ Len(s) \in Nat /\ Len(s) > 0
        /\ DOMAIN s = 1 .. Len(s)
        /\ DOMAIN Tail(s) = 1 .. Len(s) - 1
        /\ Head(s) = s[1]
        /\ \A i \in 1 .. Len(s) - 1 : Tail(s)[i] = s[i + 1]
    OBVIOUS
  <1>1. ASSUME NEW i \in Holding(Tail(s), K)
        PROVE  i \in Nat \ {0} /\ i + 1 \in Holding(s, K)
    <2>1. i \in 1 .. Len(s) - 1 /\ Tail(s)[i] \in K
      BY <1>0 DEF Holding
    <2>2. i \in Nat \ {0} /\ i + 1 \in DOMAIN s /\ Tail(s)[i] = s[i + 1]
      BY <2>1, <1>0
    <2>3. QED
      BY <2>1, <2>2 DEF Holding
  <1>2. ASSUME NEW i \in Holding(s, K)
        PROVE  (i = 1 /\ Head(s) \in K) \/ (i \in Int /\ i - 1 \in Holding(Tail(s), K))
    <2>1. i \in 1 .. Len(s) /\ s[i] \in K
      BY <1>0 DEF Holding
    <2>2. CASE i = 1
      BY <2>1, <2>2, <1>0
    <2>3. CASE i # 1
      <3>1. i - 1 \in 1 .. Len(s) - 1 /\ (i - 1) + 1 = i /\ i \in Int
        BY <2>1, <2>3, <1>0
      <3>2. Tail(s)[i - 1] = s[(i - 1) + 1]
        BY <3>1, <1>0
      <3>3. Tail(s)[i - 1] \in K /\ i - 1 \in DOMAIN Tail(s)
        BY <2>1, <3>1, <3>2, <1>0
      <3>4. QED
        BY <3>1, <3>3 DEF Holding
    <2>4. QED
      BY <2>2, <2>3
  <1>3. Head(s) \in K => 1 \in Holding(s, K)
    BY <1>0 DEF Holding
  <1>4. QED
    BY <1>1, <1>2, <1>3

-----------------------------------------------------------------------------
(* What the handlers do to the guard. *)

(* A call that does not hold the guard is pushed. *)
LEMMA PushOther ==
    ASSUME NEW F, NEW f \in F, NEW s \in Seq(F), NEW K, NEW guard \in BOOLEAN,
           OneHolds(guard, s, K), f \notin K
    PROVE  OneHolds(guard, Push(f, s), K)
  <1>1. ASSUME NEW i \in Holding(Push(f, s), K), NEW j \in Holding(Push(f, s), K)
        PROVE  i = j
    <2>1. i \in Int /\ j \in Int /\ i - 1 \in Holding(s, K) /\ j - 1 \in Holding(s, K)
      BY PushHolding
    <2>2. i - 1 = j - 1
      BY <2>1 DEF OneHolds
    <2>3. QED
      BY <2>1, <2>2
  <1>2. Holding(s, K) # {} <=> Holding(Push(f, s), K) # {}
    BY PushHolding
  <1>3. QED
    BY <1>1, <1>2 DEF OneHolds

(* The guard is free, is taken, and a call that holds it is pushed. *)
LEMMA PushHolder ==
    ASSUME NEW F, NEW f \in F, NEW s \in Seq(F), NEW K,
           OneHolds(FALSE, s, K), f \in K
    PROVE  OneHolds(TRUE, Push(f, s), K)
  <1>1. Holding(s, K) = {}
    BY DEF OneHolds
  <1>2. 1 \in Holding(Push(f, s), K)
    BY PushHolding
  <1>3. \A i \in Holding(Push(f, s), K) : i = 1
    BY <1>1, PushHolding
  <1>4. QED
    BY <1>2, <1>3 DEF OneHolds

(* A call that does not hold the guard returns. *)
LEMMA PopOther ==
    ASSUME NEW F, NEW s \in Seq(F), s # <<>>, NEW K, NEW guard \in BOOLEAN,
           OneHolds(guard, s, K), Head(s) \notin K
    PROVE  OneHolds(guard, Tail(s), K)
  <1>1. ASSUME NEW i \in Holding(Tail(s), K), NEW j \in Holding(Tail(s), K)
        PROVE  i = j
    <2>1. i \in Nat /\ j \in Nat /\ i + 1 \in Holding(s, K) /\ j + 1 \in Holding(s, K)
      BY TailHolding
    <2>2. i + 1 = j + 1
      BY <2>1 DEF OneHolds
    <2>3. QED
      BY <2>1, <2>2
  <1>2. Holding(s, K) # {} <=> Holding(Tail(s), K) # {}
    BY TailHolding
  <1>3. QED
    BY <1>1, <1>2 DEF OneHolds

(* The call that holds the guard returns: it was set, and nobody else      *)
(* below holds it.                                                         *)
LEMMA PopHolder ==
    ASSUME NEW F, NEW s \in Seq(F), s # <<>>, NEW K, NEW guard \in BOOLEAN,
           OneHolds(guard, s, K), Head(s) \in K
    PROVE  guard = TRUE /\ OneHolds(FALSE, Tail(s), K)
  <1>1. 1 \in Holding(s, K)
    BY TailHolding
  <1>2. ASSUME NEW i \in Holding(Tail(s), K)
        PROVE  FALSE
    <2>1. i \in Nat \ {0} /\ i + 1 \in Holding(s, K)
      BY <1>2, TailHolding
    <2>2. i + 1 = 1
      BY <1>1, <2>1 DEF OneHolds
    <2>3. QED
      BY <2>1, <2>2
  <1>3. QED
    BY <1>1, <1>2 DEF OneHolds

-----------------------------------------------------------------------------
(* Sequences, of blocked calls and of what is sent: their types narrowed   *)
(* and widened, and what is found in them.                                 *)

HasIn(s, S) == \E n \in DOMAIN s : s[n] \in S

LEMMA SeqWiden ==
    ASSUME NEW S, NEW T, S \subseteq T, NEW s \in Seq(S)
    PROVE  s \in Seq(T)
  OBVIOUS

LEMMA TailIn ==
    ASSUME NEW S, NEW s \in Seq(S), s # <<>>
    PROVE  Head(s) \in S /\ Tail(s) \in Seq(S)
  OBVIOUS

LEMMA PushIn ==
    ASSUME NEW S, NEW s \in Seq(S), NEW x \in S
    PROVE  Push(x, s) \in Seq(S) /\ Append(s, x) \in Seq(S)
  BY DEF Push

LEMMA OneIn ==
    ASSUME NEW S, NEW x \in S
    PROVE  <<x>> \in Seq(S)
  OBVIOUS

LEMMA HasInConcat ==
    ASSUME NEW T, NEW a \in Seq(T), NEW b \in Seq(T), NEW S, HasIn(a, S) \/ HasIn(b, S)
    PROVE  HasIn(a \o b, S)
  <1>1. CASE HasIn(a, S)
    <2>1. PICK n \in DOMAIN a : a[n] \in S
      BY <1>1 DEF HasIn
    <2>2. n \in DOMAIN (a \o b) /\ (a \o b)[n] = a[n]
      OBVIOUS
    <2>3. QED
      BY <2>1, <2>2 DEF HasIn
  <1>2. CASE HasIn(b, S)
    <2>1. PICK n \in DOMAIN b : b[n] \in S
      BY <1>2 DEF HasIn
    <2>2. Len(a) + n \in DOMAIN (a \o b) /\ (a \o b)[Len(a) + n] = b[n]
      OBVIOUS
    <2>3. QED
      BY <2>1, <2>2 DEF HasIn
  <1>3. QED
    BY <1>1, <1>2

LEMMA HasInAppend ==
    ASSUME NEW T, NEW a \in Seq(T), NEW x \in T, NEW S, HasIn(a, S) \/ x \in S
    PROVE  HasIn(Append(a, x), S)
  <1>1. CASE HasIn(a, S)
    <2>1. PICK n \in DOMAIN a : a[n] \in S
      BY <1>1 DEF HasIn
    <2>2. n \in DOMAIN Append(a, x) /\ Append(a, x)[n] = a[n]
      OBVIOUS
    <2>3. QED
      BY <2>1, <2>2 DEF HasIn
  <1>2. CASE x \in S
    <2>1. Len(a) + 1 \in DOMAIN Append(a, x) /\ Append(a, x)[Len(a) + 1] = x
      OBVIOUS
    <2>2. QED
      BY <1>2, <2>1 DEF HasIn
  <1>3. QED
    BY <1>1, <1>2

LEMMA HasInTail ==
    ASSUME NEW T, NEW s \in Seq(T), s # <<>>, NEW S, HasIn(s, S), Head(s) \notin S
    PROVE  HasIn(Tail(s), S)
  <1>1. PICK n \in DOMAIN s : s[n] \in S
    BY DEF HasIn
  <1>2. n # 1
    BY <1>1
  <1>3. n - 1 \in DOMAIN Tail(s) /\ Tail(s)[n - 1] = s[n]
    BY <1>2
  <1>4. QED
    BY <1>1, <1>3 DEF HasIn

LEMMA SeqNarrow ==
    ASSUME NEW S, NEW T, NEW s \in Seq(S), \A i \in DOMAIN s : s[i] \in T
    PROVE  s \in Seq(T)
  OBVIOUS

-----------------------------------------------------------------------------
(* Calls that do not nest: of the frames in K at most one is blocked.      *)

AtMostOne(s, K) == \A i, j \in Holding(s, K) : i = j

(* The one on top is then the only one. *)
LEMMA OnlyHolder ==
    ASSUME NEW F, NEW s \in Seq(F), s # <<>>, NEW K, Head(s) \in K, AtMostOne(s, K)
    PROVE  Tail(s) \in Seq(F \ K)
  <1>1. Tail(s) \in Seq(F)
    OBVIOUS
  <1>2. \A i \in DOMAIN Tail(s) : Tail(s)[i] \in F
    BY <1>1
  <1>3. ASSUME NEW i \in DOMAIN Tail(s), Tail(s)[i] \in K
        PROVE  FALSE
    <2>1. i \in Holding(Tail(s), K)
      BY <1>3 DEF Holding
    <2>2. i \in Nat \ {0} /\ i + 1 \in Holding(s, K) /\ 1 \in Holding(s, K)
      BY <2>1, TailHolding
    <2>3. QED
      BY <2>2 DEF AtMostOne
  <1>4. QED
    BY <1>1, <1>2, <1>3, SeqNarrow
=============================================================================
