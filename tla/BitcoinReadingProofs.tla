------------------------ MODULE BitcoinReadingProofs ------------------------
(***************************************************************************)
(* Proofs about BitcoinReading: whatever amounts the lines name, however   *)
(* many they are, no sum in use has wrapped, so figures given do balance.  *)
(***************************************************************************)
EXTENDS BitcoinReading, SequenceTheorems, TLAPS

(* While lines are read, every figure is within what there is: this is     *)
(* what the cap behind each line is for.                                   *)
Capped == reading \in {"unread", "reading"} => WithinCap

BInv ==
    /\ BitcoinTypeOK
    /\ Capped
    /\ in <= MaxSats
    /\ FiguresBalance

-----------------------------------------------------------------------------
(* Arithmetic *)

LEMMA SmallMod ==
    ASSUME NEW m \in Nat, NEW a \in Nat, a < m
    PROVE  a % m = a
  OBVIOUS

LEMMA ModRange ==
    ASSUME NEW m \in Nat, m > 0, NEW a \in Nat
    PROVE  a % m \in 0 .. m - 1
  OBVIOUS

(* What amount() lets by is what the line names, and within the cap. *)
LEMMA AmountBounds ==
    ASSUME NEW sats \in Nat, Amount(sats)
    PROVE  sats <= MaxSats
  BY SatsAssumption, SmallMod DEF Amount

(* A sum of two figures within the cap does not wrap, nor does the third   *)
(* added to it.                                                            *)
LEMMA PlusExact ==
    ASSUME NEW total \in Nat, NEW sats \in Nat, total + sats < Modulus
    PROVE  Plus(total, sats) = total + sats
  BY SatsAssumption, SmallMod DEF Plus

LEMMA PlusTyped ==
    ASSUME NEW total \in Nat, NEW sats \in Nat
    PROVE  Plus(total, sats) \in Sats
  BY SatsAssumption, ModRange DEF Plus, Sats

LEMMA LineTyped ==
    ASSUME NEW line \in Lines
    PROVE  line.sats \in Nat /\ (line.kind # "other" => line.sats \in Amounts)
  <1>1. CASE line \in [kind : {"own", "send", "fee", "spends"}, sats : Amounts]
    BY <1>1, AmountsAssumption
  <1>2. CASE line \in [kind : {"other"}, sats : {0}]
    BY <1>2
  <1>3. QED
    BY <1>1, <1>2 DEF Lines

-----------------------------------------------------------------------------
(* Steps *)

(* A line that fits is within the cap where it is added up, and in what it *)
(* spends.                                                                 *)
LEMMA FitsBounds ==
    ASSUME NEW line \in Lines, Fits(line)
    PROVE  /\ line.kind \in {"own", "send", "spends"} => line.sats <= MaxSats
           /\ line.sats \in Sats
           /\ line.kind \in {"own", "send", "fee", "spends"}
  <1>1. line.sats \in Nat
    BY LineTyped
  <1>2. line.kind \in {"own", "send", "spends"} => line.sats <= MaxSats
    BY <1>1, AmountBounds DEF Fits
  <1>3. line.sats <= MaxPrinted
    BY <1>1 DEF Fits, Amount
  <1>4. QED
    BY <1>1, <1>2, <1>3, SatsAssumption DEF Fits, Sats

LEMMA TakeTyped ==
    ASSUME BitcoinTypeOK, NEW line \in Lines, Fits(line), Take(line)
    PROVE  /\ at' \in {"outputs", "spends", "done"}
           /\ back' \in Sats /\ out' \in Sats /\ paid' \in Sats /\ in' \in Sats
           /\ outputs' \in Nat
  <1>1. line.sats \in Sats
    BY FitsBounds
  <1>2. line.sats \in Nat /\ back \in Nat /\ out \in Nat
    BY <1>1 DEF BitcoinTypeOK, Sats
  <1>3. Plus(back, line.sats) \in Sats /\ Plus(out, line.sats) \in Sats
    BY <1>2, PlusTyped
  <1>4. QED
    BY <1>1, <1>3 DEF BitcoinTypeOK, Take

(* What the sums gain is what the line names. *)
LEMMA TakeExact ==
    ASSUME BitcoinTypeOK, WithinCap, NEW line \in Lines, Fits(line), Take(line)
    PROVE  /\ back' = back + (IF line.kind = "own" THEN line.sats ELSE 0)
           /\ out' = out + (IF line.kind = "send" THEN line.sats ELSE 0)
  <1>1. line.sats \in Nat /\ back \in Nat /\ out \in Nat
    BY LineTyped DEF BitcoinTypeOK, Sats
  <1>2. CASE line.kind = "own"
    <2>1. Plus(back, line.sats) = back + line.sats
      BY <1>1, <1>2, FitsBounds, PlusExact, SatsAssumption DEF WithinCap
    <2>2. QED
      BY <1>1, <1>2, <2>1 DEF Take
  <1>3. CASE line.kind = "send"
    <2>1. Plus(out, line.sats) = out + line.sats
      BY <1>1, <1>3, FitsBounds, PlusExact, SatsAssumption DEF WithinCap
    <2>2. QED
      BY <1>1, <1>3, <2>1 DEF Take
  <1>4. CASE line.kind \notin {"own", "send"}
    BY <1>1, <1>4 DEF Take
  <1>5. QED
    BY <1>2, <1>3, <1>4

LEMMA BInvInit == BitcoinInit => BInv
  BY SatsAssumption
  DEF BitcoinInit, BInv, BitcoinTypeOK, Capped, WithinCap, FiguresBalance, Figures, Readings, Sats

LEMMA BInvStart ==
    ASSUME BInv, Start
    PROVE  BInv'
  BY DEF Start, BInv, BitcoinTypeOK, Capped, WithinCap, FiguresBalance, Figures, Readings

LEMMA BInvReadLine ==
    ASSUME BInv, NEW line \in Lines, ReadLine(line)
    PROVE  BInv'
  <1>1. read' \in Seq(Lines)
    <2>1. read \in Seq(Lines) /\ read' = Append(read, line)
      BY DEF ReadLine, BInv, BitcoinTypeOK
    <2>2. QED
      BY <2>1, AppendProperties
  <1>2. CASE Fits(line) /\ Take(line)
    <2>1. reading' = IF WithinCap' THEN "reading" ELSE "nothing to add"
      BY <1>2 DEF ReadLine
    <2>2. BitcoinTypeOK'
      BY <1>1, <1>2, <2>1, TakeTyped DEF BInv, BitcoinTypeOK, Readings
    <2>3. in' <= MaxSats
      BY <1>2, FitsBounds DEF Take, BInv
    <2>4. Capped' /\ FiguresBalance'
      BY <2>1 DEF Capped, FiguresBalance, Figures
    <2>5. QED
      BY <2>2, <2>3, <2>4 DEF BInv
  <1>3. CASE /\ reading' = "nothing to add"
             /\ UNCHANGED <<at, back, out, paid, in, outputs>>
    BY <1>1, <1>3 DEF BInv, BitcoinTypeOK, Capped, FiguresBalance, Figures, Readings
  <1>4. QED
    BY <1>2, <1>3 DEF ReadLine

(* The only step that gives figures: the caps hold still, so the sum that  *)
(* is compared is the sum as numbers.                                      *)
LEMMA BInvFinish ==
    ASSUME BInv, Finish
    PROVE  BInv'
  <1>1. back \in Nat /\ out \in Nat /\ paid \in Nat /\ WithinCap
    <2>1. WithinCap
      BY DEF BInv, Capped, Finish
    <2>2. QED
      BY <2>1 DEF BInv, BitcoinTypeOK, Sats
  <1>2. Plus(back, out) = back + out
    BY <1>1, PlusExact, SatsAssumption DEF WithinCap
  <1>3. Plus(Plus(back, out), paid) = back + out + paid
    BY <1>1, <1>2, PlusExact, SatsAssumption DEF WithinCap
  <1>4. FiguresBalance'
    BY <1>3 DEF Finish, FiguresBalance, Figures, BInv
  <1>5. QED
    BY <1>4 DEF Finish, BInv, BitcoinTypeOK, Capped, Readings, Figures

LEMMA BInvStep == BInv /\ [BitcoinNext]_bitcoinVars => BInv'
  <1>. SUFFICES ASSUME BInv, [BitcoinNext]_bitcoinVars
                PROVE  BInv'
    OBVIOUS
  <1>1. CASE Start
    BY <1>1, BInvStart
  <1>2. CASE \E line \in Lines : ReadLine(line)
    BY <1>2, BInvReadLine
  <1>3. CASE Finish
    BY <1>3, BInvFinish
  <1>4. CASE UNCHANGED bitcoinVars
    BY <1>4
    DEF bitcoinVars, BInv, BitcoinTypeOK, Capped, WithinCap, FiguresBalance
  <1>5. QED
    BY <1>1, <1>2, <1>3, <1>4 DEF BitcoinNext

(* The reading keeps its types, its sums within the cap while it reads,    *)
(* and its figures balanced: sheet::bitcoinReading's loop.                 *)
THEOREM BitcoinInvariant == BitcoinSpec => []BInv
  BY BInvInit, BInvStep, PTL DEF BitcoinSpec

-----------------------------------------------------------------------------
(* The theorems *)

(* Of no line however long, and of no number of lines, are figures given   *)
(* that balance only in 64 bits, or spend more than there is.              *)
THEOREM FiguresDoBalance == BitcoinSpec => []FiguresBalance
  <1>1. BInv => FiguresBalance
    BY DEF BInv
  <1>2. QED
    BY <1>1, BitcoinInvariant, PTL

(* While lines are read, each adds exactly what it names to one sum.       *)
THEOREM AdditionsAreExact == BitcoinSpec => AdditionsExact
  <1> DEFINE Exact ==
        reading' = "reading" =>
            /\ back' >= back /\ back' - back \in Amounts \cup {0}
            /\ out' >= out /\ out' - out \in Amounts \cup {0}
  <1>1. ASSUME BInv, [BitcoinNext]_bitcoinVars
        PROVE  [Exact]_bitcoinVars
    <2>1. back \in Nat /\ out \in Nat
      BY <1>1 DEF BInv, BitcoinTypeOK, Sats
    <2>2. CASE UNCHANGED <<back, out>>
      BY <2>1, <2>2
    <2>3. ASSUME NEW line \in Lines, ReadLine(line), Fits(line), Take(line)
          PROVE  Exact
      <3>1. WithinCap /\ BitcoinTypeOK
        BY <1>1, <2>3 DEF ReadLine, BInv, Capped
      <3>2. /\ back' = back + (IF line.kind = "own" THEN line.sats ELSE 0)
            /\ out' = out + (IF line.kind = "send" THEN line.sats ELSE 0)
        BY <2>3, <3>1, TakeExact
      <3>3. line.sats \in Nat /\ (line.kind # "other" => line.sats \in Amounts)
        BY LineTyped
      <3>4. QED
        BY <2>1, <3>2, <3>3
    <2>4. QED
      BY <1>1, <2>2, <2>3 DEF BitcoinNext, Start, Finish, ReadLine, bitcoinVars
  <1>2. QED
    BY <1>1, BitcoinInvariant, PTL DEF BitcoinSpec, AdditionsExact
=============================================================================
