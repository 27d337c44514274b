--------------------------- MODULE BitcoinReading ---------------------------
(***************************************************************************)
(* sheet::bitcoinReading (src/sheet_lines.cpp): a Bitcoin request's lines, *)
(* below the four of its header, are read one by one and their figures     *)
(* added up, in unsigned numbers that wrap; a line that does not fit, or   *)
(* figures that do not balance, and nothing is added to the lines.         *)
(*                                                                         *)
(* A line is what the regular expressions tell of it: its kind and its     *)
(* amount as printed.  How the reading is worded, and how many addresses   *)
(* it counts, is left out.                                                 *)
(***************************************************************************)
EXTENDS Naturals, Sequences, FiniteSets

CONSTANTS
    MaxSats,        \* kMaxSats: all the satoshis there are
    MaxPrinted,     \* the most that 8 digits and 8 more, or a fee of 16, print
    Modulus,        \* 2^64
    Amounts,        \* the amounts lines may name
    MaxLines        \* bound: how many lines are read

ASSUME SatsAssumption ==
    /\ MaxSats \in Nat /\ MaxPrinted \in Nat /\ Modulus \in Nat
    /\ MaxSats <= MaxPrinted /\ MaxPrinted < Modulus /\ 3 * MaxSats < Modulus
ASSUME AmountsAssumption == Amounts \subseteq Nat
ASSUME LinesAssumption == MaxLines \in Nat

VARIABLES
    at,             \* where in the layout the next line is
    back, out, paid, in,
    outputs,        \* how many outputs were read
    read,           \* history: the lines read
    reading         \* what is said of them

bitcoinVars == <<at, back, out, paid, in, outputs, read, reading>>

Lines ==
    [kind : {"own", "send", "fee", "spends"}, sats : Amounts] \cup [kind : {"other"}, sats : {0}]

Sats == 0 .. Modulus - 1

(* Not read yet or not to its end; figures, by what they come to; or none. *)
Figures == {"everything comes back", "sends"}
Readings == {"unread", "reading", "nothing to add"} \cup Figures

BitcoinTypeOK ==
    /\ at \in {"outputs", "spends", "done"}
    /\ back \in Sats /\ out \in Sats /\ paid \in Sats /\ in \in Sats
    /\ outputs \in Nat
    /\ read \in Seq(Lines)
    /\ reading \in Readings

-----------------------------------------------------------------------------
(* The figures *)

(* Fault: any number of digits is read. *)
AmountOfAnyLength(sats) == sats % Modulus <= MaxSats

(* amount(): not too long to be read without wrapping, and no more than    *)
(* there is.                                                               *)
Amount(sats) == sats <= MaxPrinted /\ sats % Modulus <= MaxSats

Plus(total, sats) == (total + sats) % Modulus

(* Fault: the sums are not held to what there is. *)
NoCap == TRUE

WithinCap == back <= MaxSats /\ out <= MaxSats /\ paid <= MaxSats

-----------------------------------------------------------------------------
(* The lines *)

(* Fault: a fee may come before any output. *)
FitsAnyFee(line) ==
    \/ at = "outputs" /\ line.kind \in {"own", "send"} /\ Amount(line.sats)
    \/ at = "outputs" /\ line.kind = "fee" /\ line.sats <= MaxPrinted
    \/ at = "spends" /\ line.kind = "spends" /\ Amount(line.sats)

(* The layout: outputs, at least one, then the fee, then what is spent. *)
Fits(line) ==
    \/ at = "outputs" /\ line.kind \in {"own", "send"} /\ Amount(line.sats)
    \/ at = "outputs" /\ outputs > 0 /\ line.kind = "fee" /\ line.sats <= MaxPrinted
    \/ at = "spends" /\ line.kind = "spends" /\ Amount(line.sats)

Take(line) ==
    /\ back' = IF line.kind = "own" THEN Plus(back, line.sats) ELSE back
    /\ out' = IF line.kind = "send" THEN Plus(out, line.sats) ELSE out
    /\ paid' = IF line.kind = "fee" THEN line.sats ELSE paid
    /\ in' = IF line.kind = "spends" THEN line.sats ELSE in
    /\ outputs' = IF line.kind \in {"own", "send"} THEN outputs + 1 ELSE outputs
    /\ at' = IF line.kind = "fee" THEN "spends" ELSE IF line.kind = "spends" THEN "done" ELSE at

(* The header is a Bitcoin request's. *)
Start ==
    /\ reading = "unread"
    /\ reading' = "reading"
    /\ UNCHANGED <<at, back, out, paid, in, outputs, read>>

(* The body of the loop. *)
ReadLine(line) ==
    /\ reading = "reading"
    /\ Len(read) < MaxLines
    /\ read' = Append(read, line)
    /\ \/ /\ Fits(line)
          /\ Take(line)
          /\ reading' = IF WithinCap' THEN "reading" ELSE "nothing to add"
       \/ /\ ~Fits(line)
          /\ reading' = "nothing to add"
          /\ UNCHANGED <<at, back, out, paid, in, outputs>>

(* Behind the last line: the figures have to balance. *)
Finish ==
    /\ reading = "reading"
    /\ reading' = IF at # "done" \/ Plus(Plus(back, out), paid) # in THEN "nothing to add"
                  ELSE IF out = 0 THEN "everything comes back" ELSE "sends"
    /\ UNCHANGED <<at, back, out, paid, in, outputs, read>>

BitcoinInit ==
    /\ at = "outputs"
    /\ back = 0 /\ out = 0 /\ paid = 0 /\ in = 0
    /\ outputs = 0
    /\ read = <<>>
    /\ reading = "unread"

BitcoinNext == Start \/ (\E line \in Lines : ReadLine(line)) \/ Finish

BitcoinSpec == BitcoinInit /\ [][BitcoinNext]_bitcoinVars

-----------------------------------------------------------------------------
(* Correctness *)

(* No sum wraps while it is still in use: a line read adds to back and out *)
(* exactly what it names, whatever was added before it.                    *)
AdditionsExact ==
    [][reading' = "reading" =>
          /\ back' >= back /\ back' - back \in Amounts \cup {0}
          /\ out' >= out /\ out' - out \in Amounts \cup {0}]_bitcoinVars

(* Figures are given only where they balance as numbers, not only in the   *)
(* width they are kept in, and within what there is.                       *)
FiguresBalance ==
    reading \in Figures => back + out + paid = in /\ in <= MaxSats
=============================================================================
