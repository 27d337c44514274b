--------------------------- MODULE Interpretation ---------------------------
(***************************************************************************)
(* EvmSignerUiBackend::interpret (src/evm_signer_ui_backend.cpp): what is  *)
(* said beside a request's own lines.  A Bitcoin request has its figures   *)
(* added up (BitcoinReading); else the decoder reads the calls out of the  *)
(* lines, and the token list on this device may name the contract of a     *)
(* call the decoder could not verify, and scale its amount.                *)
(*                                                                         *)
(* Each line said is kept as the item it is about and what it says.        *)
(***************************************************************************)
EXTENDS BitcoinReading, Integers, FiniteSetsExt, SequencesExt

CONSTANTS
    Legs,           \* what the decoder may tell of a call
    MaxItems,       \* bound: the items of a request
    Decimals,       \* the decimals the token list may name, -1 for none
    MaxDecimals     \* 36: with more an amount is not scaled

ASSUME DecimalsAssumption == Decimals \subseteq Int /\ MaxDecimals \in Nat
ASSUME ItemsAssumption == MaxItems \in Nat
ASSUME LegsAssumption == \A leg \in Legs : leg.args \in Seq(Seq(Nat))

VARIABLES
    phase,          \* where interpret() is
    items,          \* how many items the request has
    legs,           \* the calls decoded, by their item's index
    unread,         \* the indices of the legs still to be read
    said            \* the lines so far

interpretVars == <<phase, items, legs, unread, said>>
vars == <<bitcoinVars, interpretVars>>

(* A raw amount as its digits; 10 is a character that is none. *)
Digit == 0 .. 9

(* What the token list answers: nothing (an error, a late answer, a token  *)
(* without a symbol), or a name and decimals.                              *)
Replies == [named : {TRUE}, decimals : Decimals] \cup [named : {FALSE}, decimals : {-1}]

Nothing == [whole |-> <<>>, frac |-> <<>>]

Line(item, says, decimals, amount) ==
    [item |-> item, says |-> says, decimals |-> decimals, amount |-> amount]

TypeOK ==
    /\ BitcoinTypeOK
    /\ phase \in {"start", "bitcoin", "legs", "asked", "done"}
    /\ items \in 0 .. MaxItems
    /\ DOMAIN legs \subseteq 1 .. items /\ Range(legs) \subseteq Legs
    /\ unread \subseteq DOMAIN legs
    /\ \A n \in DOMAIN said : said[n].item \in 1 .. items

-----------------------------------------------------------------------------
(* Amounts *)

(* amountArg: which argument is an amount, by the call's signature,        *)
(* counted from 1; 0 for none.                                              *)
amountArg(call) ==
    CASE call \in {"transfer", "approve"} -> 2
      [] call = "transferFrom" -> 3
      [] OTHER -> 0

Zeros(n) == [k \in 1 .. n |-> 0]

(* What is left of a fraction without the zeros at its end. *)
Chopped(frac) == SubSeq(frac, 1, Max({0} \cup {n \in DOMAIN frac : frac[n] # 0}))

(* Fault: the raw amount is not padded before it is cut. *)
scaleUnitsUnpadded(raw, decimals) ==
    IF raw = <<>> \/ decimals \notin 0 .. MaxDecimals \/ ~(Range(raw) \subseteq Digit) THEN Nothing
    ELSE LET point == Max({0, Len(raw) - decimals}) IN
         [whole |-> SubSeq(raw, 1, point), frac |-> Chopped(SubSeq(raw, point + 1, Len(raw)))]

(* scaleUnits: the raw amount with a point before its last decimals. *)
scaleUnits(raw, decimals) ==
    IF raw = <<>> \/ decimals \notin 0 .. MaxDecimals \/ ~(Range(raw) \subseteq Digit) THEN Nothing
    ELSE LET padded == Zeros(decimals + 1 - Len(raw)) \o raw
             point == Len(padded) - decimals
         IN [whole |-> SubSeq(padded, 1, point), frac |-> Chopped(SubSeq(padded, point + 1, Len(padded)))]

(* The raw amount of a call, if it has one. *)
RawAmount(leg) ==
    IF amountArg(leg.call) \in DOMAIN leg.args THEN leg.args[amountArg(leg.call)] ELSE <<>>

-----------------------------------------------------------------------------
(* interpret() *)

(* The lines of a Bitcoin request are read; the decoder is not asked. *)
InterpretBitcoin ==
    /\ phase = "start"
    /\ phase' = "bitcoin"
    /\ Start
    /\ UNCHANGED <<items, legs, unread, said>>

ReadBitcoin ==
    /\ phase = "bitcoin"
    /\ (\E line \in Lines : ReadLine(line)) \/ Finish
    /\ UNCHANGED interpretVars

(* No decoder, or nothing it could read. *)
DecodeNothing ==
    /\ phase = "start"
    /\ phase' = "done"
    /\ UNCHANGED <<bitcoinVars, items, legs, unread, said>>

(* Of n items the calls among them are decoded. *)
Decode(n, calls) ==
    /\ phase = "start"
    /\ phase' = "legs"
    /\ items' = n
    /\ legs' \in [calls -> Legs]
    /\ unread' = calls
    /\ UNCHANGED <<bitcoinVars, said>>

(* Fault: items are told apart only where more than one decoded. *)
LabelledByLegs == Cardinality(DOMAIN legs) > 1

Labelled == items > 1

(* Fault: the token list is asked about any address. *)
AsksOfAny(leg) == leg.to

(* tokenListLines: nothing is added over an address the decoder verified. *)
Asks(leg) == leg.to /\ ~leg.verified

(* The decoder's own reading of a leg, behind its label; the token list,   *)
(* where it is asked, is a call that blocks.                               *)
ReadLeg ==
    /\ phase = "legs"
    /\ unread # {}
    /\ LET n == Min(unread) IN
          /\ said' = said \o (IF Labelled THEN <<Line(n, "item", 0, Nothing)>> ELSE <<>>)
                          \o <<Line(n, "decoded", 0, Nothing)>>
          /\ IF Asks(legs[n])
             THEN phase' = "asked" /\ UNCHANGED unread
             ELSE unread' = unread \ {n} /\ UNCHANGED phase
    /\ UNCHANGED <<bitcoinVars, items, legs>>

(* ... and what it answered. *)
TokenListAnswers(reply) ==
    /\ phase = "asked"
    /\ phase' = "legs"
    /\ LET n == Min(unread)
           amount == scaleUnits(RawAmount(legs[n]), reply.decimals)
       IN /\ unread' = unread \ {n}
          /\ said' = said \o (IF reply.named THEN <<Line(n, "token", 0, Nothing)>> ELSE <<>>)
                          \o (IF reply.named /\ amount # Nothing
                              THEN <<Line(n, "amount", reply.decimals, amount)>> ELSE <<>>)
    /\ UNCHANGED <<bitcoinVars, items, legs>>

Interpreted ==
    /\ phase = "legs"
    /\ unread = {}
    /\ phase' = "done"
    /\ UNCHANGED <<bitcoinVars, items, legs, unread, said>>

Init ==
    /\ BitcoinInit
    /\ phase = "start"
    /\ items = 0
    /\ legs = <<>>
    /\ unread = {}
    /\ said = <<>>

Next ==
    \/ InterpretBitcoin \/ ReadBitcoin
    \/ DecodeNothing
    \/ \E n \in 1 .. MaxItems : \E calls \in (SUBSET (1 .. n)) \ {{}} : Decode(n, calls)
    \/ ReadLeg
    \/ \E reply \in Replies : TokenListAnswers(reply)
    \/ Interpreted

Spec == Init /\ [][Next]_vars

-----------------------------------------------------------------------------
(* Correctness *)

SumOf(kind) ==
    FoldLeft(LAMBDA sum, line : sum + (IF line.kind = kind THEN line.sats ELSE 0), 0, read)

(* A Bitcoin request's figures are given exactly where its lines are the   *)
(* manager's layout and balance, as numbers: the caps and the early ways   *)
(* out of the loop lose no request that does, and let none by that does    *)
(* not.                                                                    *)
InLayout ==
    LET n == Len(read) - 2 IN
    /\ n > 0
    /\ \A k \in 1 .. n : read[k].kind \in {"own", "send"}
    /\ read[n + 1].kind = "fee" /\ read[n + 2].kind = "spends"

ReadingIsRight ==
    reading \notin {"unread", "reading"} =>
        LET sound == /\ InLayout
                     /\ SumOf("own") + SumOf("send") + SumOf("fee") = SumOf("spends")
                     /\ SumOf("spends") <= MaxSats
        IN reading = IF ~sound THEN "nothing to add"
                     ELSE IF SumOf("send") = 0 THEN "everything comes back" ELSE "sends"

(* An amount said is exactly the raw one, whatever the decimals: nothing   *)
(* is rounded, no digit is lost where the point is before or among the     *)
(* zeros, and no zero is left at its end.                                  *)
Value(digits) == FoldLeft(LAMBDA value, digit : 10 * value + digit, 0, digits)

AmountsExact ==
    \A n \in DOMAIN said : said[n].says = "amount" =>
        LET amount == said[n].amount
            short == said[n].decimals - Len(amount.frac)
        IN /\ amount.whole # <<>>
           /\ amount.frac # <<>> => Last(amount.frac) # 0
           /\ Value(amount.whole \o amount.frac \o Zeros(short)) = Value(RawAmount(legs[said[n].item]))

(* What is said of an item stands together behind its label, and the label *)
(* is there as soon as the request has another item, decoded or not; the   *)
(* token list speaks only behind the decoder, of what it did not verify.   *)
Before == [item |-> 1, decoded |-> 2, token |-> 3, amount |-> 4]

SaidOfItsItem ==
    \A n \in DOMAIN said :
        /\ said[n].says = "token" => ~legs[said[n].item].verified
        /\ said[n].says = "decoded" /\ items > 1 =>
              n > 1 /\ said[n - 1] = Line(said[n].item, "item", 0, Nothing)
        /\ n > 1 => \/ said[n - 1].item < said[n].item
                    \/ /\ said[n - 1].item = said[n].item
                       /\ Before[said[n - 1].says] < Before[said[n].says]
=============================================================================
