------------------------- MODULE MCInterpretation -------------------------
(***************************************************************************)
(* Interpretation on small instances: amounts up to three digits with up   *)
(* to four decimals, and Bitcoin figures in a width that they can wrap.    *)
(***************************************************************************)
EXTENDS Interpretation

Raws == UNION {[1 .. n -> {0, 7, 10}] : n \in 0 .. 3}

Leg(known, verified, call, args) == [to |-> known, verified |-> verified, call |-> call, args |-> args]

SmallLegs ==
    {Leg(TRUE, FALSE, "transfer", <<<<7>>, raw>>) : raw \in Raws}
        \cup {Leg(known, verified, call, <<<<7>>, <<0, 7>>, <<7, 0>>>>) :
                known \in BOOLEAN, verified \in BOOLEAN, call \in {"approve", "transferFrom", "other"}}
        \cup {Leg(TRUE, FALSE, "transferFrom", <<<<7>>, <<7>>>>)}

SmallDecimals == -1 .. 5
=============================================================================
