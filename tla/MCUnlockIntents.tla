-------------------------- MODULE MCUnlockIntents --------------------------
(***************************************************************************)
(* UnlockIntents on small instances.                                       *)
(***************************************************************************)
EXTENDS UnlockIntents, TLC

CONSTANTS w1, w2, o1

TwoWallets == {w1, w2}
Listed == [w \in TwoWallets |-> IF w = w1 THEN 1 ELSE 2]
OneOpen == {o1}
AskAll == [seeds |-> {w1, w2}, every |-> TRUE, open |-> NoOpen]
SmallAsks == {AskAll, [AskAll EXCEPT !.open = o1], [AskAll EXCEPT !.seeds = {w2}, !.every = FALSE]}
OfSecond == [o \in OneOpen |-> w2]

Symmetry == Permutations(Intents)

(* An intent that heard cancelled or bad_request, and is not held, is done *)
(* with: what it asked and what met it decides nothing, and no property    *)
(* says anything of it any more.                                           *)
Done == {i \in Intents : told[i] # <<>> /\ i # unlockIntent /\ \A n \in DOMAIN told[i] : told[i][n] # "ok"}

Kept ==
    <<opensVars, accessVars, seen, sheetVars, told,
      [i \in Intents \ Done |-> <<asks[i], i \in inTime, i \in openedFor, i \in steppedFor>>]>>
=============================================================================
